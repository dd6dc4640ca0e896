-------------------------- MODULE MCWindowsEncoder --------------------------
\* An encoder whose queues are small enough to fill up: the longest calls of a sound
\* asynchronous transform, shorter ones with a failure, starts and drops in which three
\* things fail, and a synchronous transform.  The pictures are small, of sides that do and
\* do not fit, and of the extreme colours and some between them.
EXTENDS WindowsEncoder, EncoderPicture

MCScenarios ==
  {[frames |-> 3, calls |-> 2, faults |-> 0, async |-> TRUE],
   [frames |-> 2, calls |-> 2, faults |-> 1, async |-> TRUE],
   [frames |-> 1, calls |-> 1, faults |-> 3, async |-> TRUE],
   [frames |-> 3, calls |-> 3, faults |-> 1, async |-> FALSE]}

\* The corners of the colour cube, and colours that meet the largest rounding.
MCColours ==
  ({0, 255} \X {0, 255} \X {0, 255})
    \cup {<<0, 196, 228>>, <<0, 0, 37>>, <<200, 100, 50>>, <<127, 128, 129>>, <<16, 235, 16>>}

MCFillings == {<<0, 0>>}

AtStart == op = "new"

\* Every access bgra_to_nv12 makes with a layout that passed its checks is inside the frame
\* and the output, for every enumerated size.
LayoutsBounded == AtStart => OffsetsInLayout

\* copy_mapped_nv12 keeps the picture of a texture for every enumerated size and pitch.
TexturesKept == AtStart => TextureKept

\* What the host's bgra_to_nv12 and the client's nv12_to_bgra make of a captured picture has
\* its colours, for every two enumerated colours side by side.
ColoursKept == AtStart => ColoursReachClient

\* A captured picture reaches the client as it is: every access inside the frame, the texture
\* whole, the colours those on the host's screen.
PicturesKept == LayoutsBounded /\ TexturesKept /\ ColoursKept
=============================================================================
