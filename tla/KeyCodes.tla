------------------------------- MODULE KeyCodes -------------------------------
(***************************************************************************)
(* The conversions an input event passes through: the client's window      *)
(* (map_virtual_key_to_hid, decode_utf16_unit, the words of a mouse        *)
(* message), its input controller (clamp_to_monitor, ClientInputSender),   *)
(* the host's input handler, and the Windows injector (map_hid_usage,      *)
(* normalize_coordinate, translate).                                       *)
(***************************************************************************)
EXTENDS Integers, SequencesExt

CONSTANTS
  Unmapped,             \* what a conversion that refuses its argument returns
  Texts,                \* sequences of UTF-16 code units whose decoding is checked
  Monitors,             \* [origin, width] of the monitors whose mapping is checked
  Columns               \* mouse columns whose mapping is checked

----------------------------------------------------------------------------
(* window.rs *)

\* Virtual keys whose extended bit tells <<the key, its twin on the keypad or the left>>.
ByExtendedBit ==
     \h0D :> <<\h58, \h28>> @@ \h2D :> <<\h49, \h62>> @@ \h2E :> <<\h4C, \h63>>
  @@ \h24 :> <<\h4A, \h5F>> @@ \h23 :> <<\h4D, \h59>> @@ \h21 :> <<\h4B, \h61>>
  @@ \h22 :> <<\h4E, \h5B>> @@ \h25 :> <<\h50, \h5C>> @@ \h26 :> <<\h52, \h60>>
  @@ \h27 :> <<\h4F, \h5E>> @@ \h28 :> <<\h51, \h5A>>
  @@ \h11 :> <<\hE4, \hE0>> @@ \h12 :> <<\hE6, \hE2>>

NumberPad == <<\h62, \h59, \h5A, \h5B, \h5C, \h5D, \h5E, \h5F, \h60, \h61>>

SingleKeys ==
     \h08 :> \h2A @@ \h09 :> \h2B @@ \h0C :> \h5D @@ \h1B :> \h29 @@ \h20 :> \h2C
  @@ \h5B :> \hE3 @@ \h5C :> \hE7 @@ \h6A :> \h55 @@ \h6B :> \h57 @@ \h6D :> \h56
  @@ \h6E :> \h63 @@ \h6F :> \h54 @@ \h90 :> \h53 @@ \hBA :> \h33 @@ \hBB :> \h2E
  @@ \hBC :> \h36 @@ \hBD :> \h2D @@ \hBE :> \h37 @@ \hBF :> \h38 @@ \hC0 :> \h35
  @@ \hDB :> \h2F @@ \hDC :> \h31 @@ \hDD :> \h30 @@ \hDE :> \h34

MapVirtualKeyToHid(code, scan_code, extended) ==
  CASE code \in \h41..\h5A -> code - \h41 + \h04
    [] code = \h30 -> \h27
    [] code \in \h31..\h39 -> code - \h30 + \h1D
    [] code \in \h70..\h7B -> code - \h70 + \h3A
    [] code = \h10 -> IF scan_code = \h36 THEN \hE5 ELSE \hE1
    [] code \in DOMAIN ByExtendedBit -> ByExtendedBit[code][IF extended THEN 1 ELSE 2]
    [] code \in \h60..\h69 -> NumberPad[code - \h60 + 1]
    [] code \in DOMAIN SingleKeys -> SingleKeys[code]
    [] OTHER -> Unmapped

HighSurrogate == \hD800..\hDBFF
LowSurrogate == \hDC00..\hDFFF

\* Faulty variant: an unmatched high surrogate is kept past an ordinary unit.
DecodeKeepsPending(pending, unit) ==
  CASE unit \in HighSurrogate -> [pending |-> unit, text |-> <<>>]
    [] unit \in LowSurrogate ->
         [pending |-> Unmapped,
          text |-> IF pending = Unmapped THEN <<>> ELSE <<pending, unit>>]
    [] OTHER -> [pending |-> pending, text |-> <<unit>>]

\* decode_utf16_unit: the text a WM_CHAR message yields, none as <<>>, and the high
\* surrogate that then waits for its other half.
DecodeUtf16Unit(pending, unit) ==
  CASE unit \in HighSurrogate -> [pending |-> unit, text |-> <<>>]
    [] unit \in LowSurrogate ->
         [pending |-> Unmapped,
          text |-> IF pending = Unmapped THEN <<>> ELSE <<pending, unit>>]
    [] OTHER -> [pending |-> Unmapped, text |-> <<unit>>]

\* signed_low and signed_high: a 16-bit word of lparam as a signed coordinate.
SignedWord(word) == IF word >= 2^15 THEN word - 2^16 ELSE word

----------------------------------------------------------------------------
(* input.rs and receiver.rs of the client *)

Clamp(x, low, high) == IF x < low THEN low ELSE IF x > high THEN high ELSE x

ClampToMonitor(x, monitor) ==
  Clamp(x, monitor.origin, monitor.origin + monitor.width - 1)

\* InputEvent::validate, where an event can fail it.
ValidEvent(event) ==
  CASE event.type = "Key" -> event.code < 2^16
    [] event.type = "Wheel" -> event.delta \in -120000..120000
    [] OTHER -> TRUE

Buttons == <<"Left", "Right", "Middle", "Back", "Forward">>

\* ClientInputSender::encode: the protobuf message of a valid event.
Encode(event) ==
  CASE event.type = "Key" -> [message |-> "KeyEvent", code |-> event.code, pressed |-> event.down]
    [] event.type = "Button" ->
         [message |-> "MouseButton",
          button |-> CHOOSE i \in 0..4 : Buttons[i + 1] = event.button,
          pressed |-> event.down]
    [] event.type = "Move" -> [message |-> "MouseMove", x |-> event.x]
    [] event.type = "Wheel" -> [message |-> "MouseWheel", delta |-> event.delta]
    [] event.type = "Text" -> [message |-> "TextInput", text |-> event.text]

----------------------------------------------------------------------------
(* input_handler.rs of the desktop host *)

\* The event that each handler dispatches; an unknown button counts as the left one.
Handled(control) ==
  CASE control.message = "KeyEvent" -> [type |-> "Key", code |-> control.code, down |-> control.pressed]
    [] control.message = "MouseButton" ->
         [type |-> "Button", down |-> control.pressed,
          button |-> Buttons[IF control.button \in 0..4 THEN control.button + 1 ELSE 1]]
    [] control.message = "MouseMove" -> [type |-> "Move", x |-> control.x]
    [] control.message = "MouseWheel" -> [type |-> "Wheel", delta |-> control.delta]
    [] control.message = "TextInput" -> [type |-> "Text", text |-> control.text]

----------------------------------------------------------------------------
(* input.rs of platform/windows *)

\* Scan codes of the letters A to Z, usages 04 to 1D.
LetterScanCodes ==
  <<\h1E, \h30, \h2E, \h20, \h12, \h21, \h22, \h23, \h17, \h24, \h25, \h26, \h32,
    \h31, \h18, \h19, \h10, \h13, \h1F, \h14, \h16, \h2F, \h11, \h2D, \h15, \h2C>>

PlainScanCodes ==
     \h28 :> \h1C @@ \h29 :> \h01 @@ \h2A :> \h0E @@ \h2B :> \h0F @@ \h2C :> \h39
  @@ \h2D :> \h0C @@ \h2E :> \h0D @@ \h2F :> \h1A @@ \h30 :> \h1B @@ \h31 :> \h2B
  @@ \h32 :> \h2B @@ \h33 :> \h27 @@ \h34 :> \h28 @@ \h35 :> \h29 @@ \h36 :> \h33
  @@ \h37 :> \h34 @@ \h38 :> \h35 @@ \h39 :> \h3A @@ \h44 :> \h57 @@ \h45 :> \h58
  @@ \h47 :> \h46 @@ \h53 :> \h45 @@ \h55 :> \h37 @@ \h56 :> \h4A @@ \h57 :> \h4E
  @@ \h59 :> \h4F @@ \h5A :> \h50 @@ \h5B :> \h51 @@ \h5C :> \h4B @@ \h5D :> \h4C
  @@ \h5E :> \h4D @@ \h5F :> \h47 @@ \h60 :> \h48 @@ \h61 :> \h49 @@ \h62 :> \h52
  @@ \h63 :> \h53 @@ \h64 :> \h56 @@ \hE0 :> \h1D @@ \hE1 :> \h2A @@ \hE2 :> \h38
  @@ \hE5 :> \h36

ExtendedScanCodes ==
     \h49 :> \h52 @@ \h4A :> \h47 @@ \h4B :> \h49 @@ \h4C :> \h53 @@ \h4D :> \h4F
  @@ \h4E :> \h51 @@ \h4F :> \h4D @@ \h50 :> \h4B @@ \h51 :> \h50 @@ \h52 :> \h48
  @@ \h54 :> \h35 @@ \h58 :> \h1C @@ \h65 :> \h5D @@ \hE3 :> \h5B @@ \hE4 :> \h1D
  @@ \hE6 :> \h38 @@ \hE7 :> \h5C

ScanCode(value, ext) == [value |-> value, extended |-> ext]

MapHidUsage(usage) ==
  CASE usage \in \h04..\h1D -> ScanCode(LetterScanCodes[usage - \h04 + 1], FALSE)
    [] usage \in \h1E..\h27 -> ScanCode(usage - \h1E + \h02, FALSE)
    [] usage \in \h3A..\h43 -> ScanCode(usage - \h3A + \h3B, FALSE)
    [] usage \in DOMAIN PlainScanCodes -> ScanCode(PlainScanCodes[usage], FALSE)
    [] usage \in DOMAIN ExtendedScanCodes -> ScanCode(ExtendedScanCodes[usage], TRUE)
    [] OTHER -> Unmapped

MaxAbsolute == 65535

\* normalize_coordinate; a range that is not positive is refused.
NormalizeCoordinate(value, minimum, maximum) ==
  IF maximum - minimum <= 0 THEN Unmapped
  ELSE Clamp(((value - minimum) * MaxAbsolute) \div (maximum - minimum), 0, MaxAbsolute)

\* translate: the records of an event, Unmapped when a part of it is refused.
Translate(event, bounds) ==
  CASE event.type = "Key" ->
         LET code == MapHidUsage(event.code) IN
         IF code = Unmapped THEN Unmapped
         ELSE <<[record |-> "ScanCode", code |-> code, key_up |-> ~event.down]>>
    [] event.type = "Text" ->
         [i \in 1..(2 * Len(event.text)) |->
            [record |-> "Unicode", unit |-> event.text[(i + 1) \div 2], key_up |-> i % 2 = 0]]
    [] event.type = "Move" ->
         LET x == NormalizeCoordinate(event.x, bounds.min, bounds.max) IN
         IF x = Unmapped THEN Unmapped ELSE <<[record |-> "MouseMove", absolute |-> x]>>
    [] event.type = "Button" ->
         <<[record |-> "MouseButton", button |-> event.button, pressed |-> event.down]>>
    [] event.type = "Wheel" ->
         IF event.delta = 0 THEN <<>> ELSE <<[record |-> "MouseWheel", delta |-> event.delta]>>

----------------------------------------------------------------------------
(* External: what a US keyboard reports, as WM_KEYDOWN's virtual key, scan code and     *)
(* extended bit.  NumLock, whose scan code a keyboard shares with Pause, is left out.   *)

UsKeyboard ==
  LET Key(vk, scan, ext) == [vk |-> vk, scan |-> scan, extended |-> ext]
      Row(vks, first) == {Key(vks[i], first + i - 1, FALSE) : i \in DOMAIN vks}
      Pad(vks, ext) == {Key(vks[i], <<\h52, \h4F, \h50, \h51, \h4B, \h4C, \h4D, \h47, \h48,
                                      \h49, \h53>>[i], ext) : i \in DOMAIN vks}
      Cursor == <<\h2D, \h23, \h28, \h22, \h25, \h0C, \h27, \h24, \h26, \h21, \h2E>> IN
  \* the rows of the main block, from the digits down
       Row(<<\h1B, \h31, \h32, \h33, \h34, \h35, \h36, \h37, \h38, \h39, \h30, \hBD, \hBB, \h08>>, \h01)
  \cup Row(<<\h09, \h51, \h57, \h45, \h52, \h54, \h59, \h55, \h49, \h4F, \h50, \hDB, \hDD, \h0D, \h11>>, \h0F)
  \cup Row(<<\h41, \h53, \h44, \h46, \h47, \h48, \h4A, \h4B, \h4C, \hBA, \hDE, \hC0, \h10, \hDC>>, \h1E)
  \cup Row(<<\h5A, \h58, \h43, \h56, \h42, \h4E, \h4D, \hBC, \hBE, \hBF, \h10, \h6A, \h12, \h20>>, \h2C)
  \cup Row(<<\h70, \h71, \h72, \h73, \h74, \h75, \h76, \h77, \h78, \h79>>, \h3B)
  \cup Row(<<\h7A, \h7B>>, \h57)
  \* the keypad with NumLock on and off, and the cursor block
  \cup Pad([i \in 1..10 |-> \h60 + i - 1] \o <<\h6E>>, FALSE)
  \cup Pad(Cursor, FALSE)
  \cup {k \in Pad(Cursor, TRUE) : k.vk # \h0C}
  \cup {Key(\h6B, \h4E, FALSE), Key(\h6D, \h4A, FALSE), Key(\h6F, \h35, TRUE),
        Key(\h0D, \h1C, TRUE), Key(\h11, \h1D, TRUE), Key(\h12, \h38, TRUE),
        Key(\h5B, \h5B, TRUE), Key(\h5C, \h5C, TRUE)}

----------------------------------------------------------------------------
(* Properties *)

\* A key pressed at the client is the key injected at the host: through virtual key, HID
\* usage, control message and host event, map_hid_usage gives back the scan code and the
\* extended bit that the keyboard reported.
KeysRoundTrip ==
  \A k \in UsKeyboard :
    LET usage == MapVirtualKeyToHid(k.vk, k.scan, k.extended) IN
    /\ usage # Unmapped
    /\ \A down \in BOOLEAN :
         LET event == Handled(Encode([type |-> "Key", code |-> usage, down |-> down])) IN
         Translate(event, Unmapped)
           = <<[record |-> "ScanCode", code |-> ScanCode(k.scan, k.extended), key_up |-> ~down]>>

\* What decode_utf16_unit makes of a stream of units, one message at a time.
Decoded(units) ==
  FoldLeft(LAMBDA state, unit :
             LET next == DecodeUtf16Unit(state.pending, unit) IN
             [pending |-> next.pending, text |-> state.text \o next.text],
           [pending |-> Unmapped, text |-> <<>>], units).text

\* The text of a stream of WM_CHAR units is the stream without its unpaired surrogates:
\* a half waits for its other half only as long as they can be adjacent.
TextIsWellFormed ==
  \A units \in Texts :
    LET Paired(i) ==
          CASE units[i] \in HighSurrogate -> i < Len(units) /\ units[i + 1] \in LowSurrogate
            [] units[i] \in LowSurrogate -> i > 1 /\ units[i - 1] \in HighSurrogate
            [] OTHER -> TRUE
        kept == SelectSeq([i \in DOMAIN units |-> i], Paired) IN
    Decoded(units) = [i \in DOMAIN kept |-> units[kept[i]]]

\* A monitor's columns reach the host's absolute coordinates in order, no two as one, the
\* first and the last at the ends of the range, and no point outside the monitor survives
\* the clamp; a monitor of one column, which the client accepts, cannot be addressed.
PointerKeepsOrder ==
  \A m \in Monitors :
    LET last == m.origin + m.width - 1
        Sent(x) == ClampToMonitor(SignedWord(x % 2^16), m)
        At(x) == NormalizeCoordinate(Sent(x), m.origin, last) IN
    IF m.width = 1 THEN \A x \in Columns : At(x) = Unmapped
    ELSE \A x \in Columns :
           /\ Sent(x) \in m.origin..last
           /\ x <= m.origin => At(x) = 0
           /\ x >= last => At(x) = MaxAbsolute
           /\ \A y \in Columns : Sent(x) < Sent(y) => At(x) < At(y)

=============================================================================
