----------------------- MODULE WindowsCapture_proofs ------------------------
(***************************************************************************)
(* Proofs about the Windows capture source: each call gets its own answer  *)
(* and neither channel ever blocks (CallsPaired), the frame pool is served *)
(* and closed on every path (PoolServed), a closed item is reported        *)
(* (LossReported), and a source that ended stays ended with its worker     *)
(* gone before anything says it finished.                                  *)
(***************************************************************************)
EXTENDS WindowsCapture, SequenceTheorems, TLAPS

----------------------------------------------------------------------------
(* The inductive invariant: the caller, the worker and their channels *)

Results == {"none", "frame", "InvalidFrame", "NativeFailure", "DeviceLost", "FrameUnavailable"}

Messages ==
  [kind : {"Started"}, ok : BOOLEAN] \union [kind : {"Stopped"}]
  \union [kind : {"Frame"}, result : Results, call : Nat]

Commands == [kind : {"NextFrame"}, call : Nat] \union [kind : {"Stop"}]

\* A channel of depth one.
AtMostOne(channel, S) == channel = <<>> \/ \E m \in S : channel = <<m>>

\* The caller's and the worker's own variables.
CallTypes ==
  /\ state \in {"none", "Running", "RecoverableLoss", "Stopped"}
  /\ cpc \in {"starting", "idle", "awaitFrame", "awaitStop", "joining", "gone"}
  /\ wpc \in {"init", "announce", "recv", "serving", "stopped", "exited"}
  /\ AtMostOne(command, Commands) /\ AtMostOne(response, Messages)
  /\ calls \in 0..MaxCalls
  /\ commandTx \in BOOLEAN /\ responseRx \in BOOLEAN /\ panicked \in BOOLEAN

\* A command is only ever sent to a worker that waits for one, with no answer about: the
\* worker finds the response channel empty whenever it comes to send.
ChannelsInv ==
  /\ command # <<>> => wpc = "recv" /\ response = <<>>
  /\ wpc \in {"init", "announce", "serving", "stopped"} => response = <<>>
  /\ wpc \in {"init", "announce"} => cpc \in {"starting", "gone"} /\ state = "none"

\* What the caller knows of the worker, at each point of its own program.
CallerInv ==
  /\ state = "none" => cpc \in {"starting", "gone"}
  /\ cpc = "starting" =>
       /\ state = "none" /\ commandTx /\ responseRx /\ command = <<>>
       /\ wpc \in {"init", "announce", "recv", "exited"}
       /\ wpc = "recv" => response = <<[kind |-> "Started", ok |-> TRUE]>>
       /\ wpc = "exited" => response = <<[kind |-> "Started", ok |-> FALSE]>>
  /\ cpc = "idle" /\ state \in {"Running", "RecoverableLoss"} =>
       wpc = "recv" /\ command = <<>> /\ response = <<>> /\ commandTx /\ responseRx
  /\ cpc = "awaitFrame" =>
       /\ state = "Running" /\ commandTx /\ responseRx
       /\ response # <<>> => Head(response).kind = "Frame" /\ Head(response).call = calls /\ wpc = "recv"
       /\ command # <<>> => Head(command).kind = "NextFrame"
       /\ wpc = "recv" => command # <<>> \/ response # <<>>
       /\ wpc # "stopped"
  /\ cpc = "awaitStop" => state \in {"Running", "RecoverableLoss"} /\ ~commandTx
  /\ cpc = "joining" => state = "Stopped"
  /\ cpc = "gone" => ~responseRx /\ response = <<>> /\ state \in {"none", "Stopped"}
  /\ state = "Stopped" \/ cpc = "gone" => ~commandTx

\* The call in the channel or in the worker's hands is the caller's last one.
ServingInv ==
  /\ command # <<>> /\ Head(command).kind = "NextFrame" => Head(command).call = calls /\ calls > 0
  /\ wpc = "serving" => serving = calls /\ calls > 0 /\ spc # "ready"
  /\ wpc # "serving" => spc = "ready"

PairInv == CallTypes /\ ChannelsInv /\ CallerInv /\ ServingInv /\ AnswersItsCall

----------------------------------------------------------------------------
(* The session *)

Frames == [content : Nat, alloc : Nat \ {0}]

PlaceTypes ==
  /\ spc \in {"ready", "wait", "drain", "inspect", "duplicate", "done"}
  /\ api \in {"none", "Wgc", "Dxgi"} /\ (api = "Dxgi" => AllowFallback)
  /\ closing \in {"no", "due", "flagged", "done"}
  /\ result \in Results

FlagTypes ==
  stopped \in BOOLEAN /\ token \in BOOLEAN /\ counted \in BOOLEAN /\ drainFailed \in BOOLEAN

\* An arrival is counted once.
CountsInv ==
  /\ pending \in Nat /\ arrived \in Nat /\ arrivals \in 0..MaxArrivals
  /\ pending + arrived <= arrivals

\* A frame has an id once it is copied, and a call is answered after one copy.
IdsInv ==
  /\ frameId \in 0..calls
  /\ command # <<>> /\ Head(command).kind = "NextFrame" => frameId < calls
  /\ wpc = "serving" /\ spc # "done" => frameId < calls

\* Every frame has a buffer of the pool's present size, and one that is taken is open only
\* while it is drained or looked at.
FramesInv ==
  /\ display \in Nat /\ poolSize \in Nat \ {0} /\ allocated = poolSize
  /\ pool \in Seq(Frames) /\ Len(pool) <= PoolBuffers
  /\ newest \in Frames \union {None}
  /\ \A i \in 1..Len(pool) : pool[i].alloc = poolSize
  /\ newest # None => newest.alloc = poolSize
  /\ newest = None => open = {}
  /\ spc = "inspect" => newest # None
  /\ spc \notin {"drain", "inspect"} => newest = None

\* A call returned DeviceLost and no call is to follow it.
LossKnown ==
  \/ spc = "done" /\ result = "DeviceLost"
  \/ /\ spc = "ready"
     /\ \/ wpc = "exited"
        \/ /\ command # <<>> => Head(command).kind = "Stop"
           /\ \/ state \in {"RecoverableLoss", "Stopped"}
              \/ response # <<>> /\ Head(response).kind = "Frame" /\ Head(response).result = "DeviceLost"

\* Whoever left a frame in the pool still counts or signals, or has done both.
WakeupInv ==
  /\ pool # <<>> => arrived > 0 \/ pending > 0 \/ spc = "drain" \/ drainFailed
  /\ pending > 0 => counted \/ token \/ LossKnown

LossInv ==
  /\ wpc \in {"init"} => api = "none"
  /\ spc \in {"wait", "drain", "inspect"} => api = "Wgc"
  /\ lostBefore /\ wpc = "serving" /\ api = "Wgc" =>
       closed /\ spc \in {"wait", "done"} /\ (spc = "done" => result = "DeviceLost")

----------------------------------------------------------------------------
(* The worker's thread *)

\* Who holds the JoinHandle; a reaper is only spawned for a source that has ended.
HandleInv ==
  /\ handle \in {"lifecycle", "caller", "reaper", "nobody"}
  /\ reaper \in {"none", "spawned", "joining", "exited"}
  /\ reaping \in BOOLEAN /\ finished \in BOOLEAN /\ unreaped \in BOOLEAN
  /\ (reaper # "none") = reaping
  /\ (cpc = "joining") = (handle = "caller")
  /\ (reaper = "joining") = (handle = "reaper")
  /\ handle = "caller" => ~reaping
  /\ state \in {"Running", "RecoverableLoss"} \/ cpc = "starting" => handle = "lifecycle" /\ ~reaping
  /\ handle = "nobody" \/ finished => wpc = "exited"
  /\ wpc \in {"stopped", "exited"} /\ api # "none" => stopped \/ panicked

CaptureInv ==
  PairInv /\ PlaceTypes /\ FlagTypes /\ CountsInv /\ IdsInv /\ FramesInv /\ WakeupInv /\ LossInv /\ HandleInv

----------------------------------------------------------------------------
(* Channels of depth one *)

\* A channel of depth one that is not empty is its one message.
LEMMA OneMessage ==
  ASSUME NEW m
  PROVE  <<m>> # <<>> /\ Head(<<m>>) = m /\ Len(<<m>>) = 1
  OBVIOUS

\* Taking what a channel holds, as recv does.
LEMMA ChannelTaken ==
  ASSUME NEW S, NEW channel, AtMostOne(channel, S), channel # <<>>
  PROVE  Head(channel) \in S /\ channel = <<Head(channel)>>
  BY OneMessage, Zenon DEF AtMostOne

\* The depth of a channel.
LEMMA ChannelHolds ==
  ASSUME NEW S, NEW channel, AtMostOne(channel, S)
  PROVE  Len(channel) <= 1
<1>1. CASE channel = <<>>
  BY <1>1
<1>2. ASSUME NEW m \in S, channel = <<m>> PROVE Len(channel) <= 1
  BY <1>2, OneMessage
<1> QED BY <1>1, <1>2, Zenon DEF AtMostOne

\* Sending into a channel, as try_send and send do.
LEMMA ChannelSent ==
  ASSUME NEW S, NEW m \in S
  PROVE  AtMostOne(<<m>>, S) /\ AtMostOne(<<>>, S)
  BY Zenon DEF AtMostOne

----------------------------------------------------------------------------
(* Calls and answers *)

\* The source starts with nothing asked and nothing answered.
LEMMA PairInit == Init => PairInv
<1> SUFFICES ASSUME Init PROVE PairInv
    BY Zenon
<1>1. /\ state = "none" /\ cpc = "starting" /\ calls = 0 /\ answer = Nothing /\ spc = "ready"
      /\ commandTx = TRUE /\ command = <<>> /\ responseRx = TRUE /\ response = <<>>
      /\ wpc = "init" /\ panicked = FALSE
  BY Zenon DEF Init, SessionInit
<1>2. AtMostOne(command, Commands) /\ AtMostOne(response, Messages)
  BY <1>1, Zenon DEF AtMostOne
<1>3. CallTypes
  <2>1. calls \in 0..MaxCalls
    BY <1>1, CallsAssumption
  <2> QED BY <1>1, <1>2, <2>1, Zenon DEF CallTypes
<1>4. ChannelsInv /\ CallerInv
  BY <1>1, Zenon DEF ChannelsInv, CallerInv
<1>5. ServingInv /\ AnswersItsCall
  BY <1>1, Zenon DEF ServingInv, AnswersItsCall
<1> QED BY <1>3, <1>4, <1>5, Zenon DEF PairInv

\* Each of the caller's steps keeps its calls and answers paired: start, next_frame, stop, the
\* join and Drop.
LEMMA CallerKeepsPairs == PairInv /\ Caller => PairInv'
<1> SUFFICES ASSUME PairInv, Caller PROVE PairInv'
    BY Zenon
<1> USE CallsAssumption DEF PairInv, CallTypes, ChannelsInv, CallerInv, ServingInv, AnswersItsCall,
        UnchangedWorker, workerVars, sessionVars, Nothing
<1>a. /\ command # <<>> => Head(command) \in Commands
      /\ response # <<>> => Head(response) \in Messages
  BY ChannelTaken, Zenon
<1>b. AtMostOne(<<>>, Commands) /\ AtMostOne(<<>>, Messages)
  BY Zenon DEF AtMostOne
<1>1. CASE StartAnswered
  <2>1. /\ wpc \in {"recv", "exited"} /\ command = <<>>
        /\ wpc = "recv" => Head(response) = [kind |-> "Started", ok |-> TRUE]
        /\ wpc = "exited" => Head(response) = [kind |-> "Started", ok |-> FALSE]
    BY <1>1, OneMessage, Zenon DEF StartAnswered
  <2>2. CASE Head(response).ok
    <3>1. wpc = "recv"
      BY <2>1, <2>2
    <3> QED BY <1>1, <2>1, <2>2, <3>1, <1>b, Zenon DEF StartAnswered
  <2>3. CASE ~Head(response).ok
    BY <1>1, <2>1, <2>3, <1>b, Zenon DEF StartAnswered, Abandon
  <2> QED BY <2>2, <2>3, Zenon
<1>2. CASE StartFails
  BY <1>2, <1>b, Zenon DEF StartFails, Abandon
<1>3. CASE NextFrame
  <2>1. CanSend
    BY <1>3, Zenon DEF NextFrame, CanSend
  <2>2. /\ command' = <<[kind |-> "NextFrame", call |-> calls + 1]>> /\ cpc' = "awaitFrame"
        /\ calls' = calls + 1 /\ calls + 1 \in 0..MaxCalls
        /\ UNCHANGED <<state, commandTx, responseRx, response, wpc, serving, spc, panicked>>
        /\ answer' = Nothing
    BY <1>3, <2>1 DEF NextFrame
  <2>3. AtMostOne(command', Commands)
    BY <2>2, ChannelSent DEF Commands
  <2>4. Head(command') = [kind |-> "NextFrame", call |-> calls + 1] /\ command' # <<>>
    BY <2>2, OneMessage, Zenon
  <2> QED BY <1>3, <2>2, <2>3, <2>4 DEF NextFrame
<1>4. CASE FrameAnswered
  <2>1. Head(response).kind = "Frame" /\ Head(response).call = calls
    BY <1>4, Zenon DEF FrameAnswered
  <2>2. answer' = [kind |-> "Frame", call |-> calls]
    BY <1>4, <2>1, Zenon DEF FrameAnswered, Answered
  <2>3. state' \in {"Running", "RecoverableLoss"} /\ commandTx' = commandTx
    BY <1>4, <2>1, Zenon DEF FrameAnswered
  <2>4. command = <<>> /\ wpc = "recv"
    BY <1>4, <2>1, Zenon DEF FrameAnswered
  <2> QED BY <1>4, <2>1, <2>2, <2>3, <2>4, <1>b DEF FrameAnswered
<1>5. CASE FrameTimesOut
  BY <1>5, Zenon DEF FrameTimesOut, TransitionToStopped
<1>6. CASE Stop
  <2>1. CanSend
    BY <1>6, Zenon DEF Stop, CanSend
  <2>2. /\ command' = <<[kind |-> "Stop"]>> /\ cpc' = "awaitStop" /\ commandTx' = FALSE
        /\ UNCHANGED <<state, calls, answer, responseRx, response, wpc, serving, spc, panicked>>
    BY <1>6, <2>1, Zenon DEF Stop
  <2>3. AtMostOne(command', Commands)
    BY <2>2, ChannelSent, Zenon DEF Commands
  <2>4. Head(command').kind = "Stop" /\ command' # <<>>
    BY <2>2, OneMessage
  <2> QED BY <1>6, <2>2, <2>3, <2>4, Zenon DEF Stop
<1>7. CASE StopEnds
  BY <1>7, <1>b, Zenon DEF StopEnds, TakeHandle
<1>8. CASE JoinSucceeds \/ JoinTimesOut
  <2>1. /\ cpc = "joining" /\ cpc' = "idle"
        /\ UNCHANGED <<state, calls, answer, commandTx, command, responseRx, response, wpc, serving, spc, panicked>>
    BY <1>8, Zenon DEF JoinSucceeds, JoinTimesOut, channelVars
  <2> QED BY <2>1
<1>9. CASE DropSource
  <2>1. AtMostOne(<<[kind |-> "Stop"]>>, Commands)
    BY ChannelSent, Zenon DEF Commands
  <2>2. Head(<<[kind |-> "Stop"]>>).kind = "Stop" /\ <<[kind |-> "Stop"]>> # <<>>
    BY OneMessage
  <2>3. state # "Stopped" => wpc = "recv" /\ response = <<>>
    BY <1>9, Zenon DEF DropSource
  <2>4. \/ command' = command
        \/ command' = <<[kind |-> "Stop"]>> /\ wpc = "recv"
    BY <1>9, <2>3, Zenon DEF DropSource
  <2>5. /\ cpc' = "gone" /\ state' = "Stopped" /\ commandTx' = FALSE /\ responseRx' = FALSE /\ response' = <<>>
        /\ UNCHANGED <<wpc, serving, spc, panicked, calls, answer>>
    BY <1>9, Zenon DEF DropSource
  <2>6. AtMostOne(command', Commands)
    BY <2>1, <2>4, Zenon
  <2>7. command' # <<>> => wpc = "recv" /\ (Head(command').kind = "NextFrame" => command' = command)
    BY <2>2, <2>4, Zenon
  <2>8. CallTypes' /\ AnswersItsCall'
    BY <2>5, <2>6, <1>b, Zenon
  <2>9. ChannelsInv' /\ ServingInv'
    <3>1. cpc = "idle"
      BY <1>9, Zenon DEF DropSource
    <3> QED BY <2>5, <2>7, <3>1, Zenon
  <2>10. CallerInv'
    BY <2>5, Zenon
  <2> QED BY <2>8, <2>9, <2>10, Zenon
<1> QED BY <1>1, <1>2, <1>3, <1>4, <1>5, <1>6, <1>7, <1>8, <1>9, Zenon DEF Caller

\* acquire_frame ends in next_frame's answer, never anywhere else.
LEMMA AcquiringStays ==
  Acquiring => /\ spc # "ready" /\ spc' \in {"wait", "drain", "inspect", "done"}
               /\ UNCHANGED <<api, stopped>>
<1> USE DEF Return, Continue
<1>1. TokenTaken \/ TokenTimeout \/ DrainEnds => spc # "ready" /\ spc' \in {"wait", "drain", "inspect", "done"}
  BY Zenon DEF TokenTaken, TokenTimeout, DrainEnds
<1>2. DrainTakes => spc # "ready" /\ spc' \in {"wait", "drain", "inspect", "done"}
  BY Zenon DEF DrainTakes
<1>3. DrainFails => spc # "ready" /\ spc' \in {"wait", "drain", "inspect", "done"}
  BY Zenon DEF DrainFails
<1>4. SizeInvalid \/ FrameCopied => spc # "ready" /\ spc' \in {"wait", "drain", "inspect", "done"}
  BY Zenon DEF SizeInvalid, FrameCopied, CloseFrame
<1>5. SizeChanged \/ FrameUnreadable \/ Duplicated => spc # "ready" /\ spc' \in {"wait", "drain", "inspect", "done"}
  BY Zenon DEF SizeChanged, FrameUnreadable, Duplicated
<1>6. Acquiring => UNCHANGED <<api, stopped>>
  BY Zenon
     DEF Acquiring, TokenTaken, TokenTimeout, DrainTakes, DrainFails, DrainEnds, SizeInvalid,
         SizeChanged, FrameCopied, FrameUnreadable, Duplicated
<1> QED BY <1>1, <1>2, <1>3, <1>4, <1>5, <1>6, Zenon DEF Acquiring

\* Each of the worker's steps keeps calls and answers paired: it answers what it took, once.
LEMMA WorkerKeepsPairs == PairInv /\ PlaceTypes /\ Worker => PairInv'
<1> SUFFICES ASSUME PairInv, PlaceTypes, Worker PROVE PairInv'
    BY Zenon
<1> USE DEF PairInv, CallTypes, ChannelsInv, CallerInv, ServingInv, AnswersItsCall,
        UnchangedCaller, callerVars, Exit
<1>a. /\ command # <<>> => Head(command) \in Commands
      /\ response # <<>> => Head(response) \in Messages
  BY ChannelTaken, Zenon
<1>b. AtMostOne(<<>>, Commands) /\ AtMostOne(<<>>, Messages)
  BY Zenon DEF AtMostOne
<1>1. CASE WorkerInitFails
  <2>1. AtMostOne(<<[kind |-> "Started", ok |-> FALSE]>>, Messages)
    BY ChannelSent, Zenon DEF Messages
  <2> QED BY <1>1, <2>1, <1>b, Zenon DEF WorkerInitFails, Respond
<1>2. CASE WorkerSelects
  BY <1>2, Zenon DEF WorkerSelects
<1>3. CASE WorkerAnnounces
  <2>1. AtMostOne(<<[kind |-> "Started", ok |-> TRUE]>>, Messages)
    BY ChannelSent, Zenon DEF Messages
  <2> QED BY <1>3, <2>1, <1>b, Zenon DEF WorkerAnnounces, Respond
<1>4. CASE WorkerTakesNextFrame
  BY <1>4, <1>b DEF WorkerTakesNextFrame
<1>5. CASE WorkerAcquires
  BY <1>5, AcquiringStays DEF WorkerAcquires, workerVars
<1>6. CASE WorkerReplies
  <2> DEFINE reply == [kind |-> "Frame", result |-> result, call |-> serving]
  <2>a. serving \in Nat
    <3>1. serving = calls
      BY <1>6, Zenon DEF WorkerReplies
    <3> QED BY <3>1, CallsAssumption
  <2>b. result \in Results
    BY Zenon DEF PlaceTypes
  <2>1. reply \in Messages
    BY <2>a, <2>b, Zenon DEF Messages
  <2>2. AtMostOne(<<reply>>, Messages) /\ Head(<<reply>>) = reply /\ <<reply>> # <<>>
    BY <2>1, ChannelSent, OneMessage, Zenon
  <2>3. reply.kind = "Frame" /\ reply.call = calls
    BY <1>6, Zenon DEF WorkerReplies
  <2>4. /\ response' = IF responseRx THEN <<reply>> ELSE <<>>
        /\ wpc' = IF responseRx THEN "recv" ELSE "exited"
        /\ command' = <<>> /\ spc' = "ready"
        /\ UNCHANGED <<callerVars, commandTx, responseRx, panicked>>
    BY <1>6, Zenon DEF WorkerReplies, Respond
  <2> HIDE DEF reply
  <2>5. wpc = "serving" /\ spc = "done"
    BY <1>6, Zenon DEF WorkerReplies
  <2>6. CallTypes' /\ AnswersItsCall'
    BY <2>2, <2>4, <1>b, Zenon
  <2>7. ChannelsInv' /\ ServingInv'
    BY <2>4, Zenon
  <2>8. CallerInv'
    BY <2>2, <2>3, <2>4, <2>5
  <2> QED BY <2>6, <2>7, <2>8, Zenon
<1>7. CASE WorkerTakesStop
  BY <1>7, <1>b DEF WorkerTakesStop
<1>8. CASE WorkerSendsStopped
  <2>1. AtMostOne(<<[kind |-> "Stopped"]>>, Messages)
    BY ChannelSent, Zenon DEF Messages
  <2> QED BY <1>8, <2>1, <1>b DEF WorkerSendsStopped, Respond
<1>9. CASE WorkerDisconnected
  BY <1>9, <1>b DEF WorkerDisconnected
<1>10. CASE WorkerPanics
  BY <1>10, <1>b DEF WorkerPanics
<1> QED BY <1>1, <1>2, <1>3, <1>4, <1>5, <1>6, <1>7, <1>8, <1>9, <1>10, Zenon DEF Worker

\* The reaper, the display and the event handlers have no part in calls and answers.
LEMMA OthersKeepPairs == PairInv /\ (Reaper \/ Session \/ UNCHANGED vars) => PairInv'
<1> SUFFICES ASSUME PairInv, Reaper \/ Session \/ UNCHANGED vars PROVE PairInv'
    BY Zenon
<1>1. UNCHANGED <<callerVars, channelVars, wpc, serving, panicked, spc>>
  <2>1. CASE Reaper
    BY <2>1, Zenon DEF Reaper, ReaperTakes, ReaperJoins, UnchangedWorker, workerVars
  <2>2. CASE Session
    BY <2>2, Zenon
       DEF Session, workerVars, Native, Handlers, DisplayComposes, DisplayResizes,
           DisplayCloses, HandlerCounts, HandlerSignals, ClosedFlags, ClosedSignals, UnchangedWork
  <2>3. CASE UNCHANGED vars
    BY <2>3, Zenon DEF vars, sessionVars, workerVars
  <2> QED BY <2>1, <2>2, <2>3, Zenon
<1>2. UNCHANGED <<state, cpc, calls, answer, commandTx, command, responseRx, response, wpc, serving, panicked, spc>>
  BY <1>1, Zenon DEF callerVars, channelVars
<1>3. CallTypes' /\ AnswersItsCall'
  BY <1>2 DEF PairInv, CallTypes, AnswersItsCall
<1>4. ChannelsInv' /\ ServingInv'
  BY <1>2, Zenon DEF PairInv, ChannelsInv, ServingInv
<1>5. CallerInv'
  BY <1>2, Zenon DEF PairInv, CallerInv
<1> QED BY <1>3, <1>4, <1>5, Zenon DEF PairInv
----------------------------------------------------------------------------
(* Where the session is, its flags and its counters *)

\* The bounds are numbers.
LEMMA Bounds == MaxArrivals \in Nat /\ PoolBuffers \in Nat \ {0}
  BY SessionAssumption, Zenon

\* A session that has not been asked for anything.
LEMMA PlaceInit == Init => PlaceTypes /\ FlagTypes /\ CountsInv
<1> SUFFICES ASSUME Init PROVE PlaceTypes /\ FlagTypes /\ CountsInv
    BY Zenon
<1>1. PlaceTypes
  BY Zenon DEF Init, SessionInit, PlaceTypes, Results
<1>2. FlagTypes
  BY Zenon DEF Init, SessionInit, FlagTypes
<1>3. CountsInv
  BY Bounds DEF Init, SessionInit, CountsInv
<1> QED BY <1>1, <1>2, <1>3, Zenon

\* The handlers move an arrival from the pool's event to pending_frames.
LEMMA SessionKeepsPlace ==
  PlaceTypes /\ FlagTypes /\ CountsInv /\ Session => (PlaceTypes /\ FlagTypes /\ CountsInv)'
<1> SUFFICES ASSUME PlaceTypes, FlagTypes, CountsInv, Session PROVE (PlaceTypes /\ FlagTypes /\ CountsInv)'
    BY Zenon
<1> USE DEF Session, Native, Handlers, UnchangedWork, DisplayComposes, DisplayResizes, DisplayCloses,
        HandlerCounts, HandlerSignals, ClosedFlags, ClosedSignals
<1>1. PlaceTypes'
  BY Zenon DEF PlaceTypes
<1>2. FlagTypes'
  BY Zenon DEF FlagTypes
<1>3. CountsInv'
  <2> HIDE DEF Session
  <2>1. CASE DisplayComposes
    <3>1. arrivals < MaxArrivals /\ arrivals' = arrivals + 1 /\ arrived' = arrived + 1 /\ pending' = pending
      BY <2>1, Zenon
    <3> QED BY <3>1, Bounds DEF CountsInv
  <2>2. CASE HandlerCounts
    <3>1. arrived > 0 /\ arrivals' = arrivals /\ arrived' = arrived - 1 /\ pending' = pending + 1
      BY <2>2, Zenon
    <3> QED BY <3>1, Bounds DEF CountsInv
  <2>3. CASE ~DisplayComposes /\ ~HandlerCounts
    <3>1. UNCHANGED <<arrived, arrivals, pending>>
      BY <2>3, Zenon DEF Session
    <3> QED BY <3>1, Zenon DEF CountsInv
  <2> QED BY <2>1, <2>2, <2>3, Zenon
<1> QED BY <1>1, <1>2, <1>3, Zenon

\* acquire_frame returns results of its own, and takes counted arrivals or leaves them.
LEMMA AcquiringKeepsPlace ==
  PlaceTypes /\ FlagTypes /\ CountsInv /\ Acquiring => (PlaceTypes /\ FlagTypes /\ CountsInv)'
<1> SUFFICES ASSUME PlaceTypes, FlagTypes, CountsInv, Acquiring PROVE (PlaceTypes /\ FlagTypes /\ CountsInv)'
    BY Zenon
<1> USE DEF nativeVars
<1>1. PlaceTypes'
  <2>1. UNCHANGED <<api, closing>>
    BY Zenon
       DEF Acquiring, TokenTaken, TokenTimeout, DrainTakes, DrainFails, DrainEnds, SizeInvalid,
           SizeChanged, FrameCopied, FrameUnreadable, Duplicated
  <2>2. result' \in Results
    <3> USE DEF PlaceTypes, Results, Return, Continue, Classified, FinishAcquiredFrame
    <3>1. CASE TokenTaken \/ TokenTimeout \/ DrainEnds
      BY <3>1, Zenon DEF TokenTaken, TokenTimeout, DrainEnds
    <3>2. CASE DrainTakes
      BY <3>2, Zenon DEF DrainTakes
    <3>3. CASE DrainFails
      BY <3>3, Zenon DEF DrainFails
    <3>4. CASE SizeInvalid
      BY <3>4, Zenon DEF SizeInvalid, CloseFrame
    <3>5. CASE SizeChanged
      BY <3>5, Zenon DEF SizeChanged
    <3>6. CASE FrameCopied
      BY <3>6, Zenon DEF FrameCopied, CloseFrame
    <3>7. CASE FrameUnreadable \/ Duplicated
      BY <3>7, Zenon DEF FrameUnreadable, Duplicated
    <3> QED BY <3>1, <3>2, <3>3, <3>4, <3>5, <3>6, <3>7, Zenon DEF Acquiring
  <2> QED BY <2>1, <2>2, AcquiringStays, Zenon DEF PlaceTypes
<1>2. FlagTypes'
  <2>1. UNCHANGED <<stopped, counted>>
    BY Zenon
       DEF Acquiring, TokenTaken, TokenTimeout, DrainTakes, DrainFails, DrainEnds, SizeInvalid,
           SizeChanged, FrameCopied, FrameUnreadable, Duplicated
  <2>2. token' \in BOOLEAN
    BY Zenon
       DEF FlagTypes, Acquiring, TokenTaken, TokenTimeout, DrainTakes, DrainFails, DrainEnds,
           SizeInvalid, SizeChanged, FrameCopied, FrameUnreadable, Duplicated
  <2>3. drainFailed' \in BOOLEAN
    BY Zenon
       DEF FlagTypes, Acquiring, TokenTaken, TokenTimeout, DrainTakes, DrainFails, DrainEnds,
           SizeInvalid, SizeChanged, FrameCopied, FrameUnreadable, Duplicated
  <2> QED BY <2>1, <2>2, <2>3, Zenon DEF FlagTypes
<1>3. CountsInv'
  <2>1. UNCHANGED <<arrived, arrivals>> /\ (pending' = 0 \/ pending' = pending)
    BY Zenon
       DEF Acquiring, TokenTaken, TokenTimeout, DrainTakes, DrainFails, DrainEnds, SizeInvalid,
           SizeChanged, FrameCopied, FrameUnreadable, Duplicated
  <2> QED BY <2>1, Bounds DEF CountsInv
<1> QED BY <1>1, <1>2, <1>3

\* The worker selects DXGI only when the configuration allows it.
LEMMA WorkerKeepsPlace ==
  PlaceTypes /\ FlagTypes /\ CountsInv /\ Worker => (PlaceTypes /\ FlagTypes /\ CountsInv)'
<1> SUFFICES ASSUME PlaceTypes, FlagTypes, CountsInv, Worker PROVE (PlaceTypes /\ FlagTypes /\ CountsInv)'
    BY Zenon
<1>1. CASE WorkerAcquires
  BY <1>1, AcquiringKeepsPlace, Zenon DEF WorkerAcquires
<1>2. CASE WorkerPanics
  BY <1>2 DEF WorkerPanics, PlaceTypes, FlagTypes, CountsInv
<1>3. CASE WorkerSelects
  <2>1. api' \in {"Wgc", "Dxgi"} /\ (api' = "Dxgi" => AllowFallback)
    BY <1>3, Zenon DEF WorkerSelects, SelectSession, FallsBack, WgcStartErrors, DxgiStartErrors
  <2>2. UNCHANGED <<spc, closing, result, stopped, token, counted, drainFailed, pending, arrived, arrivals>>
    BY <1>3, Zenon DEF WorkerSelects, UnchangedFrames, UnchangedPool
  <2> QED BY <2>1, <2>2 DEF PlaceTypes, FlagTypes, CountsInv
<1>4. CASE ~WorkerAcquires /\ ~WorkerPanics /\ ~WorkerSelects
  <2>1. /\ UNCHANGED <<api, token, counted, drainFailed, pending, arrivals>>
        /\ spc' \in {spc, "ready", "wait", "duplicate"}
        /\ result' \in {result, "none"}
        /\ stopped' \in {stopped, TRUE}
        /\ arrived' = arrived \/ arrived' = 0
        /\ closing' \in {closing, "no"}
    BY <1>4, Zenon
       DEF Worker, WorkerInitFails, WorkerAnnounces, WorkerTakesNextFrame, WorkerReplies,
           WorkerTakesStop, WorkerSendsStopped, WorkerDisconnected, UnchangedFrames, UnchangedPool,
           SessionStop
  <2>2. PlaceTypes'
    BY <2>1 DEF PlaceTypes, Results
  <2>3. FlagTypes'
    BY <2>1, Zenon DEF FlagTypes
  <2>4. CountsInv'
    BY <2>1, Bounds DEF CountsInv
  <2> QED BY <2>2, <2>3, <2>4, Zenon
<1> QED BY <1>1, <1>2, <1>3, <1>4, Zenon
----------------------------------------------------------------------------
(* The frames *)

\* Taking the oldest frame of a pool, as TryGetNextFrame does.
LEMMA PoolTaken ==
  ASSUME NEW S, NEW s \in Seq(S), s # <<>>
  PROVE  /\ Head(s) \in S /\ Head(s) = s[1] /\ Len(s) \in Nat \ {0}
         /\ Tail(s) \in Seq(S) /\ Len(Tail(s)) = Len(s) - 1
         /\ \A i \in 1..Len(Tail(s)) : Tail(s)[i] = s[i + 1]
  BY HeadTailProperties, LenProperties

\* A frame has a buffer, and the absent frame has none.
LEMMA FrameIsNotNone == \A f \in Frames : f # None
  BY DEF Frames, None

\* The pool starts empty, its buffers as large as the display.
LEMMA FramesInit == Init => FramesInv
<1> SUFFICES ASSUME Init PROVE FramesInv
    BY Zenon
<1>1. /\ display \in Nat \ {0} /\ pool = <<>> /\ allocated = display /\ poolSize = display
      /\ newest = None /\ open = {} /\ spc = "ready"
  BY SessionAssumption, Zenon DEF Init, SessionInit
<1>2. pool \in Seq(Frames) /\ Len(pool) = 0
  BY <1>1
<1> QED BY <1>1, <1>2, Bounds DEF FramesInv

\* A frame the display composes has a buffer of the pool; the handlers touch no frame.
LEMMA SessionKeepsFrames == FramesInv /\ Session => FramesInv'
<1> SUFFICES ASSUME FramesInv, Session PROVE FramesInv'
    BY Zenon
<1>1. CASE DisplayComposes
  <2> DEFINE frame == [content |-> display, alloc |-> allocated]
  <2>0. /\ pool \in Seq(Frames) /\ Len(pool) <= PoolBuffers /\ display \in Nat /\ poolSize \in Nat \ {0}
        /\ \A i \in 1..Len(pool) : pool[i].alloc = poolSize
        /\ allocated = poolSize
    BY Zenon DEF FramesInv
  <2>1. frame \in Frames /\ frame.alloc = poolSize
    BY <2>0, Zenon DEF Frames
  <2>a. /\ pool' = Append(pool, frame) /\ Len(pool) + (IF open = {} THEN 0 ELSE 1) < PoolBuffers
        /\ UNCHANGED <<display, poolSize, allocated, newest, open, spc>>
    BY <1>1, Zenon DEF DisplayComposes, UnchangedWork
  <2> HIDE DEF frame
  <2>2. Len(pool) < PoolBuffers /\ Len(pool) \in Nat
    BY <2>0, <2>a, Bounds, LenProperties
  <2>3. /\ pool' \in Seq(Frames) /\ Len(pool') = Len(pool) + 1
        /\ \A i \in 1..Len(pool) : pool'[i] = pool[i]
        /\ pool'[Len(pool) + 1] = frame
    BY <2>0, <2>1, <2>a, AppendProperties
  <2>4. \A i \in 1..Len(pool') : pool'[i].alloc = poolSize
    <3> SUFFICES ASSUME NEW i \in 1..Len(pool') PROVE pool'[i].alloc = poolSize
        BY Zenon
    <3>1. CASE i = Len(pool) + 1
      BY <2>1, <2>3, <3>1, Zenon
    <3>2. CASE i # Len(pool) + 1
      <4>1. i \in 1..Len(pool)
        BY <2>2, <2>3, <3>2
      <4> QED BY <2>0, <2>3, <4>1, Zenon
    <3> QED BY <3>1, <3>2, Zenon
  <2>5. Len(pool') <= PoolBuffers
    BY <2>2, <2>3, Bounds
  <2> QED BY <2>a, <2>3, <2>4, <2>5, Zenon DEF FramesInv
<1>2. CASE ~DisplayComposes
  <2>1. /\ UNCHANGED <<pool, allocated, poolSize, newest, open, spc>>
        /\ display' = display \/ display' \in Sizes \union {0}
    BY <1>2, Zenon
    DEF Session, Native, Handlers, UnchangedWork, DisplayResizes, DisplayCloses,
        HandlerCounts, HandlerSignals, ClosedFlags, ClosedSignals
  <2>2. display' \in Nat
    <3>1. display \in Nat
      BY Zenon DEF FramesInv
    <3>2. Sizes \union {0} \subseteq Nat
      BY SessionAssumption
    <3> QED BY <2>1, <3>1, <3>2, Zenon
  <2> QED BY <2>1, <2>2, Zenon DEF FramesInv
<1> QED BY <1>1, <1>2, Zenon

\* A pool that is emptied, or left alone, holds frames of its size.
LEMMA EmptiedPool ==
  ASSUME FramesInv, UNCHANGED poolSize, pool' = pool \/ pool' = <<>>
  PROVE  /\ pool' \in Seq(Frames) /\ Len(pool') <= PoolBuffers
         /\ \A i \in 1..Len(pool') : pool'[i].alloc = poolSize'
<1>1. CASE pool' = pool
  BY <1>1, Zenon DEF FramesInv
<1>2. CASE pool' = <<>>
  <2>1. pool' \in Seq(Frames) /\ Len(pool') = 0
    BY <1>2
  <2> QED BY <2>1, Bounds
<1> QED BY <1>1, <1>2, Zenon

\* What acquire_frame takes it closes before it answers or waits, and a pool it recreates is
\* empty.
LEMMA AcquiringKeepsFrames == FramesInv /\ Acquiring => FramesInv'
<1> SUFFICES ASSUME FramesInv, Acquiring PROVE FramesInv'
    BY Zenon
<1> USE DEF Return, Continue, nativeVars, CloseFrame
<1>a. CASE UNCHANGED <<display, pool, allocated, poolSize>> /\ newest' = None /\ open' = {} /\ spc' \in {"wait", "done"}
  BY <1>a, Zenon DEF FramesInv
<1>1. CASE TokenTaken \/ TokenTimeout
  <2>1. /\ UNCHANGED <<display, pool, allocated, poolSize, newest, open>> /\ spc = "wait"
        /\ spc' # "inspect"
    BY <1>1, Zenon DEF TokenTaken, TokenTimeout
  <2> QED BY <2>1, Zenon DEF FramesInv
<1>2. CASE DrainTakes
  <2>0. pool # <<>> /\ pool' = Tail(pool)
    BY <1>2, Zenon DEF DrainTakes
  <2>1. /\ pool \in Seq(Frames) /\ Len(pool) <= PoolBuffers
        /\ \A i \in 1..Len(pool) : pool[i].alloc = poolSize
    BY Zenon DEF FramesInv
  <2>2. /\ Head(pool) \in Frames /\ Head(pool) = pool[1] /\ Len(pool) \in Nat \ {0}
        /\ pool' \in Seq(Frames) /\ Len(pool') = Len(pool) - 1
        /\ \A i \in 1..Len(pool') : pool'[i] = pool[i + 1]
    BY <2>0, <2>1, PoolTaken, Zenon
  <2>3. Head(pool).alloc = poolSize /\ Head(pool) # None
    <3>1. 1 \in 1..Len(pool)
      BY <2>2
    <3> QED BY <2>1, <2>2, <3>1, FrameIsNotNone, Zenon
  <2>4. Len(pool') <= PoolBuffers
    BY <2>1, <2>2, Bounds
  <2>5. \A i \in 1..Len(pool') : pool'[i].alloc = poolSize
    <3> SUFFICES ASSUME NEW i \in 1..Len(pool') PROVE pool'[i].alloc = poolSize
        BY Zenon
    <3>1. i + 1 \in 1..Len(pool) /\ pool'[i] = pool[i + 1]
      BY <2>2
    <3> QED BY <2>1, <3>1, Zenon
  <2>6. /\ UNCHANGED <<display, allocated, poolSize>> /\ spc = "drain"
        /\ \/ newest' = Head(pool) /\ spc' = spc
           \/ newest' = None /\ open' = {} /\ spc' \in {"wait", "done"}
    BY <1>2, Zenon DEF DrainTakes
  <2> QED BY <2>2, <2>3, <2>4, <2>5, <2>6, Zenon DEF FramesInv
<1>3. CASE DrainFails
  BY <1>3, <1>a, Zenon DEF DrainFails
<1>4. CASE DrainEnds
  <2>1. /\ UNCHANGED <<display, pool, allocated, poolSize, newest, open>>
        /\ spc' = IF newest = None THEN "wait" ELSE "inspect"
    BY <1>4, Zenon DEF DrainEnds
  <2> QED BY <2>1, Zenon DEF FramesInv
<1>5. CASE SizeInvalid
  BY <1>5, <1>a, Zenon DEF SizeInvalid
<1>6. CASE SizeChanged
  <2>1. CASE UNCHANGED poolSize
    <3>1. UNCHANGED <<pool, allocated>> \/ (pool' = <<>> /\ UNCHANGED allocated)
      BY <1>6, <2>1, Zenon DEF SizeChanged, FramesInv
    <3>3. newest' = None /\ open' = {} /\ spc' \in {"wait", "done"} /\ UNCHANGED display
      BY <1>6, Zenon DEF SizeChanged
    <3> QED BY <2>1, <3>1, <3>3, EmptiedPool, Zenon DEF FramesInv
  <2>2. CASE ~UNCHANGED poolSize
    <3>1. /\ poolSize' = newest.content /\ allocated' = newest.content /\ pool' = <<>>
          /\ newest' = None /\ open' = {} /\ spc' = "wait" /\ UNCHANGED display
      BY <1>6, <2>2, Zenon DEF SizeChanged
    <3>2. newest \in Frames /\ newest.content > 0
      BY <1>6, Zenon DEF SizeChanged, FramesInv, ValidSize
    <3>3. newest.content \in Nat \ {0}
      BY <3>2 DEF Frames
    <3>4. <<>> \in Seq(Frames) /\ Len(<<>>) = 0
      OBVIOUS
    <3> QED BY <3>1, <3>3, <3>4, Bounds DEF FramesInv
  <2> QED BY <2>1, <2>2, Zenon
<1>7. CASE FrameCopied
  BY <1>7, <1>a, Zenon DEF FrameCopied
<1>8. CASE FrameUnreadable
  BY <1>8, <1>a, Zenon DEF FrameUnreadable
<1>9. CASE Duplicated
  <2>1. UNCHANGED <<display, pool, allocated, poolSize, newest, open>> /\ spc = "duplicate" /\ spc' = "done"
    BY <1>9, Zenon DEF Duplicated
  <2> QED BY <2>1, Zenon DEF FramesInv
<1> QED BY <1>1, <1>2, <1>3, <1>4, <1>5, <1>6, <1>7, <1>8, <1>9 DEF Acquiring

\* A session that is stopped or dropped has no frames left.
LEMMA WorkerKeepsFrames == ServingInv /\ FramesInv /\ Worker => FramesInv'
<1> SUFFICES ASSUME ServingInv, FramesInv, Worker PROVE FramesInv'
    BY Zenon
<1>1. CASE WorkerAcquires
  BY <1>1, AcquiringKeepsFrames, Zenon DEF WorkerAcquires
<1>2. CASE WorkerPanics
  <2>1. /\ UNCHANGED <<display, allocated, poolSize>> /\ pool' = <<>>
        /\ newest' = None /\ open' = {} /\ spc' = "ready"
    BY <1>2, Zenon DEF WorkerPanics
  <2>2. <<>> \in Seq(Frames) /\ Len(<<>>) = 0
    OBVIOUS
  <2> QED BY <2>1, <2>2, Bounds DEF FramesInv
<1>3. CASE ~WorkerAcquires /\ ~WorkerPanics
  <2>1. /\ UNCHANGED <<display, allocated, poolSize, newest, open>>
        /\ pool' = pool \/ pool' = <<>>
        /\ \/ spc' = spc
           \/ spc \in {"ready", "done"} /\ spc' \in {"ready", "wait", "duplicate"}
    BY <1>3, Zenon
       DEF Worker, WorkerInitFails, WorkerSelects, WorkerAnnounces, WorkerTakesNextFrame,
           WorkerReplies, WorkerTakesStop, WorkerSendsStopped, WorkerDisconnected, UnchangedFrames,
           UnchangedPool, SessionStop, ServingInv
  <2> QED BY <2>1, EmptiedPool, Zenon DEF FramesInv
<1> QED BY <1>1, <1>2, <1>3, Zenon
----------------------------------------------------------------------------
(* Frame ids, and wakeups *)

\* Every call is given one id at most: copy_texture's frame_id never outgrows the calls.
LEMMA IdsStep == PairInv /\ IdsInv /\ [Next]_vars => IdsInv'
<1> SUFFICES ASSUME PairInv, IdsInv, [Next]_vars PROVE IdsInv'
    BY Zenon
<1>a. calls \in Nat
  BY CallsAssumption DEF PairInv, CallTypes
<1>b. CASE UNCHANGED <<frameId, calls, command, wpc, spc>>
  BY <1>b, Zenon DEF IdsInv
<1>1. CASE Caller
  <2>1. CASE NextFrame
    <3>1. frameId' = frameId /\ calls' = calls + 1
      BY <2>1, Zenon DEF NextFrame, UnchangedWorker
    <3> QED BY <3>1, <1>a DEF IdsInv
  <2>2. CASE ~NextFrame
    <3>1. /\ UNCHANGED <<frameId, calls, wpc, spc>>
          /\ \/ UNCHANGED command
             \/ command' = <<[kind |-> "Stop"]>>
      BY <1>1, <2>2, Zenon
         DEF Caller, StartAnswered, StartFails, FrameAnswered, FrameTimesOut, Stop, StopEnds,
             JoinSucceeds, JoinTimesOut, DropSource, Abandon, channelVars, UnchangedWorker,
             workerVars
    <3>2. command' = <<[kind |-> "Stop"]>> => Head(command').kind = "Stop"
      BY OneMessage
    <3> QED BY <3>1, <3>2, Zenon DEF IdsInv
  <2> QED BY <2>1, <2>2, Zenon
<1>2. CASE Worker
  <2>1. CASE WorkerAcquires
    <3>a. spc # "done"
      BY <2>1, Zenon
         DEF WorkerAcquires, Acquiring, TokenTaken, TokenTimeout, DrainTakes, DrainFails,
             DrainEnds, SizeInvalid, SizeChanged, FrameCopied, FrameUnreadable, Duplicated
    <3>b. wpc = "serving" /\ UNCHANGED <<calls, command, wpc>> /\ command = <<>>
      BY <2>1, Zenon
         DEF WorkerAcquires, UnchangedCaller, callerVars, workerVars, PairInv, ChannelsInv
    <3>1. frameId \in Nat /\ frameId < calls
      BY <3>a, <3>b, <1>a DEF IdsInv
    <3>2. frameId' = frameId \/ (frameId' = frameId + 1 /\ spc' = "done")
      <4> USE DEF Return, Continue, CloseFrame
      <4>1. CASE TokenTaken \/ TokenTimeout \/ DrainTakes \/ DrainFails \/ DrainEnds \/ SizeInvalid \/ SizeChanged
        BY <4>1, Zenon
           DEF TokenTaken, TokenTimeout, DrainTakes, DrainFails, DrainEnds, SizeInvalid,
               SizeChanged
      <4>2. CASE FrameCopied \/ FrameUnreadable \/ Duplicated
        BY <4>2, Zenon DEF FrameCopied, FrameUnreadable, Duplicated
      <4> QED BY <2>1, <4>1, <4>2, Zenon DEF WorkerAcquires, Acquiring
    <3> QED BY <3>a, <3>b, <3>1, <3>2, <1>a DEF IdsInv
  <2>2. CASE WorkerTakesNextFrame
    BY <2>2, Zenon DEF WorkerTakesNextFrame, UnchangedCaller, callerVars, UnchangedFrames, IdsInv
  <2>3. CASE ~WorkerAcquires /\ ~WorkerTakesNextFrame
    <3>1. UNCHANGED <<frameId, calls>> /\ (command' = command \/ command' = <<>>) /\ wpc' # "serving"
      BY <1>2, <2>3, Zenon
         DEF Worker, WorkerInitFails, WorkerSelects, WorkerAnnounces, WorkerReplies,
             WorkerTakesStop, WorkerSendsStopped, WorkerDisconnected, WorkerPanics, UnchangedCaller,
             callerVars, UnchangedFrames, Exit
    <3> QED BY <3>1, Zenon DEF IdsInv
  <2> QED BY <2>1, <2>2, <2>3, Zenon
<1>3. CASE Reaper
  BY <1>3, <1>b, Zenon
     DEF Reaper, ReaperTakes, ReaperJoins, UnchangedWorker, workerVars, callerVars, channelVars
<1>4. CASE Session
  <2>1. UNCHANGED <<frameId, calls, command, wpc, spc>>
    BY <1>4, Zenon
       DEF Session, callerVars, channelVars, workerVars, Native, Handlers, DisplayComposes,
           DisplayResizes, DisplayCloses, HandlerCounts, HandlerSignals, ClosedFlags, ClosedSignals,
           UnchangedWork
  <2> QED BY <2>1, <1>b, Zenon
<1>5. CASE UNCHANGED vars
  BY <1>5, <1>b, Zenon DEF vars, sessionVars, callerVars, channelVars, workerVars
<1> QED BY <1>1, <1>2, <1>3, <1>4, <1>5, Zenon DEF Next

\* A call that found the item closed is the last: the caller turns to RecoverableLoss, or has
\* stopped already, and sends no NextFrame again.
LEMMA LossStaysKnown ==
  PairInv /\ PairInv' /\ LossKnown /\ [Next]_vars => LossKnown'
<1> SUFFICES ASSUME PairInv, PairInv', LossKnown, [Next]_vars PROVE LossKnown'
    BY Zenon
<1>a. CASE UNCHANGED <<spc, result, wpc, command, response, state>>
  BY <1>a, Zenon DEF LossKnown
<1>1. CASE Caller
  <2>1. UNCHANGED <<spc, result, wpc>>
    BY <1>1, Zenon
       DEF Caller, StartAnswered, StartFails, NextFrame, FrameAnswered, FrameTimesOut, Stop,
           StopEnds, JoinSucceeds, JoinTimesOut, DropSource, UnchangedWorker, workerVars
  <2>2. CASE spc = "done" \/ wpc = "exited"
    BY <2>1, <2>2, Zenon DEF LossKnown
  <2>3. CASE spc = "ready" /\ wpc # "exited"
    <3>1. /\ command # <<>> => Head(command).kind = "Stop"
          /\ \/ state \in {"RecoverableLoss", "Stopped"}
             \/ response # <<>> /\ Head(response).kind = "Frame" /\ Head(response).result = "DeviceLost"
      BY <2>3, Zenon DEF LossKnown
    <3>2. command' # <<>> => Head(command').kind = "Stop"
      <4>1. CASE NextFrame
        BY <3>1, <4>1, Zenon DEF NextFrame, PairInv, CallerInv
      <4>2. CASE ~NextFrame
        <5>1. \/ UNCHANGED command
              \/ command' = <<[kind |-> "Stop"]>>
          BY <1>1, <4>2, Zenon
             DEF Caller, StartAnswered, StartFails, FrameAnswered, FrameTimesOut, Stop,
                 StopEnds, JoinSucceeds, JoinTimesOut, DropSource, Abandon, channelVars
        <5> QED BY <5>1, <3>1, OneMessage
      <4> QED BY <4>1, <4>2, Zenon
    <3>3. \/ state' \in {"RecoverableLoss", "Stopped"}
          \/ response' # <<>> /\ Head(response').kind = "Frame" /\ Head(response').result = "DeviceLost"
      <4>1. CASE StartAnswered
        <5>1. cpc = "starting" /\ response # <<>>
          BY <4>1, Zenon DEF StartAnswered
        <5>2. /\ state = "none" /\ (wpc = "recv" \/ wpc = "exited")
              /\ \E ok \in BOOLEAN : response = <<[kind |-> "Started", ok |-> ok]>>
          BY <5>1, Zenon DEF ChannelsInv, PairInv, CallerInv
        <5>3. PICK ok \in BOOLEAN : response = <<[kind |-> "Started", ok |-> ok]>>
          BY <5>2, Zenon
        <5>4. Head(response) = [kind |-> "Started", ok |-> ok]
          BY <5>3, OneMessage, Zenon
        <5>5. Head(response).kind = "Started"
          BY <5>4
        <5> QED BY <5>2, <5>5, <3>1, Zenon
      <4>2. CASE StartFails \/ NextFrame \/ FrameTimesOut \/ Stop
        BY <4>2, <3>1, Zenon
           DEF StartFails, NextFrame, FrameTimesOut, Stop, TransitionToStopped, PairInv,
               CallerInv
      <4>3. CASE FrameAnswered
        BY <4>3, <3>1, Zenon DEF FrameAnswered, TransitionToStopped, PairInv, CallerInv
      <4>4. CASE StopEnds \/ JoinSucceeds \/ JoinTimesOut \/ DropSource
        BY <4>4, <3>1, Zenon
           DEF StopEnds, JoinSucceeds, JoinTimesOut, DropSource, PairInv, CallerInv
      <4> QED BY <1>1, <4>1, <4>2, <4>3, <4>4, Zenon DEF Caller
    <3> QED BY <2>1, <2>3, <3>2, <3>3, Zenon DEF LossKnown
  <2> QED BY <2>2, <2>3, Zenon DEF LossKnown
<1>2. CASE Worker
  <2>1. CASE WorkerReplies
    <3>1. /\ spc' = "ready" /\ command' = <<>> /\ result = "DeviceLost"
          /\ \/ wpc' = "exited"
             \/ response' = <<[kind |-> "Frame", result |-> result, call |-> serving]>>
      BY <2>1, Zenon DEF WorkerReplies, Respond, Exit, LossKnown, PairInv, ChannelsInv
    <3>2. \/ wpc' = "exited"
          \/ response' # <<>> /\ Head(response').kind = "Frame" /\ Head(response').result = "DeviceLost"
      BY <3>1, OneMessage
    <3> QED BY <3>1, <3>2, Zenon DEF LossKnown
  <2>2. CASE WorkerAcquires
    BY <2>2, Zenon
       DEF WorkerAcquires, Acquiring, TokenTaken, TokenTimeout, DrainTakes, DrainFails,
           DrainEnds, SizeInvalid, SizeChanged, FrameCopied, FrameUnreadable, Duplicated, LossKnown,
           PairInv, ServingInv
  <2>3. CASE WorkerTakesNextFrame
    BY <2>3, Zenon DEF WorkerTakesNextFrame, LossKnown, PairInv, ServingInv
  <2>4. CASE WorkerPanics
    BY <2>4, Zenon DEF WorkerPanics, Exit, LossKnown
  <2>5. CASE ~WorkerReplies /\ ~WorkerAcquires /\ ~WorkerTakesNextFrame /\ ~WorkerPanics
    <3>1. /\ UNCHANGED <<spc, result, state>> /\ wpc \in {"init", "announce", "recv", "stopped"}
          /\ UNCHANGED <<command, response>> \/ (command' = <<>> /\ UNCHANGED response) \/ wpc' = "exited"
             \/ wpc = "announce"
      BY <1>2, <2>5, Zenon
         DEF Worker, WorkerInitFails, WorkerSelects, WorkerAnnounces, WorkerTakesStop,
             WorkerSendsStopped, WorkerDisconnected, UnchangedCaller, callerVars, Exit
    <3>2. spc = "ready"
      BY <3>1, Zenon DEF PairInv, ServingInv
    <3>3. CASE wpc = "announce"
      BY <3>1, <3>2, <3>3, Zenon DEF LossKnown, PairInv, ChannelsInv, CallerInv
    <3> QED BY <3>1, <3>2, <3>3, Zenon DEF LossKnown
  <2> QED BY <1>2, <2>1, <2>2, <2>3, <2>4, <2>5, Zenon
<1>3. CASE Reaper
  BY <1>3, <1>a, Zenon
     DEF Reaper, ReaperTakes, ReaperJoins, UnchangedWorker, workerVars, callerVars, channelVars
<1>4. CASE Session
  <2>1. UNCHANGED <<spc, result, wpc, command, response, state>>
    BY <1>4, Zenon
       DEF Session, callerVars, channelVars, workerVars, Native, Handlers, DisplayComposes,
           DisplayResizes, DisplayCloses, HandlerCounts, HandlerSignals, ClosedFlags, ClosedSignals,
           UnchangedWork
  <2> QED BY <2>1, <1>a, Zenon
<1>5. CASE UNCHANGED vars
  BY <1>5, <1>a, Zenon DEF vars, sessionVars, callerVars, channelVars, workerVars
<1> QED BY <1>1, <1>2, <1>3, <1>4, <1>5, Zenon DEF Next
\* A frame handler that has counted still signals; a token is only taken by a call that then
\* looks into the pool, or that ends with the item closed.
LEMMA WakeupStep ==
  PairInv /\ PairInv' /\ PlaceTypes /\ CountsInv /\ CountsInv' /\ WakeupInv /\ [Next]_vars => WakeupInv'
<1> SUFFICES ASSUME PairInv, PairInv', PlaceTypes, CountsInv, CountsInv', WakeupInv, [Next]_vars
             PROVE  WakeupInv'
    BY Zenon
<1>a. LossKnown => LossKnown'
  BY LossStaysKnown, Zenon
<1>b. CASE UNCHANGED <<pool, arrived, pending, spc, drainFailed, counted, token>>
  BY <1>a, <1>b, Zenon DEF WakeupInv
<1>1. CASE Caller
  <2>1. UNCHANGED <<pool, arrived, pending, spc, drainFailed, counted, token>>
    BY <1>1, Zenon
       DEF Caller, StartAnswered, StartFails, NextFrame, FrameAnswered, FrameTimesOut, Stop,
           StopEnds, JoinSucceeds, JoinTimesOut, DropSource, UnchangedWorker, nativeVars
  <2> QED BY <2>1, <1>b, Zenon
<1>2. CASE Reaper
  BY <1>2, <1>b, Zenon DEF Reaper, ReaperTakes, ReaperJoins, UnchangedWorker, nativeVars
<1>3. CASE Session
  <2>1. spc' = spc /\ drainFailed' = drainFailed
    BY <1>3, Zenon
       DEF Session, Native, Handlers, DisplayComposes, DisplayResizes, DisplayCloses,
           HandlerCounts, HandlerSignals, ClosedFlags, ClosedSignals, UnchangedWork
  <2>2. CASE DisplayComposes
    <3>1. arrived' = arrived + 1 /\ UNCHANGED <<pending, counted, token>>
      BY <2>2, Zenon DEF DisplayComposes
    <3>2. arrived' > 0
      BY <3>1 DEF CountsInv
    <3> QED BY <3>1, <3>2, <1>a, Zenon DEF WakeupInv
  <2>3. CASE HandlerCounts
    <3>1. pending' > 0 /\ counted'
      BY <2>3 DEF HandlerCounts, CountsInv
    <3> QED BY <3>1, Zenon DEF WakeupInv
  <2>4. CASE HandlerSignals
    <3>1. token' /\ UNCHANGED <<pool, arrived, pending>>
      BY <2>4, Zenon DEF HandlerSignals
    <3> QED BY <2>1, <3>1, Zenon DEF WakeupInv
  <2>5. CASE ClosedSignals
    <3>1. token' /\ UNCHANGED <<pool, arrived, pending>>
      BY <2>5, Zenon DEF ClosedSignals
    <3> QED BY <2>1, <3>1, Zenon DEF WakeupInv
  <2>6. CASE DisplayResizes \/ DisplayCloses \/ ClosedFlags
    BY <2>1, <2>6, <1>b, Zenon DEF DisplayResizes, DisplayCloses, ClosedFlags
  <2> QED BY <1>3, <2>2, <2>3, <2>4, <2>5, <2>6, Zenon DEF Session, Native, Handlers
<1>4. CASE Worker
  <2>1. CASE TokenTaken /\ WorkerAcquires
    <3>1. CASE closed
      <4>1. spc' = "done" /\ result' = "DeviceLost" /\ UNCHANGED <<pool, arrived, pending, drainFailed>> /\ spc = "wait"
        BY <2>1, <3>1, Zenon DEF TokenTaken, Return
      <4> QED BY <4>1, Zenon DEF WakeupInv, LossKnown
    <3>2. CASE ~closed
      <4>1. /\ pending' = 0 /\ spc' = IF pending = 0 THEN "wait" ELSE "drain"
            /\ UNCHANGED <<pool, arrived, drainFailed>> /\ spc = "wait"
        BY <2>1, <3>2, Zenon DEF TokenTaken
      <4> QED BY <4>1 DEF WakeupInv, CountsInv
    <3> QED BY <3>1, <3>2, Zenon
  <2>2. CASE WorkerAcquires /\ ~TokenTaken
    <3>1. UNCHANGED <<arrived, pending, counted, token>>
      BY <2>2, Zenon DEF WorkerAcquires, Acquiring, TokenTimeout, DrainTakes, DrainFails, DrainEnds,
        SizeInvalid, SizeChanged, FrameCopied, FrameUnreadable, Duplicated, nativeVars
    <3>2. pool' # <<>> => pool # <<>> /\ (drainFailed' \/ spc = "drain" => drainFailed' \/ spc' = "drain")
                                       /\ (drainFailed => drainFailed')
      BY <2>2, Zenon DEF WorkerAcquires, Acquiring, TokenTimeout, DrainTakes, DrainFails, DrainEnds,
        SizeInvalid, SizeChanged, FrameCopied, FrameUnreadable, Duplicated, nativeVars
    <3> QED BY <3>1, <3>2, <1>a, Zenon DEF WakeupInv
  <2>3. CASE ~WorkerAcquires
    <3>1. /\ UNCHANGED <<pending, counted, token, drainFailed>>
          /\ pool' = <<>> \/ (UNCHANGED <<pool, arrived>> /\ spc # "drain")
      BY <1>4, <2>3, Zenon
         DEF Worker, WorkerInitFails, WorkerSelects, WorkerAnnounces, WorkerTakesNextFrame,
             WorkerReplies, WorkerTakesStop, WorkerSendsStopped, WorkerDisconnected, WorkerPanics,
             UnchangedFrames, UnchangedPool, SessionStop, PairInv, ServingInv
    <3> QED BY <3>1, <1>a, Zenon DEF WakeupInv
  <2> QED BY <2>1, <2>2, <2>3, Zenon
<1>5. CASE UNCHANGED vars
  BY <1>5, <1>b, Zenon DEF vars, sessionVars, nativeVars
<1> QED BY <1>1, <1>2, <1>3, <1>4, <1>5 DEF Next

\* closed is never taken back, and a session that has it says so: the token or the timeout
\* ends the wait in DeviceLost.
LEMMA LossStep == PairInv /\ PlaceTypes /\ LossInv /\ [Next]_vars => LossInv'
<1> SUFFICES ASSUME PairInv, PlaceTypes, LossInv, [Next]_vars PROVE LossInv'
    BY Zenon
<1>b. CASE UNCHANGED <<wpc, api, spc, lostBefore, closing, result>>
  BY <1>b, Zenon DEF LossInv, closed
<1>1. CASE Caller
  <2>1. UNCHANGED <<wpc, api, spc, lostBefore, closing, result>>
    BY <1>1, Zenon
       DEF Caller, StartAnswered, StartFails, NextFrame, FrameAnswered, FrameTimesOut, Stop,
           StopEnds, JoinSucceeds, JoinTimesOut, DropSource, UnchangedWorker, nativeVars, workerVars
  <2> QED BY <2>1, <1>b, Zenon
<1>2. CASE Reaper
  BY <1>2, <1>b, Zenon DEF Reaper, ReaperTakes, ReaperJoins, UnchangedWorker, nativeVars, workerVars
<1>3. CASE Session
  <2>1. UNCHANGED <<wpc, api, spc, lostBefore, result>> /\ (closed => closed')
    BY <1>3, Zenon
       DEF Session, Native, Handlers, DisplayComposes, DisplayResizes, DisplayCloses,
           HandlerCounts, HandlerSignals, ClosedFlags, ClosedSignals, UnchangedWork, workerVars,
           closed
  <2> QED BY <2>1, Zenon DEF LossInv
<1>4. CASE Worker
  <2>1. CASE WorkerAcquires
    <3>1. UNCHANGED <<wpc, api, lostBefore, closing>> /\ wpc = "serving"
      BY <2>1, AcquiringStays, Zenon
         DEF WorkerAcquires, workerVars, Acquiring, TokenTaken, TokenTimeout, DrainTakes,
             DrainFails, DrainEnds, SizeInvalid, SizeChanged, FrameCopied, FrameUnreadable,
             Duplicated, nativeVars
    <3>2. spc' \in {"wait", "drain", "inspect"} => spc \in {"wait", "drain", "inspect"}
      BY <2>1, Zenon DEF WorkerAcquires, Acquiring, TokenTaken, TokenTimeout, DrainTakes,
         DrainFails, DrainEnds, SizeInvalid, SizeChanged, FrameCopied, FrameUnreadable, Duplicated,
         Return, Continue
    <3>3. closed /\ spc = "wait" => spc' = "done" /\ result' = "DeviceLost"
      BY <2>1, Zenon
         DEF WorkerAcquires, Acquiring, TokenTaken, TokenTimeout, DrainTakes, DrainFails,
             DrainEnds, SizeInvalid, SizeChanged, FrameCopied, FrameUnreadable, Duplicated, Return
    <3>4. spc # "done"
      BY <2>1, Zenon DEF WorkerAcquires, Acquiring, TokenTaken, TokenTimeout, DrainTakes,
         DrainFails, DrainEnds, SizeInvalid, SizeChanged, FrameCopied, FrameUnreadable, Duplicated
    <3> QED BY <3>1, <3>2, <3>3, <3>4, Zenon DEF LossInv, closed
  <2>2. CASE WorkerTakesNextFrame
    <3>1. api' = api /\ wpc' = "serving" /\ lostBefore' = closed /\ closing' = closing
      BY <2>2, Zenon DEF WorkerTakesNextFrame, UnchangedPool
    <3>2. spc' = IF api = "Wgc" THEN "wait" ELSE "duplicate"
      BY <2>2, Zenon DEF WorkerTakesNextFrame
    <3> QED BY <3>1, <3>2, Zenon DEF LossInv, closed
  <2>3. CASE WorkerSelects
    BY <2>3, Zenon DEF WorkerSelects, LossInv, PairInv, ServingInv
  <2>4. CASE ~WorkerAcquires /\ ~WorkerTakesNextFrame /\ ~WorkerSelects
    <3>1. api' = api /\ wpc' \notin {"init", "serving"} /\ spc' = "ready"
      BY <1>4, <2>4, Zenon
         DEF Worker, WorkerInitFails, WorkerAnnounces, WorkerReplies, WorkerTakesStop,
             WorkerSendsStopped, WorkerDisconnected, WorkerPanics, Exit, PairInv, ServingInv
    <3> QED BY <3>1, Zenon DEF LossInv
  <2> QED BY <2>1, <2>2, <2>3, <2>4, Zenon
<1>5. CASE UNCHANGED vars
  BY <1>5, <1>b, Zenon DEF vars, sessionVars, nativeVars, workerVars
<1> QED BY <1>1, <1>2, <1>3, <1>4, <1>5, Zenon DEF Next
----------------------------------------------------------------------------
(* The worker's thread *)

\* reap_in_background spawns one reaper at most.
LEMMA ReapInBackgroundMeans ==
  ASSUME ReapInBackground, reaping \in BOOLEAN, unreaped \in BOOLEAN, (reaper # "none") = reaping
  PROVE  /\ reaping' \in BOOLEAN /\ unreaped' \in BOOLEAN /\ (reaper' # "none") = reaping'
         /\ reaper' = reaper \/ (~reaping /\ reaper = "none" /\ reaper' = "spawned")
<1>1. CASE reaping
  BY <1>1, Zenon DEF ReapInBackground
<1>2. CASE ~reaping
  BY <1>2, Zenon DEF ReapInBackground
<1> QED BY <1>1, <1>2, Zenon

\* join_before and the reaper never hold the handle together, because a reaper is only spawned
\* for a source whose caller will not join again; and whoever sets finished has seen the
\* worker exit.
LEMMA HandleStep == PairInv /\ PairInv' /\ LossInv /\ HandleInv /\ [Next]_vars => HandleInv'
<1> SUFFICES ASSUME PairInv, PairInv', LossInv, HandleInv, [Next]_vars PROVE HandleInv'
    BY Zenon
<1> USE DEF HandleInv
<1>b. CASE UNCHANGED <<lifecycleVars, cpc, state, wpc, api, stopped, panicked>>
  BY <1>b DEF lifecycleVars
<1>1. CASE Caller
  <2>a. UNCHANGED <<wpc, api, stopped, panicked>>
    BY <1>1, Zenon
       DEF Caller, StartAnswered, StartFails, NextFrame, FrameAnswered, FrameTimesOut, Stop,
           StopEnds, JoinSucceeds, JoinTimesOut, DropSource, UnchangedWorker, workerVars
  <2>1. CASE (StartAnswered /\ state' = "Running") \/ (NextFrame /\ UNCHANGED reaping) \/ FrameAnswered
    <3>1. /\ UNCHANGED lifecycleVars /\ cpc # "joining" /\ cpc' \in {"idle", "awaitFrame"}
          /\ state \in {"Running", "RecoverableLoss"} \/ cpc = "starting"
      <4>1. CASE StartAnswered /\ state' = "Running"
        BY <4>1, Zenon DEF StartAnswered, lifecycleVars, PairInv, CallerInv
      <4>2. CASE NextFrame /\ UNCHANGED reaping
        BY <4>2, Zenon DEF NextFrame, CanSend, lifecycleVars, PairInv, CallerInv
      <4>3. CASE FrameAnswered
        BY <4>3, Zenon DEF FrameAnswered, lifecycleVars, PairInv, CallerInv
      <4> QED BY <2>1, <4>1, <4>2, <4>3, Zenon
    <3> QED BY <2>a, <3>1, Zenon DEF lifecycleVars
  <2>2. CASE (StartAnswered /\ state' # "Running") \/ StartFails \/ FrameTimesOut \/ DropSource
    <3>1. /\ ReapInBackground /\ UNCHANGED <<handle, finished>> /\ cpc # "joining" /\ cpc' \in {"idle", "gone"}
          /\ state' \in {"none", "Stopped"}
      BY <2>2, Zenon
         DEF StartAnswered, StartFails, FrameTimesOut, DropSource, TransitionToStopped, PairInv,
             CallerInv
    <3> QED BY <2>a, <3>1, ReapInBackgroundMeans
  <2>3. CASE NextFrame /\ ~UNCHANGED reaping
    BY <2>3, Zenon DEF NextFrame, CanSend, PairInv, CallerInv
  <2>4. CASE Stop
    <3>1. /\ UNCHANGED lifecycleVars /\ cpc' = "awaitStop" /\ UNCHANGED state /\ state \in {"Running", "RecoverableLoss"}
          /\ cpc = "idle"
      BY <2>4, Zenon DEF Stop, CanSend, lifecycleVars, PairInv, CallerInv
    <3> QED BY <2>a, <3>1, Zenon DEF lifecycleVars
  <2>5. CASE StopEnds
    <3>1. /\ handle = "lifecycle" /\ handle' = "caller" /\ cpc' = "joining" /\ state' = "Stopped" /\ ~reaping
          /\ UNCHANGED <<reaping, finished, reaper, unreaped>>
      BY <2>5, Zenon DEF StopEnds, TakeHandle, PairInv, CallerInv
    <3> QED BY <2>a, <3>1, Zenon
  <2>6. CASE JoinSucceeds
    <3>1. /\ handle = "caller" /\ handle' = "nobody" /\ cpc' = "idle" /\ wpc = "exited"
          /\ UNCHANGED <<state, reaping, reaper, unreaped>> /\ state = "Stopped"
      BY <2>6, Zenon DEF JoinSucceeds, PairInv, CallerInv
    <3>2. finished' \in BOOLEAN
      BY <2>6, Zenon DEF JoinSucceeds, PairInv, CallTypes
    <3> QED BY <2>a, <3>1, <3>2, Zenon
  <2>7. CASE JoinTimesOut
    <3>1. /\ handle = "caller" /\ handle' = "lifecycle" /\ cpc' = "idle" /\ ReapInBackground
          /\ UNCHANGED <<state, finished>> /\ state = "Stopped"
      BY <2>7, Zenon DEF JoinTimesOut, PairInv, CallerInv
    <3> QED BY <2>a, <3>1, ReapInBackgroundMeans, Zenon
  <2> QED BY <1>1, <2>1, <2>2, <2>3, <2>4, <2>5, <2>6, <2>7, Zenon DEF Caller
<1>2. CASE Reaper
  <2>a. UNCHANGED <<wpc, api, stopped, panicked, state, cpc, reaping, unreaped>>
    BY <1>2, Zenon DEF Reaper, ReaperTakes, ReaperJoins, UnchangedWorker, workerVars, callerVars
  <2>1. CASE ReaperTakes
    BY <2>a, <2>1, Zenon DEF ReaperTakes
  <2>2. CASE ReaperJoins
    BY <2>a, <2>2, Zenon DEF ReaperJoins
  <2> QED BY <1>2, <2>1, <2>2, Zenon DEF Reaper
<1>3. CASE Session
  <2>1. UNCHANGED <<lifecycleVars, cpc, state, wpc, api, stopped, panicked>>
    BY <1>3, Zenon
       DEF Session, callerVars, workerVars, Native, Handlers, DisplayComposes, DisplayResizes,
           DisplayCloses, HandlerCounts, HandlerSignals, ClosedFlags, ClosedSignals, UnchangedWork
  <2> QED BY <2>1, <1>b, Zenon
<1>4. CASE Worker
  <2>1. UNCHANGED <<lifecycleVars, cpc, state>> /\ wpc # "exited"
    BY <1>4, Zenon
       DEF Worker, WorkerInitFails, WorkerSelects, WorkerAnnounces, WorkerTakesNextFrame,
           WorkerAcquires, WorkerReplies, WorkerTakesStop, WorkerSendsStopped, WorkerDisconnected,
           WorkerPanics, UnchangedCaller, callerVars
  <2>2. wpc' \in {"stopped", "exited"} => api' = "none" \/ stopped' \/ panicked'
    <3>1. CASE WorkerSendsStopped
      BY <3>1, Zenon DEF WorkerSendsStopped
    <3>2. CASE WorkerInitFails
      BY <3>2, Zenon DEF WorkerInitFails, LossInv
    <3>3. CASE ~WorkerSendsStopped /\ ~WorkerInitFails
      BY <1>4, <3>3, Zenon
         DEF Worker, WorkerSelects, WorkerAnnounces, WorkerTakesNextFrame, WorkerAcquires,
             WorkerReplies, WorkerTakesStop, WorkerDisconnected, WorkerPanics, SessionStop,
             workerVars
    <3> QED BY <3>1, <3>2, <3>3, Zenon
  <2> QED BY <2>1, <2>2, Zenon DEF lifecycleVars
<1>5. CASE UNCHANGED vars
  BY <1>5, <1>b, Zenon DEF vars, sessionVars, callerVars, workerVars
<1> QED BY <1>1, <1>2, <1>3, <1>4, <1>5, Zenon DEF Next
----------------------------------------------------------------------------
(* The theorems *)

\* The reaper and the caller leave the session alone, except for native failures they meet.
LEMMA OthersKeepSession ==
  Caller \/ Reaper \/ UNCHANGED vars =>
    UNCHANGED <<api, stopped, spc, display, pool, allocated, arrived, counted, pending, token, closing, arrivals,
                poolSize, newest, open, result, drainFailed>>
<1>1. CASE Caller
  BY <1>1, Zenon
     DEF Caller, StartAnswered, StartFails, NextFrame, FrameAnswered, FrameTimesOut, Stop,
         StopEnds, JoinSucceeds, JoinTimesOut, DropSource, UnchangedWorker, nativeVars
<1>2. CASE Reaper
  BY <1>2, Zenon DEF Reaper, ReaperTakes, ReaperJoins, UnchangedWorker, nativeVars
<1>3. CASE UNCHANGED vars
  BY <1>3, Zenon DEF vars, sessionVars, nativeVars
<1> QED BY <1>1, <1>2, <1>3, Zenon

\* The whole inductive invariant holds at the start ...
LEMMA CaptureInit == Init => CaptureInv
<1> SUFFICES ASSUME Init PROVE CaptureInv
    BY Zenon
<1>1. PairInv /\ PlaceTypes /\ FlagTypes /\ CountsInv /\ FramesInv
  BY PairInit, PlaceInit, FramesInit, Zenon
<1>2. IdsInv
  <2>1. calls = 0 /\ frameId = 0 /\ command = <<>> /\ wpc = "init"
    BY Zenon DEF Init, SessionInit
  <2> QED BY <2>1 DEF IdsInv
<1>3. WakeupInv
  <2>1. pool = <<>> /\ pending = 0
    BY Zenon DEF Init, SessionInit
  <2> QED BY <2>1 DEF WakeupInv
<1>4. LossInv
  <2>1. wpc = "init" /\ api = "none" /\ spc = "ready"
    BY Zenon DEF Init, SessionInit
  <2> QED BY <2>1, Zenon DEF LossInv
<1>5. HandleInv
  BY Zenon DEF Init, SessionInit, HandleInv
<1> QED BY <1>1, <1>2, <1>3, <1>4, <1>5, Zenon DEF CaptureInv

\* ... and every step keeps it.
LEMMA CaptureStep == CaptureInv /\ [Next]_vars => CaptureInv'
<1> SUFFICES ASSUME CaptureInv, [Next]_vars PROVE CaptureInv'
    BY Zenon
<1> USE DEF CaptureInv
<1>1. PairInv'
  BY CallerKeepsPairs, WorkerKeepsPairs, OthersKeepPairs, Zenon DEF Next
<1>2. (PlaceTypes /\ FlagTypes /\ CountsInv)'
  <2>1. CASE Worker
    BY <2>1, WorkerKeepsPlace, Zenon
  <2>2. CASE Session
    BY <2>2, SessionKeepsPlace, Zenon
  <2>3. CASE Caller \/ Reaper \/ UNCHANGED vars
    BY <2>3, OthersKeepSession DEF PlaceTypes, FlagTypes, CountsInv
  <2> QED BY <2>1, <2>2, <2>3, Zenon DEF Next
<1>3. FramesInv'
  <2>1. CASE Worker
    BY <2>1, WorkerKeepsFrames, Zenon DEF PairInv
  <2>2. CASE Session
    BY <2>2, SessionKeepsFrames, Zenon
  <2>3. CASE Caller \/ Reaper \/ UNCHANGED vars
    BY <2>3, OthersKeepSession, Zenon DEF FramesInv
  <2> QED BY <2>1, <2>2, <2>3, Zenon DEF Next
<1>4. IdsInv'
  BY IdsStep, Zenon
<1>5. WakeupInv'
  BY <1>1, <1>2, WakeupStep, Zenon
<1>6. LossInv'
  BY LossStep, Zenon
<1>7. HandleInv'
  BY <1>1, HandleStep, Zenon
<1> QED BY <1>1, <1>2, <1>3, <1>4, <1>5, <1>6, <1>7, Zenon

\* What the channels, the session and the thread are always like.
THEOREM CaptureAlways == Spec => []CaptureInv
  BY CaptureInit, CaptureStep, PTL DEF Spec

\* The run's invariants follow from the inductive one.
LEMMA TypesFollow == CaptureInv => TypeOK
<1> SUFFICES ASSUME CaptureInv PROVE TypeOK
    BY Zenon
<1> USE DEF CaptureInv
<1>1. Len(command) <= 1 /\ Len(response) <= 1
  BY ChannelHolds, Zenon DEF PairInv, CallTypes
<1>2. pending \in 0..MaxArrivals
  BY Bounds DEF CountsInv
<1>3. frameId \in 0..MaxCalls
  BY CallsAssumption DEF IdsInv, PairInv, CallTypes
<1>4. Len(pool) <= PoolBuffers
  BY Zenon DEF FramesInv
<1>5. {stopped, token, counted, commandTx, responseRx, reaping, finished, panicked, unreaped} \subseteq BOOLEAN
  BY Zenon DEF FlagTypes, HandleInv, PairInv, CallTypes
<1> QED BY <1>1, <1>2, <1>3, <1>4, <1>5, Zenon DEF TypeOK, PairInv, CallTypes, PlaceTypes, HandleInv

\* Calls and channels likewise.
LEMMA PairsFollow == CaptureInv => AnswersItsCall /\ ChannelsNeverFull
  BY Zenon DEF CaptureInv, PairInv, ChannelsNeverFull, ChannelsInv, CallerInv, ServingInv

\* next_frame answers the call it was asked and never another, no answer is left in the way of
\* the worker's send, and no try_send finds the command channel full: for any number of calls,
\* any pool, display and failures.
THEOREM CallsPairedHolds == Spec => []CallsPaired
<1>1. CaptureInv => CallsPaired
  BY TypesFollow, PairsFollow, Zenon DEF CallsPaired
<1> QED BY <1>1, CaptureAlways, PTL

\* acquire_frame never sleeps on a frame that is in the pool, unless a native error broke a
\* drain off; it closes every frame it took; and it copies only from buffers large enough.
THEOREM PoolServedHolds == Spec => []PoolServed
<1>1. CaptureInv => NoLostWakeup
  <2> SUFFICES ASSUME CaptureInv, spc = "wait", pool # <<>>, arrived = 0, ~counted, ~token, ~drainFailed
               PROVE  FALSE
      BY Zenon DEF NoLostWakeup
  <2>1. pending > 0
    BY DEF CaptureInv, WakeupInv
  <2>2. LossKnown
    BY <2>1, Zenon DEF CaptureInv, WakeupInv
  <2> QED BY <2>2, Zenon DEF LossKnown
<1>2. CaptureInv => FramesClosed
  BY Zenon DEF CaptureInv, FramesInv, FramesClosed
<1>3. CaptureInv => CopyFits
  <2> SUFFICES ASSUME CaptureInv, spc = "inspect", newest.content = poolSize
               PROVE  CopyAccepts(newest)
      BY Zenon DEF CopyFits
  <2>1. newest.alloc = poolSize /\ poolSize \in Nat \ {0}
    BY Zenon DEF CaptureInv, FramesInv
  <2> QED BY <2>1 DEF CopyAccepts, RowsFit
<1>4. CaptureInv => PoolServed
  BY <1>1, <1>2, <1>3, Zenon DEF PoolServed
<1> QED BY <1>4, CaptureAlways, PTL

\* A next_frame that began after Closed was flagged says DeviceLost, whether the token or the
\* timeout ends its wait.
THEOREM LossReportedHolds == Spec => []LossReported
<1>1. CaptureInv => LossReported
  BY Zenon DEF CaptureInv, LossInv, LossReported, PairInv, ServingInv
<1> QED BY <1>1, CaptureAlways, PTL

\* The safety half of SourceCollected: finished is only set once the worker has exited with its
\* session stopped, and no step brings back a source that lost its device or stopped.
THEOREM EndsForGood == Spec => []FinishedMeansReleased /\ NeverRevived
<1>1. CaptureInv => FinishedMeansReleased
  BY Zenon DEF CaptureInv, HandleInv, FinishedMeansReleased
<1>2. CaptureInv /\ [Next]_vars =>
        [/\ state = "RecoverableLoss" => state' \in {"RecoverableLoss", "Stopped"}
         /\ state = "Stopped" => state' = "Stopped"]_vars
  <2> SUFFICES ASSUME CaptureInv, Next
               PROVE  /\ state = "RecoverableLoss" => state' \in {"RecoverableLoss", "Stopped"}
                      /\ state = "Stopped" => state' = "Stopped"
      BY Zenon DEF vars, callerVars
  <2>1. CASE Caller
    BY <2>1, Zenon
       DEF Caller, StartAnswered, StartFails, NextFrame, FrameAnswered, FrameTimesOut, Stop,
           StopEnds, JoinSucceeds, JoinTimesOut, DropSource, TransitionToStopped, CaptureInv,
           PairInv, CallerInv
  <2>2. CASE Reaper \/ Worker \/ Session
    <3>1. UNCHANGED state
      BY <2>2, Zenon
         DEF Reaper, ReaperTakes, ReaperJoins, Session, Worker, WorkerInitFails, WorkerSelects,
             WorkerAnnounces, WorkerTakesNextFrame, WorkerAcquires, WorkerReplies, WorkerTakesStop,
             WorkerSendsStopped, WorkerDisconnected, WorkerPanics, UnchangedCaller, callerVars
    <3> QED BY <3>1, Zenon
  <2> QED BY <2>1, <2>2, Zenon DEF Next
<1> QED BY <1>1, <1>2, CaptureAlways, PTL DEF Spec, NeverRevived
=============================================================================
