------------------------------ MODULE FrameLoop ------------------------------
(***************************************************************************)
(* Frame synchronization after nes.run.  NMI increments an eight-bit frame *)
(* counter.  Main-block code calls nes.wait_frame; the implicit loop that  *)
(* follows it compares the counter with the last frame it processed, polls *)
(* the controllers once for the frame it accepts and calls the update      *)
(* callback.                                                               *)
(*                                                                         *)
(* The main thread takes one step per access to a byte NMI writes.         *)
(***************************************************************************)
EXTENDS Integers

CONSTANTS
  FrameModulus,  \* values of the frame counter; 256 in the code
  MaxBacklog,    \* most NMIs from one accepted frame to the next
  Pads           \* button bytes the controllers may report

ASSUME ModulusAssumption == FrameModulus \in Nat /\ FrameModulus > 1
ASSUME BacklogAssumption == MaxBacklog \in Nat \ {0}
ASSUME PadsAssumption == 0 \in Pads

Ports == {1, 2}
Frames == 0 .. FrameModulus - 1

VARIABLES
  counter,     \* runtime_frame_counter
  frameReady,  \* runtime_frame_ready, the advisory latch
  last,        \* runtime_last_processed_frame
  pollValid,   \* runtime_controller_poll_valid
  polled,      \* runtime_controller_polled_frame
  current,     \* runtime_controller_1_current and _2_current
  previous,    \* runtime_controller_1_previous and _2_previous
  pc,          \* next step of the main thread
  a,           \* its accumulator
  unseen,      \* history: NMIs since the main thread last read the counter
  since,       \* history: NMIs since the counter was read for the last
               \* accepted frame, or since the first read of all
  fresh        \* history: the controllers were read for that frame

controllerVars == <<pollValid, polled, current, previous>>
history == <<unseen, since, fresh>>
vars == <<counter, frameReady, last, controllerVars, pc, a, history>>

PcValues == {"program", "wait", "waited", "reread", "waitPoll",
             "baseline", "loop", "accept", "clear", "poll", "callback"}

\* nes.run has just enabled NMI; RESET cleared every byte.
Init ==
  /\ counter = 0 /\ frameReady = FALSE /\ last = 0
  /\ pollValid = FALSE /\ polled = 0
  /\ current = [p \in Ports |-> 0] /\ previous = [p \in Ports |-> 0]
  /\ pc = "program" /\ a = 0
  /\ unseen = 0 /\ since = 0 /\ fresh = FALSE

\* The main thread loads the counter; accepting says for which purpose.
ReadCounter(accepting) ==
  /\ a' = counter
  /\ unseen' = 0
  /\ since' = IF accepting \/ ~pollValid THEN 0 ELSE since
  /\ fresh' = (fresh /\ ~accepting)

(***************************************************************************)
(* nes.wait_frame in the main block (_emit_wait_frame): sample, spin until *)
(* the counter changes, clear the latch, read the counter again and poll.  *)
(***************************************************************************)
WaitSample ==
  /\ pc = "program"
  /\ ReadCounter(FALSE)
  /\ pc' = "wait"
  /\ UNCHANGED <<counter, frameReady, last, controllerVars>>

\* Fault: wait for exactly the next value of the counter.
WaitNext ==
  /\ pc = "wait" /\ counter = (a + 1) % FrameModulus
  /\ pc' = "waited"
  /\ UNCHANGED <<counter, frameReady, last, controllerVars, a, history>>

WaitChanged ==
  /\ pc = "wait" /\ counter # a
  /\ pc' = "waited"
  /\ UNCHANGED <<counter, frameReady, last, controllerVars, a, history>>

WaitClear ==
  /\ pc = "waited"
  /\ frameReady' = FALSE
  /\ pc' = "reread"
  /\ UNCHANGED <<counter, last, controllerVars, a, history>>

WaitAccept ==
  /\ pc = "reread"
  /\ ReadCounter(TRUE)
  /\ pc' = "waitPoll"
  /\ UNCHANGED <<counter, frameReady, last, controllerVars>>

(***************************************************************************)
(* The implicit loop: take the baseline once, then accept the newest frame *)
(* whenever the counter differs from the last processed one.               *)
(***************************************************************************)
ReadBaseline ==
  /\ pc = "program"
  /\ ReadCounter(FALSE)
  /\ pc' = "baseline"
  /\ UNCHANGED <<counter, frameReady, last, controllerVars>>

StoreBaseline ==
  /\ pc = "baseline"
  /\ last' = a
  /\ pc' = "loop"
  /\ UNCHANGED <<counter, frameReady, controllerVars, a, history>>

\* Faults: trust the latch instead of the counter, and record a frame that
\* the counter has reached since it was read.
SeeReady ==
  /\ pc = "loop" /\ frameReady
  /\ ReadCounter(TRUE)
  /\ pc' = "accept"
  /\ UNCHANGED <<counter, frameReady, last, controllerVars>>

AcceptNewerFrame ==
  /\ pc = "accept"
  /\ last' = counter
  /\ pc' = "clear"
  /\ UNCHANGED <<counter, frameReady, controllerVars, a, history>>

SeeFrame ==
  /\ pc = "loop" /\ counter # last
  /\ ReadCounter(TRUE)
  /\ pc' = "accept"
  /\ UNCHANGED <<counter, frameReady, last, controllerVars>>

AcceptFrame ==
  /\ pc = "accept"
  /\ last' = a
  /\ pc' = "clear"
  /\ UNCHANGED <<counter, frameReady, controllerVars, a, history>>

ClearReady ==
  /\ pc = "clear"
  /\ frameReady' = FALSE
  /\ a' = last
  /\ pc' = "poll"
  /\ UNCHANGED <<counter, last, controllerVars, history>>

(***************************************************************************)
(* runtime_update_controllers: skip a frame that is already polled, else   *)
(* keep the previous reading and read both ports.  A skipped frame already *)
(* has its poll recorded, so the record is the same either way.            *)
(***************************************************************************)
\* Faults: the zeroed record taken for frame zero, and the previous reading
\* not kept.
CurrentWithoutRecord == polled = a

UpdateCurrentOnly ==
  /\ pollValid' = TRUE /\ polled' = a
  /\ current' \in [Ports -> Pads]
  /\ fresh' = TRUE
  /\ UNCHANGED <<previous, unseen, since>>

AlreadyCurrent == pollValid /\ polled = a

UpdateControllers ==
  /\ pollValid' = TRUE /\ polled' = a
  /\ previous' = IF AlreadyCurrent THEN previous ELSE current
  /\ current' \in IF AlreadyCurrent THEN {current} ELSE [Ports -> Pads]
  /\ fresh' = (fresh \/ ~AlreadyCurrent)
  /\ UNCHANGED <<unseen, since>>

Poll ==
  /\ \/ pc = "waitPoll" /\ pc' = "program"
     \/ pc = "poll" /\ pc' = "callback"
  /\ UpdateControllers
  /\ UNCHANGED <<counter, frameReady, last, a>>

\* The update callback returns; it may have run for several frames.
Return ==
  /\ pc = "callback"
  /\ pc' = "loop"
  /\ UNCHANGED <<counter, frameReady, last, controllerVars, a, history>>

(***************************************************************************)
(* NMI.  MaxBacklog bounds the frames a program spends between two         *)
(* accepted frames, not those before it first looks at the counter; the    *)
(* last of them is the one a waiting program waits for.                    *)
(***************************************************************************)
Waiting == pc \in {"wait", "loop"} /\ unseen = 0

WithinBacklog == since + 1 < MaxBacklog \/ (since < MaxBacklog /\ Waiting)

\* Fault: a counter without the wrap of one byte.
NmiUnwrapped ==
  /\ counter' = counter + 1
  /\ frameReady' = TRUE
  /\ since' = since + 1 /\ unseen' = unseen + 1
  /\ WithinBacklog
  /\ UNCHANGED <<last, controllerVars, pc, a, fresh>>

Nmi ==
  /\ counter' = (counter + 1) % FrameModulus
  /\ frameReady' = TRUE
  /\ \/ pc = "program" /\ ~pollValid /\ UNCHANGED <<unseen, since>>
     \/ /\ ~(pc = "program" /\ ~pollValid)
        /\ WithinBacklog
        /\ since' = since + 1 /\ unseen' = unseen + 1
  /\ UNCHANGED <<last, controllerVars, pc, a, fresh>>

Loop == \/ StoreBaseline \/ SeeFrame \/ AcceptFrame \/ ClearReady
        \/ Poll \/ Return

Wait == WaitChanged \/ WaitClear \/ WaitAccept

Main == WaitSample \/ ReadBaseline \/ Wait \/ Loop

Next == Main \/ Nmi

(***************************************************************************)
(* The CPU runs the loop and every callback returns.  NMI is raised again  *)
(* and again, within the bound.                                            *)
(***************************************************************************)
Spec == Init /\ [][Next]_vars
FairSpec == Spec /\ WF_vars(Wait \/ Loop) /\ WF_vars(Nmi)

-----------------------------------------------------------------------------

TypeOK ==
  /\ counter \in Frames /\ last \in Frames /\ polled \in Frames
  /\ a \in Frames
  /\ frameReady \in BOOLEAN /\ pollValid \in BOOLEAN
  /\ current \in [Ports -> Pads] /\ previous \in [Ports -> Pads]
  /\ pc \in PcValues
  /\ unseen \in 0 .. MaxBacklog /\ since \in 0 .. MaxBacklog
  /\ fresh \in BOOLEAN

(***************************************************************************)
(* The equality test of the loop decides correctly: the counter differs    *)
(* from the last processed frame exactly when a frame has passed since the *)
(* main thread last read it, although NMI runs between the read, the store *)
(* and the callback (runtime main loop of generate).                       *)
(***************************************************************************)
PendingFrameIsSeen == pc = "loop" => (counter # last <=> unseen > 0)

(***************************************************************************)
(* "Input is sampled [...] exactly once for each processed frame"          *)
(* (controller-input.md): after nes.wait_frame and in the update callback  *)
(* the controllers have been read for the accepted frame, and the guard    *)
(* against reading one frame twice has not suppressed the reading.         *)
(***************************************************************************)
AcceptedFrameIsPolled ==
  pc = "callback" \/ (pc = "program" /\ pollValid) => fresh

(***************************************************************************)
(* previous and current are the readings of consecutive processed frames:  *)
(* whenever the current reading is replaced, it becomes the previous one,  *)
(* and it is replaced at most once per frame the main thread accepts.      *)
(***************************************************************************)
ReadingsAreConsecutive ==
  [][<<current, previous>>' # <<current, previous>> =>
       previous' = current /\ ~fresh]_vars

(***************************************************************************)
(* Every nes.wait_frame returns.                                           *)
(***************************************************************************)
WaitsReturn == pc = "wait" ~> pc = "program"

(***************************************************************************)
(* Refinement: the loop implements FrameScheduler with frames counted      *)
(* instead of compared.                                                    *)
(***************************************************************************)
Looping == pc \in {"baseline", "loop", "accept", "clear", "poll", "callback"}

Scheduler == INSTANCE FrameScheduler WITH
  looping <- Looping,
  updating <- pc \in {"accept", "clear", "poll", "callback"},
  missed <- unseen

ImplementsFrameScheduler == Scheduler!Spec

=============================================================================
