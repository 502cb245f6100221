------------------------------- MODULE Monitor -------------------------------
(***************************************************************************)
(* The monitor pages (MonitorController, MonitorContainerView) and the     *)
(* floating window of EyesManager.                                         *)
(*                                                                         *)
(* A page's container starts a frame counter, a network sampler and a      *)
(* timer, and stops none of them. Both samplers know the container by a    *)
(* weak delegate; what keeps it when the page is gone is the timer, which  *)
(* is never invalidated. Frame rates go to the container's label and to    *)
(* the floating window. Network samples come on the sampler's thread and   *)
(* reach their label through the main queue. FPS and NetworkFlow have      *)
(* modules of their own; here they only report.                            *)
(***************************************************************************)
EXTENDS Integers, Sequences, SequencesExt

CONSTANTS
  Pages,      (* the pages that may be opened                              *)
  Rates,      (* the frame rates                                           *)
  Nothing,    (* the empty text                                            *)
  MaxQueue,   (* a bound on the blocks that wait in the main queue         *)
  MaxSamples  (* a bound on the samples of each sampler                    *)

ASSUME RatesAssumption == Nothing \notin Rates
ASSUME BoundsAssumption == MaxQueue \in Nat /\ MaxSamples \in Nat

VARIABLES
  opened,    (* the pages that were made                                   *)
  onStack,   (* those whose controller is in the navigation stack          *)
  timers,    (* the containers that a scheduled timer holds                *)
  queue,     (* the blocks of the main queue: the container, its sample    *)
  sampled,   (* how many samples each sampler has taken                    *)
  netLabel,  (* the sample each network label shows                        *)
  fpsLabel,  (* the rate each frame label shows                            *)
  isShowFPS, fps, title,   (* EyesManager and its floating window          *)
  beat       (* history: changes whenever the window is given a title      *)

pages == <<opened, onStack, timers>>
network == <<queue, sampled, netLabel>>
window == <<isShowFPS, fps, title, beat>>
vars == <<pages, network, fpsLabel, window>>

Init ==
  /\ opened = {} /\ onStack = {} /\ timers = {}
  /\ queue = << >>
  /\ sampled = [c \in Pages |-> 0] /\ netLabel = [c \in Pages |-> 0]
  /\ fpsLabel = [c \in Pages |-> Nothing]
  /\ isShowFPS = FALSE /\ fps = Nothing /\ title = Nothing
  /\ beat = FALSE

(* Who still holds a container: its controller, its timer, or a block that   *)
(* waits (the blocks capture self).                                         *)
Alive == onStack \cup timers \cup {queue[i].page : i \in DOMAIN queue}

-----------------------------------------------------------------------------
(* Mutant: a timer with a block that holds its container weakly. *)
OpenWithWeakTimer(c) ==
  /\ c \notin opened
  /\ opened' = opened \cup {c} /\ onStack' = onStack \cup {c}
  /\ UNCHANGED <<timers, network, fpsLabel, window>>

(* MonitorController() makes its container, which starts everything.         *)
Open(c) ==
  /\ c \notin opened
  /\ opened' = opened \cup {c} /\ onStack' = onStack \cup {c} /\ timers' = timers \cup {c}
  /\ UNCHANGED <<network, fpsLabel, window>>

Pop(c) ==
  /\ c \in onStack
  /\ onStack' = onStack \ {c}
  /\ UNCHANGED <<opened, timers, network, fpsLabel, window>>

(* The button of a page: the window comes with the title it last had.        *)
ToggleShowFPS ==
  /\ onStack # {}
  /\ isShowFPS' = ~isShowFPS
  /\ UNCHANGED <<pages, network, fpsLabel, fps, title, beat>>

-----------------------------------------------------------------------------
(* Mutant: willSet in the place of didSet. *)
ReportBehind(c, rate) ==
  /\ c \in opened \cap Alive
  /\ fpsLabel' = [fpsLabel EXCEPT ![c] = rate]
  /\ fps' = rate
  /\ IF isShowFPS THEN title' = fps /\ beat' = ~beat ELSE UNCHANGED <<title, beat>>
  /\ UNCHANGED <<pages, network, isShowFPS>>

(* FPSDelegate: the label, and through configure(fps:) the window.           *)
ReportFPS(c, rate) ==
  /\ c \in opened \cap Alive
  /\ fpsLabel' = [fpsLabel EXCEPT ![c] = rate]
  /\ fps' = rate
  /\ IF isShowFPS THEN title' = rate /\ beat' = ~beat ELSE UNCHANGED <<title, beat>>
  /\ UNCHANGED <<pages, network, isShowFPS>>

(* NetDelegate, on the thread of the sampler; a container that is gone hears *)
(* of nothing.                                                              *)
ReportNetwork(c) ==
  /\ c \in opened /\ sampled[c] < MaxSamples /\ Len(queue) < MaxQueue
  /\ sampled' = [sampled EXCEPT ![c] = @ + 1]
  /\ queue' = IF c \in Alive THEN Append(queue, [page |-> c, sample |-> sampled[c] + 1])
              ELSE queue
  /\ UNCHANGED <<pages, netLabel, fpsLabel, window>>

(* Mutant: the newest block first. *)
RunLastBlock ==
  /\ queue # << >>
  /\ netLabel' = [netLabel EXCEPT ![Last(queue).page] = Last(queue).sample]
  /\ queue' = Front(queue)
  /\ UNCHANGED <<pages, sampled, fpsLabel, window>>

(* The main queue runs the block: configure(wifiSend:...).                   *)
RunBlock ==
  /\ queue # << >>
  /\ netLabel' = [netLabel EXCEPT ![Head(queue).page] = Head(queue).sample]
  /\ queue' = Tail(queue)
  /\ UNCHANGED <<pages, sampled, fpsLabel, window>>

-----------------------------------------------------------------------------
Next ==
  \/ ToggleShowFPS \/ RunBlock
  \/ \E c \in Pages :
       \/ Open(c) \/ Pop(c) \/ ReportNetwork(c)
       \/ \E rate \in Rates : ReportFPS(c, rate)

Spec == Init /\ [][Next]_vars

(* While the application is active, the display link of a container that     *)
(* lives goes on calling its frame counter, which only close() would stop,   *)
(* and nothing calls that; its sampler goes on sampling, and the main queue  *)
(* is served.                                                               *)
Fairness ==
  /\ WF_vars(RunBlock)
  /\ \A c \in Pages : /\ WF_vars(\E rate \in Rates : ReportFPS(c, rate))
                      /\ WF_vars(ReportNetwork(c))
FairSpec == Spec /\ Fairness

-----------------------------------------------------------------------------
(* Properties.                                                              *)

(* A window comes back with the rate it showed when it was hidden. Sooner or *)
(* later it shows the newest rate, unless it is hidden again: whoever showed *)
(* it, and although all pages may have been popped since.                   *)
OldRateGoes == isShowFPS /\ opened # {} /\ title # fps ~> ~isShowFPS \/ title = fps

(* A network label never goes back to an older sample.                      *)
LabelsAdvance == [][\A c \in Pages : netLabel'[c] >= netLabel[c]]_vars

(* Once a page was opened, a window that stays on the screen is given new    *)
(* titles for ever, also when all pages have been popped.                   *)
WindowIsFed ==
  <>[](isShowFPS /\ opened # {}) => []<>beat /\ []<>~beat
=============================================================================
