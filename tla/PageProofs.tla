------------------------------ MODULE PageProofs ------------------------------
(***************************************************************************)
(* Theorems about the monitor pages and what is on them: the labels        *)
(* (Monitor), the frame counter (FPS), the view that floats (HoverView)    *)
(* and the buttons of the bar (NavigationBar), for any pages, screen,      *)
(* sizes, handlers and number of buttons that the assumptions allow.       *)
(***************************************************************************)
EXTENDS Monitor, SequenceTheorems, TLAPS

-----------------------------------------------------------------------------
(* The pages and their labels.                                              *)

Blocks == [page : Pages, sample : Nat]

MonitorTypeOK ==
  /\ opened \subseteq Pages
  /\ fpsLabel \in [Pages -> Rates \cup {Nothing}]
  /\ netLabel \in [Pages -> Nat] /\ sampled \in [Pages -> Nat]
  /\ queue \in Seq(Blocks)

(* The samples that wait for a page are later than what its label shows and  *)
(* come in the order in which they were taken.                              *)
LaterThanLabel == \A i \in DOMAIN queue :
  /\ netLabel[queue[i].page] <= queue[i].sample
  /\ queue[i].sample <= sampled[queue[i].page]

InSampledOrder == \A i, j \in DOMAIN queue :
  i < j /\ queue[i].page = queue[j].page => queue[i].sample <= queue[j].sample

LabelsBehind == \A c \in Pages : netLabel[c] <= sampled[c]

MonitorInv ==
  MonitorTypeOK /\ LaterThanLabel /\ InSampledOrder /\ LabelsBehind

LEMMA BlocksTyped ==
  ASSUME queue \in Seq(Blocks)
  PROVE  /\ Len(queue) \in Nat /\ DOMAIN queue = 1..Len(queue)
         /\ \A i \in DOMAIN queue :
              queue[i] \in Blocks /\ queue[i].page \in Pages /\ queue[i].sample \in Nat
<1>1. /\ Len(queue) \in Nat /\ DOMAIN queue = 1..Len(queue)
      /\ \A i \in 1..Len(queue) : queue[i] \in Blocks
  BY LenProperties, ElementOfSeq
<1> QED
  BY <1>1 DEF Blocks

LEMMA SampleKeeps ==
  ASSUME MonitorInv, NEW c \in Pages, ReportNetwork(c)
  PROVE  MonitorInv'
<1> DEFINE block == [page |-> c, sample |-> sampled[c] + 1]
<1>1. /\ sampled' = [sampled EXCEPT ![c] = sampled[c] + 1]
      /\ queue' = Append(queue, block) \/ queue' = queue
      /\ UNCHANGED <<opened, netLabel, fpsLabel>>
  BY DEF ReportNetwork, pages, window
<1>2. MonitorTypeOK /\ block \in Blocks /\ block.page = c /\ block.sample = sampled[c] + 1
  BY DEF MonitorInv, MonitorTypeOK, Blocks
<1>3. \A d \in Pages : /\ netLabel[d] \in Nat /\ sampled[d] \in Nat /\ sampled'[d] \in Nat
                       /\ sampled[d] <= sampled'[d]
  BY <1>1, <1>2 DEF MonitorTypeOK
<1>4. /\ Len(queue) \in Nat /\ DOMAIN queue = 1..Len(queue)
      /\ \A i \in DOMAIN queue : queue[i].page \in Pages /\ queue[i].sample \in Nat
  BY <1>2, BlocksTyped DEF MonitorTypeOK
<1>6. LabelsBehind'
  BY <1>1, <1>3 DEF MonitorInv, LabelsBehind
<1>7. sampled'[c] = sampled[c] + 1
  BY <1>1, <1>2 DEF MonitorTypeOK
<1> HIDE DEF block
<1>8. CASE queue' = queue
  <2>1. MonitorTypeOK'
    BY <1>1, <1>2, <1>3, <1>8 DEF MonitorTypeOK
  <2>2. LaterThanLabel'
    BY <1>1, <1>3, <1>4, <1>8 DEF MonitorInv, LaterThanLabel
  <2>3. InSampledOrder'
    BY <1>8 DEF MonitorInv, InSampledOrder
  <2> QED
    BY <1>6, <2>1, <2>2, <2>3 DEF MonitorInv
<1>9. CASE queue' = Append(queue, block)
  <2>1. /\ queue' \in Seq(Blocks) /\ DOMAIN queue' = 1..(Len(queue) + 1)
        /\ queue'[Len(queue) + 1] = block
        /\ \A i \in 1..Len(queue) : queue'[i] = queue[i]
    BY <1>2, <1>4, <1>9, AppendProperties DEF MonitorTypeOK
  <2>2. \A i \in DOMAIN queue' : i \in DOMAIN queue \/ i = Len(queue) + 1
    BY <1>4, <2>1
  <2>3. MonitorTypeOK'
    BY <1>1, <1>2, <1>3, <2>1 DEF MonitorTypeOK
  <2>4. LaterThanLabel'
    <3> SUFFICES ASSUME NEW i \in DOMAIN queue'
                 PROVE  /\ netLabel[queue'[i].page] <= queue'[i].sample
                        /\ queue'[i].sample <= sampled'[queue'[i].page]
      BY <1>1 DEF LaterThanLabel
    <3>1. CASE i \in DOMAIN queue
      BY <1>3, <1>4, <2>1, <3>1 DEF MonitorInv, LaterThanLabel
    <3>2. CASE i = Len(queue) + 1
      <4>1. netLabel[c] <= sampled[c]
        BY DEF MonitorInv, LabelsBehind
      <4> QED
        BY <1>2, <1>3, <1>7, <2>1, <3>2, <4>1
    <3> QED
      BY <2>2, <3>1, <3>2
  <2>5. InSampledOrder'
    <3> SUFFICES ASSUME NEW i \in DOMAIN queue', NEW j \in DOMAIN queue', i < j,
                        queue'[i].page = queue'[j].page
                 PROVE  queue'[i].sample <= queue'[j].sample
      BY DEF InSampledOrder
    <3>1. i \in DOMAIN queue
      BY <1>4, <2>1
    <3>2. CASE j \in DOMAIN queue
      BY <1>4, <2>1, <3>1, <3>2 DEF MonitorInv, InSampledOrder
    <3>3. CASE j = Len(queue) + 1
      <4>1. queue'[j] = block /\ queue'[i] = queue[i] /\ queue[i].page = c
        BY <1>2, <1>4, <2>1, <3>1, <3>3
      <4>2. queue[i].sample <= sampled[c]
        BY <3>1, <4>1 DEF MonitorInv, LaterThanLabel
      <4> QED
        BY <1>2, <1>3, <1>4, <3>1, <4>1, <4>2
    <3> QED
      BY <2>2, <3>2, <3>3
  <2> QED
    BY <1>6, <2>3, <2>4, <2>5 DEF MonitorInv
<1> QED
  BY <1>1, <1>8, <1>9

(* The first block of the queue is no older than what its label shows, and   *)
(* no younger than the others of its page.                                  *)
LEMMA BlockKeeps ==
  ASSUME MonitorInv, RunBlock
  PROVE  MonitorInv' /\ \A c \in Pages : netLabel'[c] >= netLabel[c]
<1>1. /\ queue # << >> /\ queue' = Tail(queue)
      /\ netLabel' = [netLabel EXCEPT ![Head(queue).page] = Head(queue).sample]
      /\ UNCHANGED <<opened, sampled, fpsLabel>>
  BY DEF RunBlock, pages, window
<1>2. MonitorTypeOK
  BY DEF MonitorInv
<1>3. /\ Len(queue) \in Nat /\ DOMAIN queue = 1..Len(queue)
      /\ \A i \in DOMAIN queue : queue[i].page \in Pages /\ queue[i].sample \in Nat
  BY <1>2, BlocksTyped DEF MonitorTypeOK
<1>4. /\ Head(queue) = queue[1] /\ 1 \in DOMAIN queue
      /\ queue' \in Seq(Blocks) /\ DOMAIN queue' = 1..(Len(queue) - 1)
      /\ \A i \in 1..(Len(queue) - 1) : queue'[i] = queue[i + 1]
  <2>1. Tail(queue) \in Seq(Blocks) /\ Head(queue) = queue[1]
    BY <1>1, <1>2, HeadTailProperties DEF MonitorTypeOK
  <2>2. Len(queue) # 0
    BY <1>1, <1>2, EmptySeq DEF MonitorTypeOK
  <2>3. /\ Len(Tail(queue)) = Len(queue) - 1
        /\ \A i \in 1..(Len(queue) - 1) : Tail(queue)[i] = queue[i + 1]
    BY <1>1, <1>2, HeadTailProperties DEF MonitorTypeOK
  <2>4. DOMAIN Tail(queue) = 1..(Len(queue) - 1)
    BY <2>1, <2>3, LenProperties
  <2> QED
    BY <1>1, <1>3, <2>1, <2>2, <2>3, <2>4
<1>5. \A c \in Pages : netLabel[c] \in Nat /\ sampled[c] \in Nat
  BY <1>2 DEF MonitorTypeOK
<1>6. \A c \in Pages : netLabel'[c] = IF c = queue[1].page THEN queue[1].sample ELSE netLabel[c]
  BY <1>1, <1>2, <1>4 DEF MonitorTypeOK
<1>7. netLabel[queue[1].page] <= queue[1].sample /\ queue[1].sample <= sampled[queue[1].page]
  BY <1>4 DEF MonitorInv, LaterThanLabel
<1>8. MonitorTypeOK'
  BY <1>1, <1>2, <1>3, <1>4 DEF MonitorTypeOK
<1>9. \A i \in DOMAIN queue' : /\ i \in Nat /\ i + 1 \in DOMAIN queue /\ queue'[i] = queue[i + 1]
                               /\ 1 < i + 1
  BY <1>3, <1>4
<1>10. LaterThanLabel'
  <2> SUFFICES ASSUME NEW i \in DOMAIN queue'
               PROVE  /\ netLabel'[queue'[i].page] <= queue'[i].sample
                      /\ queue'[i].sample <= sampled[queue'[i].page]
    BY <1>1 DEF LaterThanLabel
  <2>1. i + 1 \in DOMAIN queue /\ queue'[i] = queue[i + 1] /\ 1 < i + 1
    BY <1>9
  <2>2. /\ netLabel[queue[i + 1].page] <= queue[i + 1].sample
        /\ queue[i + 1].sample <= sampled[queue[i + 1].page]
    BY <2>1 DEF MonitorInv, LaterThanLabel
  <2>3. queue[1].page = queue[i + 1].page => queue[1].sample <= queue[i + 1].sample
    BY <1>4, <2>1 DEF MonitorInv, InSampledOrder
  <2> QED
    BY <1>3, <1>6, <2>1, <2>2, <2>3
<1>11. InSampledOrder'
  <2> SUFFICES ASSUME NEW i \in DOMAIN queue', NEW j \in DOMAIN queue', i < j,
                      queue'[i].page = queue'[j].page
               PROVE  queue'[i].sample <= queue'[j].sample
    BY DEF InSampledOrder
  <2>1. i + 1 \in DOMAIN queue /\ j + 1 \in DOMAIN queue /\ i + 1 < j + 1
        /\ queue'[i] = queue[i + 1] /\ queue'[j] = queue[j + 1]
    BY <1>9
  <2> QED
    BY <2>1 DEF MonitorInv, InSampledOrder
<1>12. LabelsBehind' /\ \A c \in Pages : netLabel'[c] >= netLabel[c]
  BY <1>1, <1>3, <1>4, <1>5, <1>6, <1>7 DEF MonitorInv, LabelsBehind
<1> QED
  BY <1>8, <1>10, <1>11, <1>12 DEF MonitorInv

LEMMA RateKeeps ==
  ASSUME MonitorInv, NEW c \in Pages, NEW rate \in Rates, ReportFPS(c, rate)
  PROVE  MonitorInv'
<1>1. /\ fpsLabel' = [fpsLabel EXCEPT ![c] = rate]
      /\ UNCHANGED <<opened, queue, sampled, netLabel>>
  BY DEF ReportFPS, pages, network
<1>2. MonitorTypeOK'
  BY <1>1 DEF MonitorInv, MonitorTypeOK
<1> QED
  BY <1>1, <1>2 DEF MonitorInv, LaterThanLabel, InSampledOrder, LabelsBehind

LEMMA MonitorStep ==
  ASSUME MonitorInv, [Next]_vars
  PROVE  MonitorInv' /\ \A c \in Pages : netLabel'[c] >= netLabel[c]
<1>1. \A c \in Pages : netLabel[c] \in Nat
  BY DEF MonitorInv, MonitorTypeOK
<1>2. CASE UNCHANGED <<opened, network, fpsLabel>>
  BY <1>1, <1>2 DEF network, MonitorInv, MonitorTypeOK, LaterThanLabel,
    InSampledOrder, LabelsBehind
<1>3. ASSUME NEW c \in Pages, Open(c) PROVE MonitorInv' /\ UNCHANGED netLabel
  BY <1>3 DEF Open, network, window, MonitorInv, MonitorTypeOK, LaterThanLabel,
    InSampledOrder, LabelsBehind
<1>4. CASE ToggleShowFPS
  BY <1>1, <1>4 DEF ToggleShowFPS, pages, network, MonitorInv, MonitorTypeOK, LaterThanLabel, InSampledOrder, LabelsBehind
<1>5. ASSUME NEW c \in Pages, ReportNetwork(c) PROVE MonitorInv' /\ UNCHANGED netLabel
  BY <1>5, SampleKeeps DEF ReportNetwork
<1>6. ASSUME NEW c \in Pages, NEW rate \in Rates, ReportFPS(c, rate)
      PROVE  MonitorInv' /\ UNCHANGED netLabel
  BY <1>6, RateKeeps DEF ReportFPS, network
<1>7. ASSUME NEW c \in Pages, Pop(c)
      PROVE  UNCHANGED <<opened, network, fpsLabel>>
  BY <1>7 DEF Pop, window
<1>8. CASE UNCHANGED vars
  BY <1>2, <1>8 DEF vars, pages, window
<1> QED
  BY <1>1, <1>2, <1>3, <1>4, <1>5, <1>6, <1>7, <1>8, BlockKeeps DEF Next

LEMMA MonitorInvariant == Spec => []MonitorInv
<1>1. Init => MonitorInv
  <2> SUFFICES ASSUME Init PROVE MonitorInv
    OBVIOUS
  <2>1. queue \in Seq(Blocks) /\ DOMAIN queue = {}
    BY DEF Init
  <2>2. netLabel \in [Pages -> Nat] /\ sampled \in [Pages -> Nat] /\ LabelsBehind
    BY DEF Init, LabelsBehind
  <2> QED
    BY <2>1, <2>2 DEF Init, MonitorInv, MonitorTypeOK, LaterThanLabel, InSampledOrder
<1> QED
  BY <1>1, MonitorStep, PTL DEF Spec

(* The blocks that wait in the main queue never take a network label back,   *)
(* for any pages and any length of the queue.                               *)
THEOREM LabelsNeverGoBack == Spec => LabelsAdvance
<1>1. MonitorInv /\ [Next]_vars => [\A c \in Pages : netLabel'[c] >= netLabel[c]]_vars
  BY MonitorStep
<1> QED
  BY <1>1, MonitorInvariant, PTL DEF Spec, LabelsAdvance

-----------------------------------------------------------------------------
(* The frame counter, for any updateInterval and any start of the clock.    *)
CONSTANTS updateInterval, Boot, MaxInterval
VARIABLES isEnable, isPaused, count, interval, app, report, missed, gap

F == INSTANCE FPS

FPSInv == F!TypeOK /\ F!CountedOrMissed /\ F!HonestRate

LEMMA FPSInit == F!IntervalAssumption /\ F!Init => FPSInv
BY DEF F!IntervalAssumption, F!Init, FPSInv, F!TypeOK, F!CountedOrMissed, F!HonestRate

(* A call counts a refresh, and the call that completes an interval reports  *)
(* all that were counted in it.                                             *)
LEMMA HandlerStep == F!IntervalAssumption /\ FPSInv /\ F!DisplayLinkHandler => FPSInv'
<1> SUFFICES ASSUME F!IntervalAssumption, FPSInv, F!DisplayLinkHandler PROVE FPSInv'
  OBVIOUS
<1> USE DEF F!IntervalAssumption
<1> USE DEF FPSInv, F!TypeOK, F!CountedOrMissed, F!HonestRate, F!DisplayLinkHandler
<1>1. CASE interval + 1 >= updateInterval
  <2>1. report' = [count |-> count + 1, interval |-> interval + 1]
    BY <1>1
  <2>2. interval' = 0 /\ count' = 0 /\ gap' = missed /\ missed' = 0
    BY <1>1
  <2>3. UNCHANGED <<isEnable, isPaused, app>>
    BY <1>1
  <2> QED
    BY <2>1, <2>2, <2>3
<1>2. CASE interval + 1 < updateInterval
  <2>1. count' = count + 1 /\ interval' = interval + 1
    BY <1>2
  <2>2. UNCHANGED <<isEnable, isPaused, app, report, missed, gap>>
    BY <1>2
  <2> QED
    BY <1>2, <2>1, <2>2
<1> QED
  BY <1>1, <1>2

LEMMA MissStep == FPSInv /\ F!Miss => FPSInv'
BY DEF FPSInv, F!TypeOK, F!CountedOrMissed, F!HonestRate, F!Miss

LEMMA SwitchStep ==
  FPSInv /\ (F!SetEnable \/ F!Open \/ F!Close \/ F!WillResignActive \/ F!DidBecomeActive \/ F!Suspend)
    => FPSInv'
<1> USE DEF FPSInv, F!TypeOK, F!CountedOrMissed, F!HonestRate
<1>1. FPSInv /\ (F!SetEnable \/ F!Open \/ F!Close) => FPSInv'
  BY DEF F!SetEnable, F!Open, F!Close
<1>2. FPSInv /\ (F!WillResignActive \/ F!DidBecomeActive) => FPSInv'
  BY DEF F!WillResignActive, F!DidBecomeActive, F!Notified
<1>3. FPSInv /\ F!Suspend => FPSInv'
  BY DEF F!Suspend
<1> QED
  BY <1>1, <1>2, <1>3

(* The inductive invariant of the frame counter.                            *)
THEOREM FPSInvariant == ASSUME F!IntervalAssumption PROVE F!Spec => []FPSInv
<1>0. F!Init => FPSInv
  BY FPSInit
<1>1. FPSInv /\ UNCHANGED F!vars => FPSInv'
  BY DEF FPSInv, F!TypeOK, F!CountedOrMissed, F!HonestRate, F!vars
<1>2. FPSInv /\ [F!Next]_F!vars => FPSInv'
  BY <1>1, HandlerStep, MissStep, SwitchStep DEF F!Next
<1> QED
  BY <1>0, <1>2, PTL DEF F!Spec

(* The variables keep their types; in particular the count stays below the   *)
(* update interval.                                                         *)
THEOREM FPSTypeCorrect == ASSUME F!IntervalAssumption PROVE F!Spec => []F!TypeOK
<1>1. FPSInv => F!TypeOK
  BY DEF FPSInv
<1> QED
  BY FPSInvariant, <1>1, PTL

(* No refresh is counted twice, and none is lost but the missed ones.        *)
THEOREM EveryRefreshOnce == ASSUME F!IntervalAssumption PROVE F!Spec => []F!CountedOrMissed
<1>1. FPSInv => F!CountedOrMissed
  BY DEF FPSInv
<1> QED
  BY FPSInvariant, <1>1, PTL

(* No report exceeds the rate of the display.                               *)
THEOREM RatesAreHonest == ASSUME F!IntervalAssumption PROVE F!Spec => []F!HonestRate
<1>1. FPSInv => F!HonestRate
  BY DEF FPSInv
<1> QED
  BY FPSInvariant, <1>1, PTL

-----------------------------------------------------------------------------
(* The floating view, for every screen and size of the view.                *)
CONSTANTS screenW, screenH, Half, Radius, topMinMargin, bottomMinMargin, leftMinMargin,
  rightMinMargin, InitialX, InitialY, Offsets
VARIABLES center, beginPoint, touching, landscape, handled, loose, rotated

H == INSTANCE HoverView

InPlace(p) == p = H!Initial \/ <<p.x, p.y>> \in H!Places

(* A touch begins and goes on where the screen is, and it began in place     *)
(* unless the view was left elsewhere before.                               *)
Held ==
  touching => H!OnScreen(center) /\ (~loose => InPlace(beginPoint))

Upright == ~rotated => ~landscape

ScreenHypotheses == H!LengthsAssumption /\ H!ScreenAssumption

HoverInv == ScreenHypotheses /\ H!TypeOK /\ Upright /\ H!Reachable /\ Held /\ H!RestsInPlace

(* correctLocation takes any point between the margins of the screen.       *)
LEMMA Corrected ==
  ASSUME ScreenHypotheses, NEW p \in [x : Int, y : Int]
  PROVE  /\ <<H!correctLocation(p).x, H!correctLocation(p).y>> \in H!Places
         /\ H!correctLocation(p) \in [x : 0..screenW, y : 0..screenH]
<1> USE DEF ScreenHypotheses, H!LengthsAssumption, H!ScreenAssumption
<1> USE DEF H!correctLocation, H!Side, H!Between, H!left, H!right, H!top, H!bottom
<1>1. H!left \in 0..screenW /\ H!right \in 0..screenW
  OBVIOUS
<1>2. H!top \in 0..screenH /\ H!bottom \in 0..screenH /\ H!top <= H!bottom
  OBVIOUS
<1>3. H!Between(p.y) \in H!top..H!bottom
  BY <1>2
<1>4. H!Side(p.x) \in {H!left, H!right}
  OBVIOUS
<1> HIDE DEF H!Side, H!Between, H!left, H!right, H!top, H!bottom
<1>5. H!Between(p.y) \in 0..screenH
  BY <1>2, <1>3
<1> QED
  BY <1>1, <1>3, <1>4, <1>5 DEF H!Places

(* Every point of the upright screen is within reach of a finger.           *)
LEMMA UprightReach ==
  ASSUME ScreenHypotheses, NEW p \in [x : 0..screenW, y : 0..screenH]
  PROVE  p \in H!Point /\ (~landscape => H!OnScreen(p))
<1> USE DEF ScreenHypotheses, H!LengthsAssumption
<1>1. p.x \in Int /\ p.y \in Int /\ 0 <= p.x /\ p.x <= screenW /\ 0 <= p.y /\ p.y <= screenH
  OBVIOUS
<1>2. p.x \in H!Extent /\ p.y \in H!Extent
  BY <1>1 DEF H!Extent, H!Longer
<1>3. p = [x |-> p.x, y |-> p.y]
  OBVIOUS
<1>4. p \in H!Point
  BY <1>2, <1>3 DEF H!Point
<1>5. ~landscape => H!OnScreen(p)
  BY <1>1 DEF H!OnScreen, H!Width, H!Height
<1> QED
  BY <1>4, <1>5

(* A point a finger can hold is one of the points.                          *)
LEMMA ReachPoint ==
  ASSUME ScreenHypotheses, NEW p \in [x : Int, y : Int], H!OnScreen(p)
  PROVE  p \in H!Point
<1> USE DEF ScreenHypotheses, H!LengthsAssumption
<1>1. p.x \in H!Extent /\ p.y \in H!Extent
  BY DEF H!OnScreen, H!Width, H!Height, H!Extent, H!Longer
<1>2. p = [x |-> p.x, y |-> p.y]
  OBVIOUS
<1> QED
  BY <1>1, <1>2 DEF H!Point

LEMMA PointIsInt == ScreenHypotheses => H!Point \subseteq [x : Int, y : Int]
BY DEF ScreenHypotheses, H!LengthsAssumption, H!Point, H!Extent, H!Longer

LEMMA HoverInit == ScreenHypotheses /\ H!Init => HoverInv
<1> SUFFICES ASSUME ScreenHypotheses, H!Init PROVE HoverInv
  OBVIOUS
<1> USE DEF ScreenHypotheses, H!LengthsAssumption
<1>1. center \in H!Point /\ H!OnScreen(center)
  BY DEF H!Init, H!Initial, H!Point, H!Extent, H!Longer, H!OnScreen, H!Width, H!Height
<1>2. beginPoint \in H!Point
  BY DEF H!Init, H!Point, H!Extent, H!Longer
<1>3. H!TypeOK
  BY <1>1, <1>2 DEF H!Init, H!TypeOK
<1> QED
  BY <1>1, <1>3 DEF H!Init, HoverInv, Upright, H!Reachable, Held, H!RestsInPlace

LEMMA BeganStep == HoverInv /\ H!TouchesBegan => HoverInv'
<1> SUFFICES ASSUME HoverInv, H!TouchesBegan PROVE HoverInv'
  OBVIOUS
<1> USE DEF HoverInv, H!TouchesBegan
<1>1. H!TypeOK'
  BY DEF H!TypeOK
<1>2. Upright' /\ H!Reachable'
  BY DEF Upright, H!Reachable, H!OnScreen, H!Width, H!Height
<1>3. Held'
  BY DEF Held, H!RestsInPlace, InPlace, H!OnScreen, H!Width, H!Height
<1> QED
  BY <1>1, <1>2, <1>3 DEF H!RestsInPlace

LEMMA MovedStep == HoverInv /\ H!TouchesMoved => HoverInv'
<1> SUFFICES ASSUME HoverInv, H!TouchesMoved PROVE HoverInv'
  OBVIOUS
<1> USE DEF HoverInv, H!TouchesMoved
<1>1. PICK d \in Offsets : H!OnScreen(H!Plus(center, d)) /\ center' = H!Plus(center, d)
  OBVIOUS
<1>2. center' \in [x : Int, y : Int]
  BY <1>1, PointIsInt DEF ScreenHypotheses, H!LengthsAssumption, H!TypeOK, H!Plus
<1>3. center' \in H!Point /\ H!OnScreen(center')
  BY <1>1, <1>2, ReachPoint
<1>4. H!TypeOK'
  BY <1>3 DEF H!TypeOK
<1>5. Upright' /\ H!Reachable' /\ Held'
  BY <1>3 DEF Upright, H!Reachable, Held, InPlace, H!OnScreen, H!Width, H!Height
<1> QED
  BY <1>4, <1>5 DEF H!RestsInPlace

LEMMA EndedStep == HoverInv /\ H!TouchesEnded => HoverInv'
<1> SUFFICES ASSUME HoverInv, H!TouchesEnded PROVE HoverInv'
  OBVIOUS
<1> USE DEF HoverInv, H!TouchesEnded
<1>1. /\ touching /\ ~touching' /\ UNCHANGED <<beginPoint, landscape, rotated>>
      /\ \/ handled' = TRUE /\ center' = center /\ loose' = (loose \/ center # beginPoint)
         \/ center' = H!correctLocation(center) /\ loose' = FALSE /\ handled' = handled
  BY DEF H!TypeOK
<1>2. CASE handled' = TRUE /\ center' = center /\ loose' = (loose \/ center # beginPoint)
  <2>1. H!TypeOK'
    BY <1>1, <1>2 DEF H!TypeOK
  <2>2. Upright' /\ H!Reachable' /\ Held'
    BY <1>1, <1>2 DEF Upright, H!Reachable, Held, H!OnScreen, H!Width, H!Height
  <2>3. H!RestsInPlace'
    BY <1>1, <1>2 DEF Held, InPlace, H!RestsInPlace, H!Places, H!Initial
  <2> QED
    BY <2>1, <2>2, <2>3
<1>3. CASE center' = H!correctLocation(center) /\ loose' = FALSE /\ handled' = handled
  <2>1. center \in [x : Int, y : Int]
    BY PointIsInt DEF H!TypeOK
  <2>2. <<center'.x, center'.y>> \in H!Places /\ center' \in H!Point /\ (~landscape => H!OnScreen(center'))
    BY <1>3, <2>1, Corrected, UprightReach
  <2>3. H!TypeOK'
    BY <1>1, <1>3, <2>2 DEF H!TypeOK
  <2>4. Upright' /\ H!Reachable' /\ Held'
    BY <1>1, <1>3, <2>2 DEF Upright, H!Reachable, Held, H!OnScreen, H!Width, H!Height
  <2>5. H!RestsInPlace'
    BY <2>2 DEF H!RestsInPlace, H!Places, H!left, H!right, H!top, H!bottom
  <2> QED
    BY <2>3, <2>4, <2>5
<1> QED
  BY <1>1, <1>2, <1>3

LEMMA CancelledStep == HoverInv /\ H!TouchesCancelled => HoverInv'
<1> SUFFICES ASSUME HoverInv, H!TouchesCancelled PROVE HoverInv'
  OBVIOUS
<1> USE DEF HoverInv, H!TouchesCancelled
<1>1. H!TypeOK'
  BY DEF H!TypeOK
<1>2. Upright' /\ H!Reachable' /\ Held'
  BY DEF Upright, H!Reachable, Held, H!OnScreen, H!Width, H!Height
<1>3. H!RestsInPlace'
  BY DEF Held, InPlace, H!RestsInPlace, H!Places, H!Initial
<1> QED
  BY <1>1, <1>2, <1>3

LEMMA RotateStep == HoverInv /\ H!Rotate => HoverInv'
<1> SUFFICES ASSUME HoverInv, H!Rotate PROVE HoverInv'
  OBVIOUS
<1> USE DEF HoverInv, H!Rotate
<1>1. H!TypeOK'
  BY DEF H!TypeOK
<1> QED
  BY <1>1 DEF Upright, H!Reachable, Held, H!RestsInPlace

(* The inductive invariant of the touches. *)
THEOREM HoverInvariant == ASSUME ScreenHypotheses PROVE H!Spec => []HoverInv
<1>0. H!Init => HoverInv
  BY HoverInit
<1>1. HoverInv /\ UNCHANGED H!vars => HoverInv'
  BY DEF HoverInv, H!vars, H!TypeOK, Upright, H!Reachable, Held, H!RestsInPlace, InPlace,
         H!OnScreen, H!Width, H!Height, H!Places, H!Initial
<1>2. HoverInv /\ [H!Next]_H!vars => HoverInv'
  BY <1>1, BeganStep, MovedStep, EndedStep, CancelledStep, RotateStep DEF H!Next
<1> QED
  BY <1>0, <1>2, PTL DEF H!Spec

(* The centre stays where a finger can take it, on any screen.              *)
THEOREM HoverTypeCorrect == ASSUME ScreenHypotheses PROVE H!Spec => []H!TypeOK
<1>1. HoverInv => H!TypeOK
  BY DEF HoverInv
<1> QED
  BY HoverInvariant, <1>1, PTL

(* At rest the view is at a side between the margins, unless it was never    *)
(* moved or a touch was cut short.                                          *)
THEOREM RestIsInPlace == ASSUME ScreenHypotheses PROVE H!Spec => []H!RestsInPlace
<1>1. HoverInv => H!RestsInPlace
  BY DEF HoverInv
<1> QED
  BY HoverInvariant, <1>1, PTL

(* On a screen that is not turned the view never gets out of reach.          *)
THEOREM AlwaysReachable == ASSUME ScreenHypotheses PROVE H!Spec => []H!Reachable
<1>1. HoverInv => H!Reachable
  BY DEF HoverInv
<1> QED
  BY HoverInvariant, <1>1, PTL

(* correctLocation takes the nearer side, because the margins are alike.     *)
LEMMA NearerSide ==
  ASSUME ScreenHypotheses, NEW p \in H!Point, NEW x \in {H!left, H!right}
  PROVE  H!Distance(p.x, H!correctLocation(p).x) <= H!Distance(p.x, x)
<1> USE DEF ScreenHypotheses, H!LengthsAssumption, H!ScreenAssumption
<1>1. p.x \in Int
  BY PointIsInt
<1>2. H!left \in Int /\ H!right \in Int /\ H!left + H!right = screenW /\ H!left <= H!right
  BY DEF H!left, H!right
<1>3. H!correctLocation(p).x = IF 2 * p.x > screenW THEN H!right ELSE H!left
  BY DEF H!correctLocation, H!Side
<1> HIDE DEF H!left, H!right
<1> QED
  BY <1>1, <1>2, <1>3 DEF H!Distance

(* A drag takes the view to the nearer side.                                *)
THEOREM NearerSideAlways == ASSUME ScreenHypotheses PROVE H!Spec => H!SnapsToNearerSide
<1>1. HoverInv /\ [H!Next]_H!vars =>
        [touching /\ ~touching' /\ ~handled' /\ center' # center =>
           \A x \in {H!left, H!right} : H!Distance(center.x, center'.x) <= H!Distance(center.x, x)]_H!vars
  <2> SUFFICES ASSUME HoverInv, [H!Next]_H!vars,
                      touching, ~touching', ~handled', center' # center,
                      NEW x \in {H!left, H!right}
               PROVE  H!Distance(center.x, center'.x) <= H!Distance(center.x, x)
    OBVIOUS
  <2>1. H!TouchesEnded
    BY DEF H!Next, H!TouchesBegan, H!TouchesMoved, H!TouchesCancelled, H!Rotate, H!vars
  <2>2. center' = H!correctLocation(center)
    BY <2>1 DEF H!TouchesEnded
  <2>3. center \in H!Point
    BY DEF HoverInv, H!TypeOK
  <2> QED
    BY <2>2, <2>3, NearerSide
<1> QED
  BY HoverInvariant, <1>1, PTL DEF H!Spec, H!SnapsToNearerSide

-----------------------------------------------------------------------------
(* The buttons of the navigation bar, up to a hundred of them in one call.  *)
CONSTANTS Handlers, NoHandler, MaxAdded, MaxButtons
VARIABLES buttons, handler, hide, told, careless

N == INSTANCE NavigationBar

(* A button has the tag of its side and its index, and its side a handler.   *)
WellTagged ==
  \A i \in DOMAIN buttons :
    /\ buttons[i].tag = N!Tag(buttons[i].side, buttons[i].index)
    /\ handler[buttons[i].side] \in Handlers

(* A side with which callers were careful has a first and a second button at *)
(* most.                                                                    *)
Careful ==
  \A side \in N!Sides \ careless : \A i, j \in N!Of(side) :
    /\ buttons[i].index \in {0, 1}
    /\ buttons[i].index = buttons[j].index => i = j

NavInv == N!AddedAssumption /\ N!TypeOK /\ WellTagged /\ Careful /\ N!HiddenTogether

-----------------------------------------------------------------------------
(* Tags.                                                                    *)

Indices == 0..(MaxAdded - 1)

LEMMA IndicesAreSmall == N!AddedAssumption => \A n \in Indices : n \in 0..99
BY DEF N!AddedAssumption, Indices

(* The tags of the left side are those from 800, of the right those from 900, *)
(* so that a tag tells the side and the index.                               *)
LEMMA TagValue ==
  ASSUME NEW s \in N!Sides, NEW m \in 0..99
  PROVE  \/ s = "left" /\ N!Tag(s, m) = 800 + m
         \/ s = "right" /\ N!Tag(s, m) = 900 + m
<1>1. N!k_tag["left"] = 800 /\ N!k_tag["right"] = 900
  BY DEF N!k_tag
<1> QED
  BY <1>1 DEF N!Tag, N!Sides

LEMMA WhoAnswers ==
  ASSUME NEW s \in N!Sides, NEW n \in 0..99
  PROVE  /\ n \in {0, 1} => N!Answering(N!Tag(s, n)) = {<<s, n>>}
         /\ n \notin {0, 1} => N!Answering(N!Tag(s, n)) = {}
<1>1. ASSUME NEW r \in N!Answering(N!Tag(s, n)) PROVE r = <<s, n>> /\ n \in {0, 1}
  <2>1. PICK t \in N!Sides, m \in {0, 1} : r = <<t, m>> /\ N!Tag(t, m) = N!Tag(s, n)
    BY DEF N!Answering
  <2>2. m \in 0..99
    BY <2>1
  <2>3. \/ t = "left" /\ N!Tag(t, m) = 800 + m
        \/ t = "right" /\ N!Tag(t, m) = 900 + m
    BY <2>2, TagValue
  <2>4. \/ s = "left" /\ N!Tag(s, n) = 800 + n
        \/ s = "right" /\ N!Tag(s, n) = 900 + n
    BY TagValue
  <2>5. t = s /\ m = n
    BY <2>1, <2>2, <2>3, <2>4
  <2> QED
    BY <2>1, <2>5
<1>2. ASSUME n \in {0, 1} PROVE <<s, n>> \in N!Answering(N!Tag(s, n))
  BY <1>2 DEF N!Answering
<1> QED
  BY <1>1, <1>2

-----------------------------------------------------------------------------
LEMMA NavInit == N!AddedAssumption /\ N!Init => NavInv
<1> SUFFICES ASSUME N!AddedAssumption, N!Init PROVE NavInv
  OBVIOUS
<1>1. buttons = << >> /\ buttons \in Seq(N!Button) /\ Len(buttons) = 0
  BY EmptySeq DEF N!Init
<1>2. DOMAIN buttons = {}
  BY <1>1
<1>3. \A side \in N!Sides : N!Of(side) = {}
  BY <1>2 DEF N!Of
<1>4. N!TypeOK
  BY <1>1 DEF N!Init, N!TypeOK
<1>5. WellTagged /\ Careful /\ N!HiddenTogether
  BY <1>2, <1>3 DEF WellTagged, Careful, N!HiddenTogether
<1> QED
  BY <1>4, <1>5 DEF NavInv

(* The buttons of a bar, one by one.                                        *)
LEMMA Each ==
  ASSUME N!TypeOK
  PROVE  /\ Len(buttons) \in Nat
         /\ DOMAIN buttons = 1..Len(buttons)
         /\ \A i \in DOMAIN buttons :
              /\ buttons[i] \in N!Button
              /\ buttons[i].side \in N!Sides
              /\ buttons[i].index \in Indices
              /\ buttons[i].hidden \in BOOLEAN
<1>1. buttons \in Seq(N!Button)
  BY DEF N!TypeOK
<1>2. \A i \in 1..Len(buttons) : buttons[i] \in N!Button
  BY <1>1, ElementOfSeq
<1>3. Len(buttons) \in Nat /\ DOMAIN buttons = 1..Len(buttons)
  BY <1>1, LenProperties
<1> QED
  BY <1>2, <1>3 DEF N!Button, Indices

-----------------------------------------------------------------------------
(* Adding buttons.                                                          *)

LEMMA NewButtons ==
  ASSUME N!AddedAssumption, NEW side \in N!Sides, NEW n \in 0..MaxAdded
  PROVE  [i \in 1..n |-> N!NewButton(side, i - 1)] \in Seq(N!Button)
<1>1. n \in Nat /\ \A i \in 1..n : i - 1 \in 0..(MaxAdded - 1)
  BY DEF N!AddedAssumption
<1>2. \A i \in 1..n : N!NewButton(side, i - 1) \in N!Button
  BY <1>1 DEF N!NewButton, N!Button, N!Tags
<1>3. [i \in 1..n |-> N!NewButton(side, i - 1)] \in [1..n -> N!Button]
  BY <1>2
<1> QED
  BY <1>1, <1>3, SeqDef

LEMMA Appending ==
  ASSUME N!AddedAssumption, N!TypeOK, NEW side \in N!Sides, NEW n \in 0..MaxAdded,
         buttons' = buttons \o [i \in 1..n |-> N!NewButton(side, i - 1)]
  PROVE  /\ buttons' \in Seq(N!Button)
         /\ Len(buttons') = Len(buttons) + n
         /\ DOMAIN buttons' = 1..(Len(buttons) + n)
         /\ \A i \in 1..Len(buttons) : buttons'[i] = buttons[i]
         /\ \A i \in DOMAIN buttons' : i \notin DOMAIN buttons =>
              buttons'[i] = N!NewButton(side, i - Len(buttons) - 1)
<1> DEFINE new == [i \in 1..n |-> N!NewButton(side, i - 1)]
<1>1. buttons \in Seq(N!Button) /\ new \in Seq(N!Button)
  BY NewButtons DEF N!TypeOK
<1>2. n \in Nat /\ Len(new) = n /\ Len(buttons) \in Nat /\ DOMAIN buttons = 1..Len(buttons)
  BY Each DEF N!AddedAssumption
<1> HIDE DEF new
<1>3. /\ buttons' \in Seq(N!Button)
      /\ Len(buttons') = Len(buttons) + n
      /\ \A i \in 1..(Len(buttons) + n) :
           buttons'[i] = IF i <= Len(buttons) THEN buttons[i] ELSE new[i - Len(buttons)]
  BY <1>1, <1>2, ConcatProperties DEF new
<1>4. DOMAIN buttons' = 1..(Len(buttons) + n)
  BY <1>3, LenProperties
<1>5. \A i \in 1..Len(buttons) : buttons'[i] = buttons[i]
  BY <1>2, <1>3
<1>6. ASSUME NEW i \in DOMAIN buttons', i \notin DOMAIN buttons
      PROVE  buttons'[i] = N!NewButton(side, i - Len(buttons) - 1)
  <2>1. i - Len(buttons) \in 1..n /\ ~(i <= Len(buttons))
    BY <1>2, <1>4, <1>6
  <2>2. buttons'[i] = new[i - Len(buttons)]
    BY <1>3, <1>4, <2>1
  <2> QED
    BY <2>1, <2>2 DEF new
<1> QED
  BY <1>3, <1>4, <1>5, <1>6

LEMMA AddStep ==
  NavInv => \A side \in N!Sides, n \in 0..MaxAdded, h \in Handlers :
              N!AddNavButtons(side, n, h) => NavInv'
<1> SUFFICES ASSUME NavInv, NEW side \in N!Sides, NEW n \in 0..MaxAdded, NEW h \in Handlers,
                    N!AddNavButtons(side, n, h)
             PROVE  NavInv'
  OBVIOUS
<1>0. N!AddedAssumption /\ N!TypeOK /\ WellTagged /\ Careful /\ N!HiddenTogether
  BY DEF NavInv
<1>1. /\ UNCHANGED <<hide, told>>
      /\ handler' = [handler EXCEPT ![side] = h]
      /\ buttons' = buttons \o [i \in 1..n |-> N!NewButton(side, i - 1)]
  BY DEF N!AddNavButtons
<1>2. /\ buttons' \in Seq(N!Button)
      /\ Len(buttons') = Len(buttons) + n
      /\ DOMAIN buttons' = 1..(Len(buttons) + n)
      /\ \A i \in 1..Len(buttons) : buttons'[i] = buttons[i]
      /\ \A i \in DOMAIN buttons' : i \notin DOMAIN buttons =>
           buttons'[i] = N!NewButton(side, i - Len(buttons) - 1)
  BY <1>0, <1>1, Appending
<1>3. n \in Nat /\ Len(buttons) \in Nat /\ DOMAIN buttons = 1..Len(buttons)
  BY <1>0, Each DEF N!AddedAssumption
<1>4. \A i \in DOMAIN buttons : i \in DOMAIN buttons' /\ buttons'[i] = buttons[i]
  BY <1>2, <1>3
<1>5. \A i \in DOMAIN buttons' : i \notin DOMAIN buttons =>
        /\ i - Len(buttons) - 1 \in 0..(n - 1)
        /\ buttons'[i].side = side
        /\ buttons'[i].index = i - Len(buttons) - 1
        /\ buttons'[i].tag = N!Tag(side, i - Len(buttons) - 1)
        /\ buttons'[i].hidden = FALSE
  BY <1>2, <1>3 DEF N!NewButton
<1>6. N!TypeOK'
  <2>1. handler' \in [N!Sides -> Handlers \cup {NoHandler}]
    BY <1>0, <1>1 DEF N!TypeOK
  <2>3. careless' \subseteq N!Sides
    BY <1>0 DEF N!AddNavButtons, N!TypeOK
  <2>4. hide' \in [N!Sides -> BOOLEAN]
    BY <1>0, <1>1 DEF N!TypeOK
  <2> QED
    BY <1>2, <2>1, <2>3, <2>4 DEF N!TypeOK
<1>7. WellTagged'
  <2>1. handler'[side] \in Handlers
    BY <1>0, <1>1 DEF N!TypeOK
  <2>2. \A i \in DOMAIN buttons : handler'[buttons[i].side] \in Handlers
    BY <1>0, <1>1, Each DEF N!TypeOK, WellTagged
  <2>3. ASSUME NEW i \in DOMAIN buttons'
        PROVE  /\ buttons'[i].tag = N!Tag(buttons'[i].side, buttons'[i].index)
               /\ handler'[buttons'[i].side] \in Handlers
    <3>1. CASE i \in DOMAIN buttons
      BY <1>0, <1>4, <2>2, <3>1 DEF WellTagged
    <3>2. CASE i \notin DOMAIN buttons
      BY <1>5, <2>1, <3>2
    <3> QED
      BY <3>1, <3>2
  <2> QED
    BY <2>3 DEF WellTagged, N!Tag
<1>9. /\ careless \subseteq careless'
      /\ side \notin careless' => n <= 2 /\ ~hide[side] /\ N!Of(side) = {}
  BY DEF N!AddNavButtons
<1>10. /\ \A s \in N!Sides : s # side => N!Of(s)' = N!Of(s)
       /\ N!Of(side) = {} => \A i \in N!Of(side)' : i \in DOMAIN buttons' /\ i \notin DOMAIN buttons
  BY <1>4, <1>5 DEF N!Of
<1>11. Careful' /\ N!HiddenTogether'
  <2>1. ASSUME NEW s \in N!Sides, s \notin careless', NEW i \in N!Of(s)'
        PROVE  /\ buttons'[i].hidden = hide'[s]
               /\ buttons'[i].index \in {0, 1}
               /\ \A j \in N!Of(s)' : buttons'[i].index = buttons'[j].index => i = j
    <3>1. CASE s # side
      <4>1. s \in N!Sides \ careless /\ N!Of(s)' = N!Of(s) /\ i \in N!Of(s)
        BY <1>9, <1>10, <2>1, <3>1
      <4>2. \A j \in N!Of(s) : buttons'[j] = buttons[j]
        BY <1>4 DEF N!Of
      <4>3. buttons[i].hidden = hide[s]
        BY <1>0, <4>1 DEF N!HiddenTogether
      <4>4. /\ buttons[i].index \in {0, 1}
            /\ \A j \in N!Of(s) : buttons[i].index = buttons[j].index => i = j
        BY <1>0, <4>1 DEF Careful
      <4>5. buttons'[i].hidden = hide'[s]
        BY <1>1, <4>1, <4>2, <4>3
      <4>6. \A j \in N!Of(s)' : buttons'[i].index = buttons'[j].index => i = j
        BY <4>1, <4>2, <4>4
      <4> QED
        BY <4>1, <4>2, <4>4, <4>5, <4>6
    <3>2. CASE s = side
      <4>1. side \notin careless'
        BY <2>1, <3>2
      <4>2. n <= 2 /\ ~hide[side] /\ N!Of(side) = {}
        BY <1>9, <4>1
      <4>3. hide'[s] = FALSE
        BY <1>0, <1>1, <3>2, <4>2 DEF N!TypeOK
      <4>4. \A j \in N!Of(s)' : j \in DOMAIN buttons' /\ j \notin DOMAIN buttons
        BY <1>10, <3>2, <4>2
      <4>5. \A j \in N!Of(s)' : /\ j \in Nat
                              /\ buttons'[j].index = j - Len(buttons) - 1
                              /\ j - Len(buttons) - 1 \in 0..(n - 1)
                              /\ buttons'[j].hidden = FALSE
        BY <1>2, <1>3, <1>5, <4>4
      <4>6. buttons'[i].hidden = hide'[s]
        BY <2>1, <4>3, <4>5
      <4>7. buttons'[i].index \in {0, 1}
        BY <1>3, <2>1, <4>2, <4>5
      <4>8. ASSUME NEW j \in N!Of(s)', buttons'[i].index = buttons'[j].index PROVE i = j
        BY <1>3, <2>1, <4>5, <4>8
      <4> QED
        BY <4>6, <4>7, <4>8
    <3> QED
      BY <3>1, <3>2
  <2>2. Careful'
    BY <2>1 DEF Careful
  <2>3. N!HiddenTogether'
    BY <2>1 DEF N!HiddenTogether
  <2> QED
    BY <2>2, <2>3
<1> QED
  BY <1>6, <1>7, <1>11 DEF NavInv

-----------------------------------------------------------------------------
(* Hiding.                                                                  *)

(* Hiding a side touches no button of the other, and with a careful side    *)
(* finds all there are.                                                     *)
LEMMA FindsTheSide ==
  ASSUME NavInv, NEW side \in N!Sides
  PROVE  /\ N!Found(side) \subseteq N!Of(side)
         /\ side \notin careless => N!Of(side) = N!Found(side)
<1>0. N!AddedAssumption /\ N!TypeOK /\ WellTagged /\ Careful
  BY DEF NavInv
<1>1. ASSUME NEW i \in DOMAIN buttons, NEW m \in {0, 1}, buttons[i].tag = N!Tag(side, m)
      PROVE  i \in N!Of(side) /\ buttons[i].index = m
  <2>1. buttons[i].side \in N!Sides /\ buttons[i].index \in 0..99
    BY <1>0, Each, IndicesAreSmall
  <2>2. m \in 0..99
    OBVIOUS
  <2>3. N!Tag(buttons[i].side, buttons[i].index) = N!Tag(side, m)
    BY <1>0, <1>1 DEF WellTagged
  <2>4. \/ buttons[i].side = "left" /\ buttons[i].tag = 800 + buttons[i].index
        \/ buttons[i].side = "right" /\ buttons[i].tag = 900 + buttons[i].index
    BY <1>1, <2>1, <2>3, TagValue
  <2>5. \/ side = "left" /\ N!Tag(side, m) = 800 + m
        \/ side = "right" /\ N!Tag(side, m) = 900 + m
    BY <2>2, TagValue
  <2>6. buttons[i].side = side /\ buttons[i].index = m
    BY <1>1, <2>1, <2>2, <2>4, <2>5
  <2> QED
    BY <1>1, <2>6 DEF N!Of
<1>2. N!Found(side) \subseteq N!Of(side)
  BY <1>1 DEF N!Found, N!ViewWithTag
<1>3. ASSUME side \notin careless, NEW i \in N!Of(side) PROVE i \in N!Found(side)
  <2>1. i \in DOMAIN buttons /\ buttons[i].side = side
    BY DEF N!Of
  <2>2. buttons[i].index \in {0, 1} /\ buttons[i].tag = N!Tag(side, buttons[i].index)
    BY <1>0, <1>3, <2>1 DEF Careful, WellTagged
  <2>3. ASSUME NEW j \in 1..(i - 1), buttons[j].tag = N!Tag(side, buttons[i].index)
        PROVE  FALSE
    <3>1. i \in 1..Len(buttons) /\ Len(buttons) \in Nat /\ DOMAIN buttons = 1..Len(buttons)
      BY <1>0, <2>1, Each
    <3>2. j \in DOMAIN buttons /\ j # i
      BY <3>1
    <3>3. j \in N!Of(side) /\ buttons[j].index = buttons[i].index
      BY <1>1, <2>2, <2>3, <3>2
    <3> QED
      BY <1>0, <1>3, <3>2, <3>3 DEF Careful
  <2>4. i \in N!ViewWithTag(N!Tag(side, buttons[i].index))
    BY <2>1, <2>2, <2>3 DEF N!ViewWithTag
  <2> QED
    BY <2>2, <2>4 DEF N!Found
<1> QED
  BY <1>2, <1>3

LEMMA SetHideStep ==
  NavInv => \A side \in N!Sides, b \in BOOLEAN : N!SetHideNavButton(side, b) => NavInv'
<1> SUFFICES ASSUME NavInv, NEW side \in N!Sides, NEW b \in BOOLEAN, N!SetHideNavButton(side, b)
             PROVE  NavInv'
  OBVIOUS
<1>0. N!AddedAssumption /\ N!TypeOK /\ WellTagged /\ Careful /\ N!HiddenTogether
  BY DEF NavInv
<1>1. /\ UNCHANGED <<handler, told, careless>>
      /\ hide' = [hide EXCEPT ![side] = b]
      /\ buttons' = [i \in DOMAIN buttons |->
                       IF i \in N!Found(side) THEN [buttons[i] EXCEPT !.hidden = b] ELSE buttons[i]]
  BY DEF N!SetHideNavButton
<1>2. /\ Len(buttons) \in Nat
      /\ DOMAIN buttons = 1..Len(buttons)
      /\ \A i \in DOMAIN buttons : buttons[i] \in N!Button
  BY <1>0, Each
<1>3. DOMAIN buttons' = DOMAIN buttons
  BY <1>1
<1>4. ASSUME NEW i \in DOMAIN buttons
      PROVE  /\ buttons'[i] \in N!Button
             /\ buttons'[i].tag = buttons[i].tag
             /\ buttons'[i].side = buttons[i].side
             /\ buttons'[i].index = buttons[i].index
             /\ buttons'[i].hidden = IF i \in N!Found(side) THEN b ELSE buttons[i].hidden
  <2>1. buttons[i] \in [tag : N!Tags, hidden : BOOLEAN, side : N!Sides, index : 0..(MaxAdded - 1)]
    BY <1>2 DEF N!Button
  <2>2. CASE i \in N!Found(side)
    <3>1. buttons'[i] = [buttons[i] EXCEPT !.hidden = b]
      BY <1>1, <2>2
    <3> QED
      BY <2>1, <2>2, <3>1 DEF N!Button
  <2>3. CASE i \notin N!Found(side)
    BY <1>1, <1>2, <2>3
  <2> QED
    BY <2>2, <2>3
<1>5. buttons' \in Seq(N!Button) /\ Len(buttons') = Len(buttons)
  <2>1. buttons' \in [1..Len(buttons) -> N!Button]
    BY <1>1, <1>2, <1>4
  <2>2. buttons' \in Seq(N!Button)
    BY <1>2, <2>1, SeqDef
  <2> QED
    BY <1>2, <1>3, <2>2, LenProperties
<1>6. N!TypeOK'
  <2>1. hide' \in [N!Sides -> BOOLEAN]
    BY <1>0, <1>1 DEF N!TypeOK
  <2> QED
    BY <1>0, <1>1, <1>5, <2>1 DEF N!TypeOK
<1>7. WellTagged'
  BY <1>0, <1>1, <1>3, <1>4 DEF WellTagged, N!Tag
<1>8. \A s \in N!Sides : N!Of(s)' = N!Of(s)
  BY <1>3, <1>4 DEF N!Of
<1>9. Careful'
  <2>1. \A s \in N!Sides : \A i \in N!Of(s) : buttons'[i].index = buttons[i].index
    BY <1>4 DEF N!Of
  <2> QED
    BY <1>0, <1>1, <1>8, <2>1 DEF Careful
<1>11. N!HiddenTogether'
  <2> SUFFICES ASSUME NEW s \in N!Sides, s \notin careless, NEW i \in N!Of(s)
               PROVE  buttons'[i].hidden = hide'[s]
    BY <1>1, <1>8 DEF N!HiddenTogether
  <2>1. i \in DOMAIN buttons /\ buttons[i].side = s /\ buttons[i].hidden = hide[s]
    BY <1>0 DEF N!Of, N!HiddenTogether
  <2>2. hide \in [N!Sides -> BOOLEAN]
    BY <1>0 DEF N!TypeOK
  <2>3. CASE s = side
    <3>1. i \in N!Found(side)
      BY FindsTheSide, <2>3
    <3> QED
      BY <1>1, <1>4, <2>1, <2>2, <2>3, <3>1
  <2>4. CASE s # side
    <3>1. i \notin N!Found(side)
      BY FindsTheSide, <2>1, <2>4 DEF N!Of
    <3> QED
      BY <1>1, <1>4, <2>1, <2>2, <2>4, <3>1
  <2> QED
    BY <2>3, <2>4
<1> QED
  BY <1>6, <1>7, <1>9, <1>11 DEF NavInv

-----------------------------------------------------------------------------
(* Clicking.                                                                *)

LEMMA ClickStep == NavInv => \A i \in DOMAIN buttons : N!ButtonClick(i) => NavInv'
<1> SUFFICES ASSUME NavInv, NEW i \in DOMAIN buttons, N!ButtonClick(i)
             PROVE  NavInv'
  OBVIOUS
<1>1. UNCHANGED <<buttons, handler, hide, careless>>
  BY DEF N!ButtonClick
<1> QED
  BY <1>1 DEF NavInv, N!TypeOK, WellTagged, N!Tag, Careful, N!HiddenTogether, N!Of

(* What a click tells, and whom: the tag of the button has one answer at     *)
(* most, that of its side and index.                                        *)
LEMMA ClickTells ==
  ASSUME NavInv, NEW i \in DOMAIN buttons, N!ButtonClick(i)
  PROVE  IF buttons[i].index > 1 THEN told' = << >>
         ELSE /\ handler[buttons[i].side] \in Handlers
              /\ told' = <<handler[buttons[i].side], <<buttons[i].side, buttons[i].index>>>>
<1>0. N!AddedAssumption /\ N!TypeOK /\ WellTagged
  BY DEF NavInv
<1>1. told' = IF N!Answering(buttons[i].tag) = {} THEN << >>
              ELSE LET result == CHOOSE r \in N!Answering(buttons[i].tag) : TRUE
                   IN  <<handler[result[1]], result>>
  BY DEF N!ButtonClick
<1>2. \A k \in 0..99 : k \notin {0, 1} <=> k > 1
  OBVIOUS
<1> DEFINE side == buttons[i].side
           index == buttons[i].index
<1>3. side \in N!Sides /\ index \in 0..99
  BY <1>0, Each, IndicesAreSmall
<1>4. buttons[i].tag = N!Tag(side, index) /\ handler[side] \in Handlers
  BY <1>0 DEF WellTagged
<1>5. CASE index \notin {0, 1}
  <2>1. N!Answering(N!Tag(side, index)) = {}
    BY <1>3, <1>5, WhoAnswers
  <2>2. told' = << >> /\ index > 1
    BY <1>1, <1>2, <1>3, <1>4, <1>5, <2>1
  <2> QED
    BY <2>2
<1>6. CASE index \in {0, 1}
  <2>1. N!Answering(N!Tag(side, index)) = {<<side, index>>}
    BY <1>3, <1>6, WhoAnswers
  <2>2. /\ N!Answering(buttons[i].tag) # {}
        /\ (CHOOSE r \in N!Answering(buttons[i].tag) : TRUE) = <<side, index>>
    BY <1>4, <2>1
  <2>3. told' = <<handler[(CHOOSE r \in N!Answering(buttons[i].tag) : TRUE)[1]],
                  CHOOSE r \in N!Answering(buttons[i].tag) : TRUE>>
    BY <1>1, <2>2, Zenon
  <2>4. <<side, index>>[1] = side
    OBVIOUS
  <2>5. told' = <<handler[side], <<side, index>>>>
    BY <2>2, <2>3, <2>4, Zenon
  <2>6. ~(index > 1)
    BY <1>2, <1>3, <1>6
  <2> QED
    BY <1>4, <2>5, <2>6
<1> QED
  BY <1>5, <1>6

-----------------------------------------------------------------------------
THEOREM NavInvariant == ASSUME N!AddedAssumption PROVE N!Spec => []NavInv
<1>1. NavInv /\ [N!Next]_N!vars => NavInv'
  <2> SUFFICES ASSUME NavInv, [N!Next]_N!vars PROVE NavInv'
    OBVIOUS
  <2>1. CASE N!Next
    BY <2>1, AddStep, SetHideStep, ClickStep DEF N!Next
  <2>2. CASE UNCHANGED N!vars
    BY <2>2 DEF N!vars, NavInv, N!TypeOK, WellTagged, N!Tag, Careful, N!HiddenTogether, N!Of
  <2> QED
    BY <2>1, <2>2
<1>2. N!Init => NavInv
  BY NavInit
<1> QED
  BY <1>1, <1>2, PTL DEF N!Spec

(* The bar's variables keep their types.                                    *)
THEOREM NavTypeCorrect == ASSUME N!AddedAssumption PROVE N!Spec => []N!TypeOK
<1>1. NavInv => N!TypeOK
  BY DEF NavInv
<1> QED
  BY NavInvariant, <1>1, PTL

(* A click tells the handler of its side which button it was, for any number *)
(* of calls and up to a hundred buttons in each.                            *)
THEOREM TellsItsSideAlways == ASSUME N!AddedAssumption PROVE N!Spec => N!TellsItsSide
<1> DEFINE Tells ==
      \A i \in DOMAIN buttons :
        LET side == buttons[i].side
            index == buttons[i].index
        IN  N!ButtonClick(i) =>
              IF index > 1 THEN told' = << >>
              ELSE /\ handler[side] \in Handlers
                   /\ told' = <<handler[side], <<side, index>>>>
<1>1. NavInv /\ [N!Next]_N!vars => [Tells]_N!vars
  BY ClickTells
<1> QED
  BY NavInvariant, <1>1, PTL DEF N!Spec, N!TellsItsSide

(* With a careful side the flag says what is visible.                       *)
THEOREM HiddenTogetherAlways == ASSUME N!AddedAssumption PROVE N!Spec => []N!HiddenTogether
<1>1. NavInv => N!HiddenTogether
  BY DEF NavInv
<1> QED
  BY NavInvariant, <1>1, PTL
=============================================================================
