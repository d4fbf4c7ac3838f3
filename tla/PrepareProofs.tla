--------------------------- MODULE PrepareProofs ---------------------------
(***************************************************************************)
(* Phases 00 to 40, for every number of nodes, polls and blocks of disk    *)
(* and whatever goes wrong: what reads done is done, and phase 40 does not *)
(* write next to a step that was at work before it.                        *)
(***************************************************************************)
EXTENDS Prepare, TLAPS

-----------------------------------------------------------------------------
(* Types, the flags apart from the rest.                                   *)

Flags ==
  /\ record \in BOOLEAN /\ dfReads \in BOOLEAN /\ wso \in BOOLEAN
  /\ busy \in BOOLEAN /\ blind \in BOOLEAN

Stock ==
  /\ here \subseteq Checks
  /\ answers \in [Node -> BOOLEAN]
  /\ reports \in [Node -> {"right", "wrong", "missing"}]
  /\ home \in {"none", "part", "whole"} /\ assets \subseteq {"zip", "files"}
  /\ others \in 0..Room /\ images \in 0..2 /\ loads \in 0..Loads
  /\ troubles \in 0..Troubles

Place ==
  /\ pc \in Pcs /\ at \in 1..(Nodes + 1)
  /\ silent \subseteq Node /\ faulty \subseteq Node /\ polls \in 0..(Polls - 1)
  /\ mine \in {"none", "runs", "ok", "failed"}

Said == green \subseteq {0, 20, 30, 40} /\ told \subseteq Asks

Ranges == Stock /\ Place /\ Said

\* A flag stays a flag.
LEMMA FlagsNext ==
  ASSUME Flags, Next
  PROVE  Flags'
<1> USE DEF Flags, nodes, disk, bootstrap, walk, run
<1>1. CASE Start
  BY <1>1, Zenon DEF Start, Goes
<1>2. CASE Preflight
  BY <1>2, Zenon DEF Preflight, Done, Fails, Goes
<1>3. CASE CollectNode
  BY <1>3, Zenon DEF CollectNode, Answered, Unanswered, Trouble, Smooth,
     Problem, Collecting
<1>4. CASE Ask20
  BY <1>4, Zenon DEF Ask20, Done, Continues, Goes, Fit, Collected
<1>5. CASE Poll20
  BY <1>5, Zenon DEF Poll20, Continues, Fails, Goes, Collected
<1>6. CASE Check20
  BY <1>6, Zenon DEF Check20, Continues, Fails, Goes, Collected
<1>7. CASE Confirm20
  BY <1>7, Zenon DEF Confirm20, Done, Fails, Goes, Fit, Collected
<1>8. CASE Look30
  BY <1>8, Zenon DEF Look30, Look, Looking, Answered, Unanswered, Trouble,
     Smooth, Continues, Done, Fails, Goes
<1>9. CASE Ask40
  BY <1>9, Zenon DEF Ask40, Answered, Unanswered, Trouble, Smooth, Loaded,
     Done, Continues, Goes
<1>10. CASE Busy40
  BY <1>10, Zenon DEF Busy40, Answered, Unanswered, Trouble, Smooth, Fails,
     Continues, Goes
<1>11. CASE Mkdir40
  BY <1>11, Zenon DEF Mkdir40, StepOf40, Answered, Unanswered, Trouble,
     Smooth, Fails, Continues, Goes
<1>12. CASE Space40
  BY <1>12, Zenon DEF Space40, Df, Answered, Unanswered, Trouble, Smooth,
     Fails, Continues, Goes
<1>13. CASE Upload40
  BY <1>13, Zenon DEF Upload40, Answered, Unanswered, Trouble, Smooth, Fails,
     Continues, Goes
<1>14. CASE Move40
  BY <1>14, Zenon DEF Move40, StepOf40, Answered, Unanswered, Trouble, Smooth,
     Fails, Continues, Goes
<1>15. CASE Unzip40
  BY <1>15, Zenon DEF Unzip40, StepOf40, Answered, Unanswered, Trouble,
     Smooth, Fails, Continues, Goes
<1>16. CASE DiskFull40
  BY <1>16, Zenon DEF DiskFull40, Fails, Goes
<1>17. CASE Install40
  BY <1>17, Zenon DEF Install40, StepOf40, Answered, Unanswered, Trouble,
     Smooth, Fails, Continues, Goes
<1>18. CASE Version40
  BY <1>18, Zenon DEF Version40, StepOf40, Answered, Unanswered, Trouble,
     Smooth, Fails, Continues, Goes
<1>19. CASE Eula40
  BY <1>19, Zenon DEF Eula40, StepOf40, Answered, Unanswered, Trouble, Smooth,
     Fails, Continues, Goes
<1>20. CASE Configure40
  BY <1>20, Zenon DEF Configure40, Answered, Unanswered, Trouble, Smooth, Goes
<1>21. CASE Again40
  BY <1>21, Zenon DEF Again40, Answered, Unanswered, Trouble, Smooth, Goes
<1>22. CASE Return40
  BY <1>22, Zenon DEF Return40, Fails, Goes
<1>23. CASE Confirm40
  BY <1>23, Zenon DEF Confirm40, Answered, Unanswered, Trouble, Smooth,
     Loaded, Done, Fails, Goes
<1>24. CASE GiveUp40
  BY <1>24, Zenon DEF GiveUp40, Trouble, Smooth, LetGo
<1>25. CASE Abort
  BY <1>25, Zenon DEF Abort, Trouble, LetGo, Fails, Goes
<1>26. CASE Load
  BY <1>26, Zenon DEF Load
<1>27. CASE LoadEnds
  BY <1>27, Zenon DEF LoadEnds, Smooth, Trouble
<1>28. CASE BusyEnds
  BY <1>28, Zenon DEF BusyEnds
<1>29. CASE Boots
  BY <1>29, Zenon DEF Boots
<1>30. CASE Drops
  BY <1>30, Zenon DEF Drops, Trouble
<1>31. CASE FixChecks
  BY <1>31, Zenon DEF FixChecks
<1>32. CASE FixNodes
  BY <1>32, Zenon DEF FixNodes
<1>33. CASE FixRecord
  BY <1>33, Zenon DEF FixRecord
<1>34. CASE FreeSpace
  BY <1>34, Zenon DEF FreeSpace
<1>35. CASE BusyBegins
  BY <1>35, Zenon DEF BusyBegins, Trouble
<1> QED
  BY <1>1, <1>2, <1>3, <1>4, <1>5, <1>6, <1>7, <1>8, <1>9, <1>10, <1>11,
     <1>12, <1>13, <1>14, <1>15, <1>16, <1>17, <1>18, <1>19, <1>20, <1>21,
     <1>22, <1>23, <1>24, <1>25, <1>26, <1>27, <1>28, <1>29, <1>30, <1>31,
     <1>32, <1>33, <1>34, <1>35
     DEF Next, Run, Machines

\* What the machines hold stays in its range.
LEMMA StockNext ==
  ASSUME Stock, Next
  PROVE  Stock'
<1> USE PrepareAssumption DEF Stock, Checks, Node, Boot, nodes, disk, bootstrap,
     walk, run
<1>1. CASE Start
  BY <1>1 DEF Start, Goes
<1>2. CASE Preflight
  BY <1>2 DEF Preflight, Done, Fails, Goes
<1>3. CASE CollectNode
  BY <1>3 DEF CollectNode, Answered, Unanswered, Trouble, Smooth, Problem,
     Collecting
<1>4. CASE Ask20
  BY <1>4 DEF Ask20, Done, Continues, Goes, Fit, Collected
<1>5. CASE Poll20
  BY <1>5 DEF Poll20, Continues, Fails, Goes, Collected
<1>6. CASE Check20
  BY <1>6 DEF Check20, Continues, Fails, Goes, Collected
<1>7. CASE Confirm20
  BY <1>7 DEF Confirm20, Done, Fails, Goes, Fit, Collected
<1>8. CASE Look30
  BY <1>8 DEF Look30, Look, Looking, Answered, Unanswered, Trouble, Smooth,
     Continues, Done, Fails, Goes
<1>9. CASE Ask40
  BY <1>9 DEF Ask40, Answered, Unanswered, Trouble, Smooth, Loaded, Done,
     Continues, Goes
<1>10. CASE Busy40
  BY <1>10 DEF Busy40, Answered, Unanswered, Trouble, Smooth, Fails,
     Continues, Goes
<1>11. CASE Mkdir40
  <2>1. UNCHANGED <<here, answers, reports, others, images, loads>>
    BY <1>11 DEF Mkdir40, StepOf40
  <2>2. troubles' \in 0..Troubles
    BY <1>11 DEF Mkdir40, StepOf40, Answered, Unanswered, Trouble, Smooth
  <2>3. home' \in {home, "none"} /\ assets' \subseteq {"zip", "files"}
    BY <1>11 DEF Mkdir40, StepOf40
  <2> QED
    BY <2>1, <2>2, <2>3
<1>12. CASE Space40
  <2>1. UNCHANGED <<here, nodes, bootstrap>>
    BY <1>12 DEF Space40, Df
  <2>2. troubles' \in 0..Troubles
    BY <1>12 DEF Space40, Df, Answered, Unanswered, Trouble, Smooth
  <2> QED
    BY <2>1, <2>2
<1>13. CASE Upload40
  BY <1>13 DEF Upload40, Answered, Unanswered, Trouble, Smooth, Fails,
     Continues, Goes
<1>14. CASE Move40
  <2>1. UNCHANGED <<here, answers, reports, others, images, loads>>
    BY <1>14 DEF Move40, StepOf40
  <2>2. troubles' \in 0..Troubles
    BY <1>14 DEF Move40, StepOf40, Answered, Unanswered, Trouble, Smooth
  <2>3. home' \in {home, "none"} /\ assets' \subseteq {"zip", "files"}
    BY <1>14 DEF Move40, StepOf40
  <2> QED
    BY <2>1, <2>2, <2>3
<1>15. CASE Unzip40
  <2>1. UNCHANGED <<here, answers, reports, others, images, loads>>
    BY <1>15 DEF Unzip40, StepOf40
  <2>2. troubles' \in 0..Troubles
    BY <1>15 DEF Unzip40, StepOf40, Answered, Unanswered, Trouble, Smooth
  <2>3. home' \in {home, "none"} /\ assets' \subseteq {"zip", "files"}
    BY <1>15 DEF Unzip40, StepOf40
  <2> QED
    BY <2>1, <2>2, <2>3
<1>16. CASE DiskFull40
  BY <1>16 DEF DiskFull40, Fails, Goes
<1>17. CASE Install40
  <2>1. UNCHANGED <<here, answers, reports, others, images, loads>>
    BY <1>17 DEF Install40, StepOf40
  <2>2. troubles' \in 0..Troubles
    BY <1>17 DEF Install40, StepOf40, Answered, Unanswered, Trouble, Smooth
  <2>3. home' \in {home, "none"} /\ assets' \subseteq {"zip", "files"}
    BY <1>17 DEF Install40, StepOf40
  <2> QED
    BY <2>1, <2>2, <2>3
<1>18. CASE Version40
  <2>1. UNCHANGED <<here, answers, reports, others, images, loads>>
    BY <1>18 DEF Version40, StepOf40
  <2>2. troubles' \in 0..Troubles
    BY <1>18 DEF Version40, StepOf40, Answered, Unanswered, Trouble, Smooth
  <2>3. home' \in {home, "none"} /\ assets' \subseteq {"zip", "files"}
    BY <1>18 DEF Version40, StepOf40
  <2> QED
    BY <2>1, <2>2, <2>3
<1>19. CASE Eula40
  <2>1. UNCHANGED <<here, answers, reports, others, images, loads>>
    BY <1>19 DEF Eula40, StepOf40
  <2>2. troubles' \in 0..Troubles
    BY <1>19 DEF Eula40, StepOf40, Answered, Unanswered, Trouble, Smooth
  <2>3. home' \in {home, "none"} /\ assets' \subseteq {"zip", "files"}
    BY <1>19 DEF Eula40, StepOf40
  <2> QED
    BY <2>1, <2>2, <2>3
<1>20. CASE Configure40
  BY <1>20 DEF Configure40, Answered, Unanswered, Trouble, Smooth, Goes
<1>21. CASE Again40
  BY <1>21 DEF Again40, Answered, Unanswered, Trouble, Smooth, Goes
<1>22. CASE Return40
  BY <1>22 DEF Return40, Fails, Goes
<1>23. CASE Confirm40
  BY <1>23 DEF Confirm40, Answered, Unanswered, Trouble, Smooth, Loaded, Done,
     Fails, Goes
<1>24. CASE GiveUp40
  BY <1>24 DEF GiveUp40, Trouble, Smooth, LetGo
<1>25. CASE Abort
  BY <1>25 DEF Abort, Trouble, LetGo, Fails, Goes
<1>26. CASE Load
  BY <1>26 DEF Load
<1>27. CASE LoadEnds
  BY <1>27 DEF LoadEnds, Smooth, Trouble
<1>28. CASE BusyEnds
  BY <1>28 DEF BusyEnds
<1>29. CASE Boots
  BY <1>29 DEF Boots
<1>30. CASE Drops
  BY <1>30 DEF Drops, Trouble
<1>31. CASE FixChecks
  BY <1>31 DEF FixChecks
<1>32. CASE FixNodes
  BY <1>32 DEF FixNodes
<1>33. CASE FixRecord
  BY <1>33 DEF FixRecord
<1>34. CASE FreeSpace
  BY <1>34 DEF FreeSpace
<1>35. CASE BusyBegins
  BY <1>35 DEF BusyBegins, Trouble
<1> QED
  BY <1>1, <1>2, <1>3, <1>4, <1>5, <1>6, <1>7, <1>8, <1>9, <1>10, <1>11,
     <1>12, <1>13, <1>14, <1>15, <1>16, <1>17, <1>18, <1>19, <1>20, <1>21,
     <1>22, <1>23, <1>24, <1>25, <1>26, <1>27, <1>28, <1>29, <1>30, <1>31,
     <1>32, <1>33, <1>34, <1>35
     DEF Next, Run, Machines

\* So does where the run is, ...
LEMMA PlaceNext ==
  ASSUME Place, Next
  PROVE  Place'
<1> USE PrepareAssumption DEF Place, Pcs, Collecting, Looking, Writing, Node,
     Boot, nodes, disk, bootstrap, walk, run
<1>1. CASE Start
  BY <1>1 DEF Start, Goes
<1>2. CASE Preflight
  BY <1>2 DEF Preflight, Done, Fails, Goes
<1>3. CASE CollectNode
  <2>1. at \in Node /\ at' \in 1..(Nodes + 1) /\ UNCHANGED <<pc, polls, mine>>
    BY <1>3 DEF CollectNode
  <2>2. silent' \subseteq silent \cup {at} /\ faulty' \subseteq faulty \cup {at}
    BY <1>3 DEF CollectNode
  <2> QED
    BY <2>1, <2>2
<1>4. CASE Ask20
  BY <1>4 DEF Ask20, Done, Continues, Goes, Fit, Collected
<1>5. CASE Poll20
  BY <1>5 DEF Poll20, Continues, Fails, Goes, Collected
<1>6. CASE Check20
  BY <1>6 DEF Check20, Continues, Fails, Goes, Collected
<1>7. CASE Confirm20
  BY <1>7 DEF Confirm20, Done, Fails, Goes, Fit, Collected
<1>8. CASE Look30
  BY <1>8 DEF Look30, Look, Looking, Answered, Unanswered, Trouble, Smooth,
     Continues, Done, Fails, Goes
<1>9. CASE Ask40
  BY <1>9 DEF Ask40, Answered, Unanswered, Trouble, Smooth, Loaded, Done,
     Continues, Goes
<1>10. CASE Busy40
  BY <1>10 DEF Busy40, Answered, Unanswered, Trouble, Smooth, Fails,
     Continues, Goes
<1>11. CASE Mkdir40
  BY <1>11 DEF Mkdir40, StepOf40, Answered, Unanswered, Trouble, Smooth,
     Fails, Continues, Goes
<1>12. CASE Space40
  BY <1>12 DEF Space40, Df, Answered, Unanswered, Trouble, Smooth, Fails,
     Continues, Goes
<1>13. CASE Upload40
  BY <1>13 DEF Upload40, Answered, Unanswered, Trouble, Smooth, Fails,
     Continues, Goes
<1>14. CASE Move40
  BY <1>14 DEF Move40, StepOf40, Answered, Unanswered, Trouble, Smooth, Fails,
     Continues, Goes
<1>15. CASE Unzip40
  BY <1>15 DEF Unzip40, StepOf40, Answered, Unanswered, Trouble, Smooth,
     Fails, Continues, Goes
<1>16. CASE DiskFull40
  BY <1>16 DEF DiskFull40, Fails, Goes
<1>17. CASE Install40
  BY <1>17 DEF Install40, StepOf40, Answered, Unanswered, Trouble, Smooth,
     Fails, Continues, Goes
<1>18. CASE Version40
  BY <1>18 DEF Version40, StepOf40, Answered, Unanswered, Trouble, Smooth,
     Fails, Continues, Goes
<1>19. CASE Eula40
  BY <1>19 DEF Eula40, StepOf40, Answered, Unanswered, Trouble, Smooth, Fails,
     Continues, Goes
<1>20. CASE Configure40
  BY <1>20 DEF Configure40, Answered, Unanswered, Trouble, Smooth, Goes
<1>21. CASE Again40
  BY <1>21 DEF Again40, Answered, Unanswered, Trouble, Smooth, Goes
<1>22. CASE Return40
  BY <1>22 DEF Return40, Fails, Goes
<1>23. CASE Confirm40
  BY <1>23 DEF Confirm40, Answered, Unanswered, Trouble, Smooth, Loaded, Done,
     Fails, Goes
<1>24. CASE GiveUp40
  BY <1>24 DEF GiveUp40, Trouble, Smooth, LetGo
<1>25. CASE Abort
  BY <1>25 DEF Abort, Trouble, LetGo, Fails, Goes
<1>26. CASE Load
  BY <1>26 DEF Load
<1>27. CASE LoadEnds
  BY <1>27 DEF LoadEnds, Smooth, Trouble
<1>28. CASE BusyEnds
  BY <1>28 DEF BusyEnds
<1>29. CASE Boots
  BY <1>29 DEF Boots
<1>30. CASE Drops
  BY <1>30 DEF Drops, Trouble
<1>31. CASE FixChecks
  BY <1>31 DEF FixChecks
<1>32. CASE FixNodes
  BY <1>32 DEF FixNodes
<1>33. CASE FixRecord
  BY <1>33 DEF FixRecord
<1>34. CASE FreeSpace
  BY <1>34 DEF FreeSpace
<1>35. CASE BusyBegins
  BY <1>35 DEF BusyBegins, Trouble
<1> QED
  BY <1>1, <1>2, <1>3, <1>4, <1>5, <1>6, <1>7, <1>8, <1>9, <1>10, <1>11,
     <1>12, <1>13, <1>14, <1>15, <1>16, <1>17, <1>18, <1>19, <1>20, <1>21,
     <1>22, <1>23, <1>24, <1>25, <1>26, <1>27, <1>28, <1>29, <1>30, <1>31,
     <1>32, <1>33, <1>34, <1>35
     DEF Next, Run, Machines

\* ... and what it says.
LEMMA SaidNext ==
  ASSUME Said, Next
  PROVE  Said'
<1> USE PrepareAssumption DEF Said, Asks, nodes, disk, bootstrap, walk, run
<1>1. CASE Start
  BY <1>1 DEF Start, Goes
<1>2. CASE Preflight
  BY <1>2 DEF Preflight, Done, Fails, Goes
<1>3. CASE CollectNode
  BY <1>3 DEF CollectNode, Answered, Unanswered, Trouble, Smooth, Problem,
     Collecting
<1>4. CASE Ask20
  BY <1>4 DEF Ask20, Done, Continues, Goes, Fit, Collected
<1>5. CASE Poll20
  BY <1>5 DEF Poll20, Continues, Fails, Goes, Collected
<1>6. CASE Check20
  BY <1>6 DEF Check20, Continues, Fails, Goes, Collected
<1>7. CASE Confirm20
  BY <1>7 DEF Confirm20, Done, Fails, Goes, Fit, Collected
<1>8. CASE Look30
  BY <1>8 DEF Look30, Look, Looking, Answered, Unanswered, Trouble, Smooth,
     Continues, Done, Fails, Goes
<1>9. CASE Ask40
  BY <1>9 DEF Ask40, Answered, Unanswered, Trouble, Smooth, Loaded, Done,
     Continues, Goes
<1>10. CASE Busy40
  BY <1>10 DEF Busy40, Answered, Unanswered, Trouble, Smooth, Fails,
     Continues, Goes
<1>11. CASE Mkdir40
  BY <1>11 DEF Mkdir40, StepOf40, Answered, Unanswered, Trouble, Smooth,
     Fails, Continues, Goes
<1>12. CASE Space40
  BY <1>12 DEF Space40, Df, Answered, Unanswered, Trouble, Smooth, Fails,
     Continues, Goes
<1>13. CASE Upload40
  BY <1>13 DEF Upload40, Answered, Unanswered, Trouble, Smooth, Fails,
     Continues, Goes
<1>14. CASE Move40
  BY <1>14 DEF Move40, StepOf40, Answered, Unanswered, Trouble, Smooth, Fails,
     Continues, Goes
<1>15. CASE Unzip40
  BY <1>15 DEF Unzip40, StepOf40, Answered, Unanswered, Trouble, Smooth,
     Fails, Continues, Goes
<1>16. CASE DiskFull40
  BY <1>16 DEF DiskFull40, Fails, Goes
<1>17. CASE Install40
  BY <1>17 DEF Install40, StepOf40, Answered, Unanswered, Trouble, Smooth,
     Fails, Continues, Goes
<1>18. CASE Version40
  BY <1>18 DEF Version40, StepOf40, Answered, Unanswered, Trouble, Smooth,
     Fails, Continues, Goes
<1>19. CASE Eula40
  BY <1>19 DEF Eula40, StepOf40, Answered, Unanswered, Trouble, Smooth, Fails,
     Continues, Goes
<1>20. CASE Configure40
  BY <1>20 DEF Configure40, Answered, Unanswered, Trouble, Smooth, Goes
<1>21. CASE Again40
  BY <1>21 DEF Again40, Answered, Unanswered, Trouble, Smooth, Goes
<1>22. CASE Return40
  BY <1>22 DEF Return40, Fails, Goes
<1>23. CASE Confirm40
  BY <1>23 DEF Confirm40, Answered, Unanswered, Trouble, Smooth, Loaded, Done,
     Fails, Goes
<1>24. CASE GiveUp40
  BY <1>24 DEF GiveUp40, Trouble, Smooth, LetGo
<1>25. CASE Abort
  BY <1>25 DEF Abort, Trouble, LetGo, Fails, Goes
<1>26. CASE Load
  BY <1>26 DEF Load
<1>27. CASE LoadEnds
  BY <1>27 DEF LoadEnds, Smooth, Trouble
<1>28. CASE BusyEnds
  BY <1>28 DEF BusyEnds
<1>29. CASE Boots
  BY <1>29 DEF Boots
<1>30. CASE Drops
  BY <1>30 DEF Drops, Trouble
<1>31. CASE FixChecks
  BY <1>31 DEF FixChecks
<1>32. CASE FixNodes
  BY <1>32 DEF FixNodes
<1>33. CASE FixRecord
  BY <1>33 DEF FixRecord
<1>34. CASE FreeSpace
  BY <1>34 DEF FreeSpace
<1>35. CASE BusyBegins
  BY <1>35 DEF BusyBegins, Trouble
<1> QED
  BY <1>1, <1>2, <1>3, <1>4, <1>5, <1>6, <1>7, <1>8, <1>9, <1>10, <1>11,
     <1>12, <1>13, <1>14, <1>15, <1>16, <1>17, <1>18, <1>19, <1>20, <1>21,
     <1>22, <1>23, <1>24, <1>25, <1>26, <1>27, <1>28, <1>29, <1>30, <1>31,
     <1>32, <1>33, <1>34, <1>35
     DEF Next, Run, Machines

\* Every place, count and set stays in its range.
LEMMA RangesNext ==
  ASSUME Ranges, Next
  PROVE  Ranges'
BY StockNext, PlaceNext, SaidNext DEF Ranges

\* Every variable has its type.
THEOREM TypesHold == Spec => []TypeOK
<1>1. Init => Flags /\ Ranges
  <2> SUFFICES ASSUME Init PROVE Flags /\ Ranges
    OBVIOUS
  <2>1. Flags
    BY Zenon DEF Init, Flags
  <2>2. Ranges
    BY PrepareAssumption DEF Init, Ranges, Stock, Place, Said, Pcs, Checks,
       Node
  <2> QED
    BY <2>1, <2>2
<1>2. Flags /\ Ranges /\ [Next]_vars => (Flags /\ Ranges)'
  <2> SUFFICES ASSUME Flags, Ranges, [Next]_vars PROVE Flags' /\ Ranges'
    OBVIOUS
  <2>1. CASE UNCHANGED vars
    BY <2>1 DEF Flags, Ranges, Stock, Place, Said, vars, nodes, disk,
       bootstrap, walk, run
  <2> QED
    BY <2>1, FlagsNext, RangesNext
<1>3. Flags /\ Ranges => TypeOK
  BY DEF Flags, Ranges, Stock, Place, Said, TypeOK
<1> QED
  BY <1>1, <1>2, <1>3, PTL DEF Spec

-----------------------------------------------------------------------------
(* What reads done is done.                                                *)

\* The nodes a collection has passed were silent, are counted, or are right:
\* that is why both sets have to be empty at its end.
Passed ==
  pc \in Collecting =>
    \A n \in Node : n < at /\ n \notin silent => n \in faulty \/ reports[n] = "right"

\* A collection that has ended without a silent node or a problem saw every
\* node right.
LEMMA FitMeansRight ==
  ASSUME Ranges, Passed, pc \in Collecting, at > Nodes, Fit
  PROVE  \A n \in Node : reports[n] = "right"
BY PrepareAssumption DEF Ranges, Stock, Place, Passed, Fit, Node

Sound == Passed /\ GreenMeansPrepared

\* No step makes it read done that is not, or undoes what it read.
LEMMA SoundNext ==
  ASSUME Ranges, Ranges', Sound, Next
  PROVE  Sound'
<1> USE PrepareAssumption DEF Ranges, Stock, Place, Said, Sound, Passed,
     GreenMeansPrepared, Collecting, Node, Boot, nodes, disk, bootstrap, walk,
     run
<1>1. CASE Start
  BY <1>1 DEF Start, Goes
<1>2. CASE Preflight
  BY <1>2 DEF Preflight, Done, Fails, Goes
<1>3. CASE CollectNode
  BY <1>3 DEF CollectNode, Answered, Unanswered, Trouble, Smooth, Problem,
     Collecting
<1>4. CASE Ask20
  BY <1>4 DEF Ask20, Done, Continues, Goes, Fit, Collected
<1>5. CASE Poll20
  BY <1>5 DEF Poll20, Continues, Fails, Goes, Collected
<1>6. CASE Check20
  BY <1>6 DEF Check20, Continues, Fails, Goes, Collected
<1>7. CASE Confirm20
  BY <1>7 DEF Confirm20, Done, Fails, Goes, Fit, Collected
<1>8. CASE Look30
  BY <1>8 DEF Look30, Look, Looking, Answered, Unanswered, Trouble, Smooth,
     Continues, Done, Fails, Goes
<1>9. CASE Ask40
  BY <1>9 DEF Ask40, Answered, Unanswered, Trouble, Smooth, Loaded, Done,
     Continues, Goes
<1>10. CASE Busy40
  BY <1>10 DEF Busy40, Answered, Unanswered, Trouble, Smooth, Fails,
     Continues, Goes
<1>11. CASE Mkdir40
  BY <1>11 DEF Mkdir40, StepOf40, Answered, Unanswered, Trouble, Smooth,
     Fails, Continues, Goes
<1>12. CASE Space40
  BY <1>12 DEF Space40, Df, Answered, Unanswered, Trouble, Smooth, Fails,
     Continues, Goes
<1>13. CASE Upload40
  BY <1>13 DEF Upload40, Answered, Unanswered, Trouble, Smooth, Fails,
     Continues, Goes
<1>14. CASE Move40
  BY <1>14 DEF Move40, StepOf40, Answered, Unanswered, Trouble, Smooth, Fails,
     Continues, Goes
<1>15. CASE Unzip40
  BY <1>15 DEF Unzip40, StepOf40, Answered, Unanswered, Trouble, Smooth,
     Fails, Continues, Goes
<1>16. CASE DiskFull40
  BY <1>16 DEF DiskFull40, Fails, Goes
<1>17. CASE Install40
  BY <1>17 DEF Install40, StepOf40, Answered, Unanswered, Trouble, Smooth,
     Fails, Continues, Goes
<1>18. CASE Version40
  BY <1>18 DEF Version40, StepOf40, Answered, Unanswered, Trouble, Smooth,
     Fails, Continues, Goes
<1>19. CASE Eula40
  BY <1>19 DEF Eula40, StepOf40, Answered, Unanswered, Trouble, Smooth, Fails,
     Continues, Goes
<1>20. CASE Configure40
  BY <1>20 DEF Configure40, Answered, Unanswered, Trouble, Smooth, Goes
<1>21. CASE Again40
  BY <1>21 DEF Again40, Answered, Unanswered, Trouble, Smooth, Goes
<1>22. CASE Return40
  BY <1>22 DEF Return40, Fails, Goes
<1>23. CASE Confirm40
  BY <1>23 DEF Confirm40, Answered, Unanswered, Trouble, Smooth, Loaded, Done,
     Fails, Goes
<1>24. CASE GiveUp40
  BY <1>24 DEF GiveUp40, Trouble, Smooth, LetGo
<1>25. CASE Abort
  BY <1>25 DEF Abort, Trouble, LetGo, Fails, Goes
<1>26. CASE Load
  BY <1>26 DEF Load
<1>27. CASE LoadEnds
  BY <1>27 DEF LoadEnds, Smooth, Trouble
<1>28. CASE BusyEnds
  BY <1>28 DEF BusyEnds
<1>29. CASE Boots
  BY <1>29 DEF Boots
<1>30. CASE Drops
  BY <1>30 DEF Drops, Trouble
<1>31. CASE FixChecks
  BY <1>31 DEF FixChecks
<1>32. CASE FixNodes
  BY <1>32 DEF FixNodes
<1>33. CASE FixRecord
  BY <1>33 DEF FixRecord
<1>34. CASE FreeSpace
  BY <1>34 DEF FreeSpace
<1>35. CASE BusyBegins
  BY <1>35 DEF BusyBegins, Trouble
<1> QED
  BY <1>1, <1>2, <1>3, <1>4, <1>5, <1>6, <1>7, <1>8, <1>9, <1>10, <1>11,
     <1>12, <1>13, <1>14, <1>15, <1>16, <1>17, <1>18, <1>19, <1>20, <1>21,
     <1>22, <1>23, <1>24, <1>25, <1>26, <1>27, <1>28, <1>29, <1>30, <1>31,
     <1>32, <1>33, <1>34, <1>35
     DEF Next, Run, Machines

\* A phase that reads done is, whatever dropped, was lost or was given up on.
THEOREM GreenIsPrepared == Spec => []GreenMeansPrepared
<1> DEFINE Inv == Ranges /\ Sound
<1>1. Init => Inv
  <2> SUFFICES ASSUME Init PROVE Inv
    OBVIOUS
  <2>1. Ranges
    BY PrepareAssumption DEF Init, Ranges, Stock, Place, Said, Pcs, Checks,
       Node
  <2>2. Sound
    BY DEF Init, Sound, Passed, GreenMeansPrepared, Collecting
  <2> QED
    BY <2>1, <2>2
<1>2. Inv /\ [Next]_vars => Inv'
  <2> SUFFICES ASSUME Ranges, Sound, [Next]_vars PROVE Ranges' /\ Sound'
    OBVIOUS
  <2>1. CASE UNCHANGED vars
    BY <2>1 DEF Ranges, Stock, Place, Said, Sound, Passed, GreenMeansPrepared,
       vars, nodes, disk, bootstrap, walk, run
  <2> QED
    BY <2>1, RangesNext, SoundNext
<1>3. Inv => GreenMeansPrepared
  BY DEF Sound
<1> QED
  BY <1>1, <1>2, <1>3, PTL DEF Spec

-----------------------------------------------------------------------------
(* Phase 40 and the steps of others.                                       *)

\* A step begins between two runs only, and a run that found one goes no
\* further: the guard of the staging is as old as the run.
LEMMA NoSecondWriterNext ==
  ASSUME NoSecondWriter, Next
  PROVE  NoSecondWriter'
<1> USE DEF NoSecondWriter, Writing, nodes, disk, bootstrap, walk, run
<1>1. CASE Start
  BY <1>1 DEF Start, Goes
<1>2. CASE Preflight
  BY <1>2 DEF Preflight, Done, Fails, Goes
<1>3. CASE CollectNode
  BY <1>3 DEF CollectNode, Answered, Unanswered, Trouble, Smooth, Problem,
     Collecting
<1>4. CASE Ask20
  BY <1>4 DEF Ask20, Done, Continues, Goes, Fit, Collected
<1>5. CASE Poll20
  BY <1>5 DEF Poll20, Continues, Fails, Goes, Collected
<1>6. CASE Check20
  BY <1>6 DEF Check20, Continues, Fails, Goes, Collected
<1>7. CASE Confirm20
  BY <1>7 DEF Confirm20, Done, Fails, Goes, Fit, Collected
<1>8. CASE Look30
  BY <1>8 DEF Look30, Look, Looking, Answered, Unanswered, Trouble, Smooth,
     Continues, Done, Fails, Goes
<1>9. CASE Ask40
  BY <1>9 DEF Ask40, Answered, Unanswered, Trouble, Smooth, Loaded, Done,
     Continues, Goes
<1>10. CASE Busy40
  BY <1>10 DEF Busy40, Answered, Unanswered, Trouble, Smooth, Fails,
     Continues, Goes
<1>11. CASE Mkdir40
  BY <1>11 DEF Mkdir40, StepOf40, Answered, Unanswered, Trouble, Smooth,
     Fails, Continues, Goes
<1>12. CASE Space40
  BY <1>12 DEF Space40, Df, Answered, Unanswered, Trouble, Smooth, Fails,
     Continues, Goes
<1>13. CASE Upload40
  BY <1>13 DEF Upload40, Answered, Unanswered, Trouble, Smooth, Fails,
     Continues, Goes
<1>14. CASE Move40
  BY <1>14 DEF Move40, StepOf40, Answered, Unanswered, Trouble, Smooth, Fails,
     Continues, Goes
<1>15. CASE Unzip40
  <2>1. pc = "40.unzip" /\ UNCHANGED busy
    BY <1>15 DEF Unzip40, StepOf40
  <2>2. pc' = "idle" \/ UNCHANGED blind
    BY <1>15 DEF Unzip40, StepOf40, Continues, Fails, Goes
  <2> QED
    BY <2>1, <2>2
<1>16. CASE DiskFull40
  BY <1>16 DEF DiskFull40, Fails, Goes
<1>17. CASE Install40
  BY <1>17 DEF Install40, StepOf40, Answered, Unanswered, Trouble, Smooth,
     Fails, Continues, Goes
<1>18. CASE Version40
  BY <1>18 DEF Version40, StepOf40, Answered, Unanswered, Trouble, Smooth,
     Fails, Continues, Goes
<1>19. CASE Eula40
  BY <1>19 DEF Eula40, StepOf40, Answered, Unanswered, Trouble, Smooth, Fails,
     Continues, Goes
<1>20. CASE Configure40
  BY <1>20 DEF Configure40, Answered, Unanswered, Trouble, Smooth, Goes
<1>21. CASE Again40
  BY <1>21 DEF Again40, Answered, Unanswered, Trouble, Smooth, Goes
<1>22. CASE Return40
  BY <1>22 DEF Return40, Fails, Goes
<1>23. CASE Confirm40
  BY <1>23 DEF Confirm40, Answered, Unanswered, Trouble, Smooth, Loaded, Done,
     Fails, Goes
<1>24. CASE GiveUp40
  BY <1>24 DEF GiveUp40, Trouble, Smooth, LetGo
<1>25. CASE Abort
  BY <1>25 DEF Abort, Trouble, LetGo, Fails, Goes
<1>26. CASE Load
  BY <1>26 DEF Load
<1>27. CASE LoadEnds
  BY <1>27 DEF LoadEnds, Smooth, Trouble
<1>28. CASE BusyEnds
  BY <1>28 DEF BusyEnds
<1>29. CASE Boots
  BY <1>29 DEF Boots
<1>30. CASE Drops
  BY <1>30 DEF Drops, Trouble
<1>31. CASE FixChecks
  BY <1>31 DEF FixChecks
<1>32. CASE FixNodes
  BY <1>32 DEF FixNodes
<1>33. CASE FixRecord
  BY <1>33 DEF FixRecord
<1>34. CASE FreeSpace
  BY <1>34 DEF FreeSpace
<1>35. CASE BusyBegins
  BY <1>35 DEF BusyBegins, Trouble
<1> QED
  BY <1>1, <1>2, <1>3, <1>4, <1>5, <1>6, <1>7, <1>8, <1>9, <1>10, <1>11,
     <1>12, <1>13, <1>14, <1>15, <1>16, <1>17, <1>18, <1>19, <1>20, <1>21,
     <1>22, <1>23, <1>24, <1>25, <1>26, <1>27, <1>28, <1>29, <1>30, <1>31,
     <1>32, <1>33, <1>34, <1>35
     DEF Next, Run, Machines

\* The bundle is staged beside a step that was at work only when the busy check
\* went unanswered.
THEOREM StagesAlone == Spec => []NoSecondWriter
<1>1. Init => NoSecondWriter
  BY DEF Init, NoSecondWriter, Writing
<1>2. NoSecondWriter /\ [Next]_vars => NoSecondWriter'
  <2> SUFFICES ASSUME NoSecondWriter, [Next]_vars PROVE NoSecondWriter'
    OBVIOUS
  <2>1. CASE UNCHANGED vars
    BY <2>1 DEF NoSecondWriter, vars, nodes, disk, bootstrap, walk, run
  <2> QED
    BY <2>1, NoSecondWriterNext
<1> QED
  BY <1>1, <1>2, PTL DEF Spec
=============================================================================
