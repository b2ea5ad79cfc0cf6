--------------------------- MODULE ReminderProofs ---------------------------
(***************************************************************************)
(* The safety properties of Reminders for every number of tasks, users,    *)
(* runs and crashes.                                                       *)
(*                                                                         *)
(* A run files its reminders from what it has listed.  That none of them   *)
(* is early needs that everything listed is within the window, and stays   *)
(* so while the clock moves on.                                            *)
(***************************************************************************)
EXTENDS Reminders, WellFoundedInduction, TLAPS

ListedInWindow == \A r \in Runner : \A x \in todo[r] : x.due <= clock + Window

IInv == TypeOK /\ ListedInWindow /\ NotTooEarly

-----------------------------------------------------------------------------
(* A non-empty set of naturals has a least element.                        *)
LEMMA LeastNat ==
    ASSUME NEW S, S \subseteq Nat, S # {}
    PROVE  \E x \in S : \A y \in S : x <= y
<1> DEFINE R == OpToRel(<, Nat)
<1>1. PICK x \in S : \A y \in S : <<y, x>> \notin R
    <2> HIDE DEF R
    <2>1. IsWellFoundedOn(R, Nat)
        BY NatLessThanWellFounded DEF R
    <2>2. QED
        BY <2>1, WFMin
<1>2. \A y \in S : ~(y < x)
    BY <1>1 DEF OpToRel
<1>3. QED
    BY <1>2

(* What a run keeps of a task.                                             *)
LEMMA ListedFields ==
    ASSUME NEW x \in Listed
    PROVE  /\ x.id \in Task /\ x.due \in Time /\ x.assignee \in User
           /\ x.id \in Nat /\ x.due \in Nat
<1>1. x.id \in Task /\ x.due \in Time /\ x.assignee \in User
    BY DEF Listed
<1>2. Time \subseteq Nat
    BY BoundsAssumption DEF Time
<1>3. QED
    BY <1>1, <1>2, TaskAssumption

(* The next task of a run is one it has listed.                            *)
LEMMA FirstIsListed ==
    ASSUME NEW rows, rows \subseteq Listed, rows # {}
    PROVE  FirstOf(rows) \in rows
<1>1. \A x \in rows : x.due \in Nat /\ x.id \in Nat
    BY ListedFields
<1>2. PICK d \in {x.due : x \in rows} : \A e \in {x.due : x \in rows} : d <= e
    <2> DEFINE S == {x.due : x \in rows}
    <2>1. S \subseteq Nat /\ S # {}
        BY <1>1
    <2> HIDE DEF S
    <2>2. \E x \in S : \A y \in S : x <= y
        BY <2>1, LeastNat
    <2>3. QED
        BY <2>2 DEF S
<1> DEFINE First == {x \in rows : x.due = d}
<1>3. PICK i \in {x.id : x \in First} : \A j \in {x.id : x \in First} : i <= j
    <2> DEFINE S == {x.id : x \in First}
    <2>1. S \subseteq Nat /\ S # {}
        BY <1>1, <1>2
    <2> HIDE DEF S
    <2>2. \E x \in S : \A y \in S : x <= y
        BY <2>1, LeastNat
    <2>3. QED
        BY <2>2 DEF S
<1>4. PICK x \in rows : x.due = d /\ x.id = i
    BY <1>3
<1>5. \A y \in rows : Precedes(x, y)
    <2> TAKE y \in rows
    <2>1. x.due <= y.due
        BY <1>2, <1>4
    <2>2. x.due = y.due => x.id <= y.id
        BY <1>3, <1>4
    <2>3. QED
        BY <1>1, <2>1, <2>2 DEF Precedes
<1>6. QED
    BY <1>4, <1>5 DEF FirstOf

-----------------------------------------------------------------------------
LEMMA IInvInit == Init => IInv
<1> SUFFICES ASSUME Init PROVE IInv
    OBVIOUS
<1>1. TypeOK
    <2>1. task \in [Task -> TaskRow]
        BY DEF Init, TaskRow
    <2>2. clock \in Time /\ crashes \in 0..MaxCrashes
        BY BoundsAssumption DEF Init, Time
    <2>3. QED
        BY <2>1, <2>2 DEF Init, TypeOK
<1>2. QED
    BY <1>1 DEF Init, IInv, ListedInWindow, NotTooEarly

LEMMA TickKeepsIInv == ASSUME IInv, Tick PROVE IInv'
<1>1. clock \in Nat /\ clock' = clock + 1 /\ clock' \in Time
    BY BoundsAssumption DEF Tick, IInv, TypeOK, Time
<1>2. TypeOK'
    BY <1>1 DEF Tick, IInv, TypeOK
<1>3. ListedInWindow'
    <2> SUFFICES ASSUME NEW r \in Runner, NEW x \in todo[r]
                 PROVE  x.due <= clock' + Window
        BY DEF Tick, ListedInWindow
    <2>1. x.due \in Nat /\ x.due <= clock + Window
        BY ListedFields DEF IInv, TypeOK, ListedInWindow
    <2>2. QED
        BY <1>1, <2>1, BoundsAssumption
<1>4. NotTooEarly'
    <2> SUFFICES ASSUME NEW n \in notices
                 PROVE  n[2][2] <= clock' + Window
        BY DEF Tick, NotTooEarly
    <2>1. n[2][2] \in Nat /\ n[2][2] <= clock + Window
        BY BoundsAssumption DEF IInv, TypeOK, NotTooEarly, Time
    <2>2. QED
        BY <1>1, <2>1, BoundsAssumption
<1>5. QED
    BY <1>2, <1>3, <1>4 DEF IInv

LEMMA EditTaskKeepsIInv == ASSUME IInv, NEW t \in Task, EditTask(t) PROVE IInv'
<1>1. task' \in [Task -> TaskRow]
    <2>1. task[t] \in TaskRow /\ task \in [Task -> TaskRow]
        BY DEF IInv, TypeOK
    <2>2. \A u \in User : [task[t] EXCEPT !.assignee = u] \in TaskRow
        BY <2>1 DEF TaskRow
    <2>3. \A d \in Time \cup {None} : [task[t] EXCEPT !.due = d] \in TaskRow
        BY <2>1 DEF TaskRow
    <2>4. /\ [task[t] EXCEPT !.done = ~task[t].done] \in TaskRow
          /\ [task[t] EXCEPT !.deleted = TRUE] \in TaskRow
        BY <2>1 DEF TaskRow
    <2>5. QED
        BY <2>1, <2>2, <2>3, <2>4 DEF EditTask
<1>2. QED
    BY <1>1 DEF EditTask, IInv, TypeOK, ListedInWindow, NotTooEarly

LEMMA EditProjectKeepsIInv == ASSUME IInv, EditProject PROVE IInv'
BY DEF EditProject, IInv, TypeOK, ListedInWindow, NotTooEarly

LEMMA StartKeepsIInv == ASSUME IInv, NEW r \in Runner, StartRun(r) PROVE IInv'
<1> DEFINE new == {AsListed(t) : t \in {x \in Task : Wanted(x)}}
<1>1. \A t \in Task : Wanted(t) =>
            AsListed(t) \in Listed /\ AsListed(t).due <= clock + Window
    BY DEF IInv, TypeOK, TaskRow, Wanted, AsListed, Listed
<1>2. new \subseteq Listed /\ \A x \in new : x.due <= clock + Window
    BY <1>1
<1> HIDE DEF new
<1>3. todo' = [todo EXCEPT ![r] = new]
    BY DEF StartRun, new
<1>4. QED
    BY <1>2, <1>3 DEF StartRun, IInv, TypeOK, ListedInWindow, NotTooEarly

LEMMA RemindKeepsIInv == ASSUME IInv, NEW r \in Runner, Remind(r) PROVE IInv'
<1> DEFINE x == FirstOf(todo[r])
<1>1. x \in todo[r] /\ x \in Listed
    BY FirstIsListed DEF Remind, IInv, TypeOK
<1> HIDE DEF x
<1>2. /\ notices' = notices \cup {<<x.assignee, <<x.id, x.due>>>>}
      /\ todo' = [todo EXCEPT ![r] = @ \ {x}]
      /\ UNCHANGED <<task, open, clock, crashes>>
    BY DEF Remind, DedupeKey, x
<1>3. x.due <= clock + Window
    BY <1>1 DEF IInv, ListedInWindow
<1>4. TypeOK'
    BY <1>1, <1>2, ListedFields DEF IInv, TypeOK
<1>5. ListedInWindow'
    BY <1>2 DEF IInv, TypeOK, ListedInWindow
<1>6. NotTooEarly'
    BY <1>2, <1>3 DEF IInv, NotTooEarly
<1>7. QED
    BY <1>4, <1>5, <1>6 DEF IInv

LEMMA CrashKeepsIInv == ASSUME IInv, NEW r \in Runner, Crash(r) PROVE IInv'
<1>1. crashes' \in 0..MaxCrashes
    BY BoundsAssumption DEF Crash, IInv, TypeOK
<1>2. QED
    BY <1>1 DEF Crash, IInv, TypeOK, ListedInWindow, NotTooEarly

LEMMA IInvNext == IInv /\ [Next]_vars => IInv'
<1> SUFFICES ASSUME IInv, [Next]_vars PROVE IInv'
    OBVIOUS
<1>1. CASE UNCHANGED vars
    BY <1>1 DEF vars, IInv, TypeOK, ListedInWindow, NotTooEarly
<1>2. QED
    BY <1>1, TickKeepsIInv, EditTaskKeepsIInv, EditProjectKeepsIInv, StartKeepsIInv,
       RemindKeepsIInv, CrashKeepsIInv DEF Next

-----------------------------------------------------------------------------
(* Every variable keeps its type, a reminder's key its task and due time.  *)
THEOREM TypeCorrect == Spec => []TypeOK
<1>1. IInv => TypeOK
    BY DEF IInv
<1>2. QED
    BY <1>1, IInvInit, IInvNext, PTL DEF Spec

(* However due times are moved while a run works through its list, nobody  *)
(* is reminded before the window of the due time he is reminded of.        *)
THEOREM RemindersAreNotEarly == Spec => []NotTooEarly
<1>1. IInv => NotTooEarly
    BY DEF IInv
<1>2. QED
    BY <1>1, IInvInit, IInvNext, PTL DEF Spec
=============================================================================
