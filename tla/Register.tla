------------------------------ MODULE Register ------------------------------
(***************************************************************************)
(* What the mesh looks like to the users of one key while it works as      *)
(* intended: one cell.  A set takes effect at one instant between its call *)
(* and its answer; a get returns a value the cell had at some instant      *)
(* between its call and its answer.                                        *)
(***************************************************************************)
CONSTANTS
  Ops,   \* calls; a set writes its own number
  None   \* no value

VARIABLES
  cell,  \* the key's value
  call   \* each call: what it asks, its progress, its answer, and for a get
         \* the values the cell has had since it began

NotCalled == [kind |-> None, pc |-> "idle", result |-> None, seen |-> {}]

Init ==
  /\ cell = None
  /\ call = [o \in Ops |-> NotCalled]

Invoke(o, kind) ==
  /\ call[o] = NotCalled
  /\ call' = [call EXCEPT ![o] =
                [kind |-> kind, pc |-> "busy", result |-> None,
                 seen |-> IF kind = "get" THEN {cell} ELSE {}]]
  /\ UNCHANGED cell

Answered(o, r) ==
  [kind |-> call[o].kind, pc |-> "done", result |-> r, seen |-> {}]

Reading(o) == call[o].kind = "get" /\ call[o].pc = "busy"

Set(o) ==
  /\ call[o].kind = "set" /\ call[o].pc = "busy"
  /\ cell' = o
  /\ call' = [p \in Ops |->
                IF p = o THEN Answered(o, "stored")
                ELSE IF Reading(p) THEN [call[p] EXCEPT !.seen = @ \cup {o}]
                ELSE call[p]]

Get(o) ==
  /\ Reading(o)
  /\ \E v \in call[o].seen : call' = [call EXCEPT ![o] = Answered(o, v)]
  /\ UNCHANGED cell

Next ==
  \E o \in Ops : \/ Invoke(o, "set") \/ Invoke(o, "get")
                 \/ Set(o) \/ Get(o)

Spec == Init /\ [][Next]_<<cell, call>>

=============================================================================
