--------------------------- MODULE WorkUnitCycle ---------------------------
(***************************************************************************)
(* findWorkUnitCycle of internal/state/workunits.go: the iterative         *)
(* depth-first search CreateWorkUnit runs over the dependency edges of a   *)
(* task inside its transaction.  Units are numbered in the order of their  *)
(* ids; 0 is the empty id that stands for "no parent" in the new unit's    *)
(* edges.  One step is one turn of the inner loop.                         *)
(***************************************************************************)
EXTENDS Naturals, Sequences, FiniteSets

CONSTANTS
  N,            \* number of units
  MaxEdges      \* bound on the edges of one unit

Units == 1..N
Nodes == 0..N

\* A unit's edges after sort.Strings: its dependencies and its parent, taken to
\* be different units.
SortedEdges ==
  {s \in UNION {[1..n -> Nodes] : n \in 0..MaxEdges} :
     \A i, j \in DOMAIN s : i < j => s[i] < s[j]}

VARIABLES edges, color, stack, answer

vars == <<edges, color, stack, answer>>

Pop(s) == SubSeq(s, 1, Len(s) - 1)
top == stack[Len(stack)]

edgesOf(n) == IF n = 0 THEN << >> ELSE edges[n]

whiteEdges(n) == SelectSeq(edgesOf(n), LAMBDA m : color[m] = "white")

\* An edge back to the path: n itself is gray when its edges are looked at.
closes(n) == \E i \in DOMAIN edgesOf(n) :
               edgesOf(n)[i] = n \/ color[edgesOf(n)[i]] = "gray"

\* The outer loop: the first unit with an entry in the map that is still white.
StartUnit ==
  LET left == {u \in Units : edges[u] # << >> /\ color[u] = "white"} IN
  /\ answer = "none" /\ stack = << >>
  /\ IF left = {} THEN answer' = "acyclic" /\ UNCHANGED stack
     ELSE /\ stack' = <<CHOOSE u \in left : \A v \in left : u <= v>>
          /\ UNCHANGED answer
  /\ UNCHANGED <<edges, color>>

\* A gray node is met again on the way back.
Leave ==
  /\ answer = "none" /\ stack # << >> /\ color[top] = "gray"
  /\ color' = [color EXCEPT ![top] = "black"]
  /\ stack' = Pop(stack)
  /\ UNCHANGED <<edges, answer>>

\* A black node is skipped: the code continues without popping it.
Skip ==
  /\ answer = "none" /\ stack # << >> /\ color[top] = "black"
  /\ UNCHANGED vars

\* A white node is entered: report a gray neighbour, or push the white ones; a
\* node without any is finished.
Enter ==
  /\ answer = "none" /\ stack # << >> /\ color[top] = "white"
  /\ \/ /\ closes(top)
        /\ answer' = "cycle"
        /\ UNCHANGED <<edges, color, stack>>
     \/ /\ ~closes(top) /\ whiteEdges(top) = << >>
        /\ color' = [color EXCEPT ![top] = "black"]
        /\ stack' = Pop(stack)
        /\ UNCHANGED <<edges, answer>>
     \/ /\ ~closes(top) /\ whiteEdges(top) # << >>
        /\ color' = [color EXCEPT ![top] = "gray"]
        /\ stack' = stack \o whiteEdges(top)
        /\ UNCHANGED <<edges, answer>>

hasNoParent(u) == \E i \in DOMAIN edges[u] : edges[u][i] = 0

\* loadDependencyEdges has no empty ids; the new unit's edges may have one.
Init ==
  /\ edges \in [Units -> SortedEdges]
  /\ \A u, v \in Units : hasNoParent(u) /\ hasNoParent(v) => u = v
  /\ color = [n \in Nodes |-> "white"] /\ stack = << >> /\ answer = "none"

Next == StartUnit \/ Leave \/ Skip \/ Enter

Spec == Init /\ [][Next]_vars

\* The loop keeps running until it returns.
FairSpec == Spec /\ WF_vars(Next)

-----------------------------------------------------------------------------
(* Properties.                                                              *)

Neighbours(S) ==
  S \cup UNION {{edgesOf(n)[i] : i \in DOMAIN edgesOf(n)} : n \in S}

\* The nodes reachable from n by at least one edge.
Reachable(n) ==
  LET after[k \in 1..(N + 1)] ==
        IF k = 1 THEN {edgesOf(n)[i] : i \in DOMAIN edgesOf(n)}
        ELSE Neighbours(after[k - 1])
  IN after[N + 1]

Cyclic == \E u \in Units : u \in Reachable(u)

\* The search returns on every acyclic graph, and so on every graph that units
\* created one after the other can have.
ReturnsOnAcyclic == ~Cyclic => <>(answer # "none")

=============================================================================
