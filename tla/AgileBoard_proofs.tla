------------------------- MODULE AgileBoard_proofs -------------------------
(***************************************************************************)
(* Theorems about AgileBoard, for any number of panels, teams, tasks,      *)
(* proposals and clicks.  The table keeps one task per requirement of a    *)
(* team and an assignee for all work that has begun, though panels act on  *)
(* rows that are old and the model names any task.                         *)
(***************************************************************************)
EXTENDS AgileBoard, FiniteSetTheorems, WellFoundedInduction, TLAPS

-----------------------------------------------------------------------------
(***************************************************************************)
(* Induction over the natural numbers, with a set for the predicate.       *)
(***************************************************************************)

LEMMA LessThan ==
    \A x, y \in Nat : <<x, y>> \in OpToRel(<, Nat) <=> x < y
BY Zenon DEF OpToRel

LEMMA SetInduction ==
    ASSUME NEW S, 0 \in S, \A n \in Nat : n \in S => n + 1 \in S
    PROVE  Nat \subseteq S
<1> SUFFICES ASSUME Nat \ S # {} PROVE FALSE
  OBVIOUS
<1>1. PICK x \in Nat \ S :
        \A y \in Nat \ S : ~(<<y, x>> \in OpToRel(<, Nat))
  <2>1. \E x \in Nat \ S :
          \A y \in Nat \ S : ~(<<y, x>> \in OpToRel(<, Nat))
    BY NatLessThanWellFounded, WFMin, Zenon
  <2> QED
    BY <2>1, Zenon
<1>2. \A y \in Nat \ S : ~(y < x)
  BY <1>1, LessThan, Zenon
<1>3. x # 0
  OBVIOUS
<1>4. x - 1 \in Nat /\ x - 1 < x /\ x = (x - 1) + 1
  BY <1>3
<1>5. x - 1 \in S
  BY <1>2, <1>4
<1> QED
  BY <1>4, <1>5

\* A function applied step by step, from b on, n times.
Iterates(B, b, n, F, g) ==
    /\ g \in [0 .. n -> B] /\ g[0] = b
    /\ \A k \in 1 .. n : g[k] = F[<<g[k - 1], k>>]

LEMMA Iterated ==
    ASSUME NEW B, NEW b \in B, NEW n \in Nat, NEW F \in [B \X (1 .. n) -> B]
    PROVE  \E g : Iterates(B, b, n, F, g)
<1> DEFINE Up(m, g) == g[0] = b /\ \A k \in 1 .. m : g[k] = F[<<g[k - 1], k>>]
           S == {m \in Nat : m <= n => \E g \in [0 .. m -> B] : Up(m, g)}
<1>1. 0 \in S
  <2>1. Up(0, [k \in 0 .. 0 |-> b])
    OBVIOUS
  <2>2. [k \in 0 .. 0 |-> b] \in [0 .. 0 -> B]
    OBVIOUS
  <2> QED
    BY <2>1, <2>2
<1>2. ASSUME NEW m \in Nat, m \in S
      PROVE  m + 1 \in S
  <2> SUFFICES ASSUME m + 1 <= n
               PROVE  \E g \in [0 .. m + 1 -> B] : Up(m + 1, g)
    OBVIOUS
  <2>1. PICK g \in [0 .. m -> B] : Up(m, g)
    BY <1>2
  <2> DEFINE h == [k \in 0 .. m + 1 |-> IF k = m + 1 THEN F[<<g[m], m + 1>>]
                                                     ELSE g[k]]
  <2>2. F[<<g[m], m + 1>>] \in B
    <3>1. g[m] \in B /\ m + 1 \in 1 .. n
      OBVIOUS
    <3> QED
      BY <3>1
  <2>3. h \in [0 .. m + 1 -> B]
    <3>1. \A k \in 0 .. m + 1 : k = m + 1 \/ k \in 0 .. m
      OBVIOUS
    <3> QED
      BY <2>2, <3>1
  <2>4. ASSUME NEW k \in 1 .. m + 1
        PROVE  h[k] = F[<<h[k - 1], k>>]
    <3>1. CASE k = m + 1
      <4>1. k - 1 = m /\ m \in 0 .. m + 1 /\ m # m + 1 /\ k \in 0 .. m + 1
        BY <3>1
      <4>2. h[k] = F[<<g[m], m + 1>>] /\ h[k - 1] = g[m]
        BY <3>1, <4>1
      <4> QED
        BY <3>1, <4>1, <4>2
    <3>2. CASE k \in 1 .. m
      <4>1. /\ k \in 0 .. m + 1 /\ k # m + 1
            /\ k - 1 # m + 1 /\ k - 1 \in 0 .. m + 1
        BY <3>2
      <4>2. h[k] = g[k] /\ h[k - 1] = g[k - 1]
        BY <4>1
      <4>3. g[k] = F[<<g[k - 1], k>>]
        BY <2>1, <3>2
      <4> QED
        BY <4>2, <4>3
    <3> QED
      BY <3>1, <3>2
  <2>5. h[0] = b
    BY <2>1
  <2> HIDE DEF h
  <2> QED
    BY <2>3, <2>4, <2>5
<1> HIDE DEF S
<1>3. n \in S
  BY <1>1, <1>2, SetInduction
<1> QED
  BY <1>3 DEF S, Iterates

-----------------------------------------------------------------------------
(***************************************************************************)
(* The inductive invariant.                                                *)
(***************************************************************************)

Statuses == {"unassigned", "pending_approval", "in_progress", "pr_pending",
             "rejected"}

Rows == [team : Teams, title : Titles, ref : Refs \cup {NoRef}, area : Areas,
         status : Statuses, assignee : Members \cup {NoOne}]

IsTable(b) == b \in [DOMAIN b -> Rows]

OneTask(b) ==
    \A i, j \in DOMAIN b :
      b[i].team = b[j].team /\ b[i].ref = b[j].ref /\ b[i].ref # NoRef => i = j

Assigned(b) ==
    \A i \in DOMAIN b : b[i].status # "unassigned" => b[i].assignee # NoOne

\* The table: ids are given in order and never again.
BoardInv ==
    /\ made \in Nat
    /\ DOMAIN board \subseteq 1 .. made
    /\ IsTable(board) /\ OneTask(board) /\ Assigned(board)

\* The task, if it is still there, is somebody's.
Owned(i) == i \in DOMAIN board => board[i].assignee # NoOne

\* What a panel was told of a task: its id was given, and it has an assignee
\* to this day when it was shown as begun.
Seen(i, row) ==
    /\ i \in 1 .. made
    /\ row \in Rows
    /\ row.status # "unassigned" => Owned(i)

SentInv ==
    \A p \in Panels :
      /\ sent[p].op = "patch" =>
           /\ sent[p].id \in 1 .. made
           /\ sent[p].status \in Statuses
           /\ sent[p].status # "unassigned" => Owned(sent[p].id)
      /\ sent[p].op = "create" =>
           sent[p].row \in Rows /\ sent[p].row.status = "unassigned"
      /\ sent[p].op \in {"generate", "distribute"} => sent[p].team \in Teams

ShownInv ==
    \A p \in Panels :
      /\ \A i \in DOMAIN shown[p] : Seen(i, shown[p][i])
      /\ \A a \in answers[p] :
           /\ a.kind = "list" => \A i \in DOMAIN a.tasks : Seen(i, a.tasks[i])
           /\ a.kind = "task" => Seen(a.id, a.row)

PanelTypes ==
    /\ team \in [Panels -> Teams]
    /\ DOMAIN sent = Panels /\ DOMAIN shown = Panels /\ DOMAIN answers = Panels
    /\ sent = [p \in Panels |-> sent[p]]
    /\ shown = [p \in Panels |-> shown[p]]
    /\ answers = [p \in Panels |-> answers[p]]

IInv == BoardInv /\ PanelTypes /\ SentInv /\ ShownInv

\* What every step of the table does: new rows have new ids, and an assignee is
\* never taken away.
RowsKept ==
    /\ made' \in Nat /\ made <= made'
    /\ \A i \in DOMAIN board' : i \in DOMAIN board \/ made < i
    /\ \A i \in DOMAIN board \cap DOMAIN board' :
         board[i].assignee # NoOne => board'[i].assignee # NoOne

-----------------------------------------------------------------------------
(***************************************************************************)
(* The table.                                                              *)
(***************************************************************************)


\* The tables that come from the present one by adding tasks nobody has.
Ids(k) == DOMAIN board \cup (made + 1 .. made + k)

IsGrown(b) ==
    /\ IsTable(b) /\ OneTask(b)
    /\ \A i \in DOMAIN board : b[i] = board[i]
    /\ \A i \in DOMAIN b \ DOMAIN board : b[i].status = "unassigned"

Grown == UNION {{b \in [Ids(k) -> Rows] : IsGrown(b)} : k \in Nat}

LEMMA NewIds ==
    ASSUME BoardInv, NEW k \in Nat
    PROVE  /\ Ids(k) \ DOMAIN board = made + 1 .. made + k
           /\ Cardinality(Ids(k) \ DOMAIN board) = k
<1>1. made \in Nat /\ DOMAIN board \subseteq 1 .. made
  BY DEF BoardInv
<1>2. Ids(k) \ DOMAIN board = made + 1 .. made + k
  BY <1>1 DEF Ids
<1>3. Cardinality(made + 1 .. made + k) = k
  BY <1>1, FS_Interval
<1> QED
  BY <1>2, <1>3

LEMMA GrownIds ==
    ASSUME BoardInv, NEW b \in Grown
    PROVE  \E k \in Nat : DOMAIN b = Ids(k) /\ b \in [Ids(k) -> Rows] /\ IsGrown(b)
BY DEF Grown

LEMMA BoardIsGrown ==
    ASSUME BoardInv
    PROVE  board \in Grown
<1>1. Ids(0) = DOMAIN board
  <2>1. made \in Nat
    BY DEF BoardInv
  <2>2. made + 1 .. made + 0 = {}
    BY <2>1
  <2> QED
    BY <2>2 DEF Ids
<1>2. board \in [Ids(0) -> Rows] /\ IsGrown(board)
  BY <1>1 DEF IsGrown, BoardInv, IsTable
<1> QED
  BY <1>2 DEF Grown

\* A task is created for a requirement that has none.
LEMMA CreateGrows ==
    ASSUME BoardInv, NEW b \in Grown, NEW r \in Rows, r.status = "unassigned"
    PROVE  create_task(b, r) \in Grown
<1>1. PICK k \in Nat : DOMAIN b = Ids(k) /\ b \in [Ids(k) -> Rows] /\ IsGrown(b)
  BY GrownIds
<1>2. /\ made \in Nat /\ DOMAIN board \subseteq 1 .. made
      /\ DOMAIN b \ DOMAIN board = made + 1 .. made + k
      /\ Cardinality(DOMAIN b \ DOMAIN board) = k
  BY <1>1, NewIds DEF BoardInv
<1>3. CASE create_task(b, r) = b
  BY <1>3
<1>4. CASE ~Duplicate(b, r)
  <2> DEFINE id == made + k + 1
             c == [i \in DOMAIN b \cup {id} |-> IF i = id THEN r ELSE b[i]]
  <2>1. create_task(b, r) \in {b, c}
    BY <1>2, <1>4 DEF create_task
  <2>2. DOMAIN b \cup {id} = Ids(k + 1) /\ id \notin DOMAIN b
        /\ id \notin DOMAIN board
    BY <1>1, <1>2 DEF Ids
  <2> HIDE DEF id
  <2>3. c \in [Ids(k + 1) -> Rows]
    BY <1>1, <2>2
  <2>4. /\ DOMAIN c = DOMAIN b \cup {id} /\ c[id] = r
        /\ \A i \in DOMAIN b : c[i] = b[i]
    BY <2>2
  <2> HIDE DEF c
  <2>5. OneTask(c)
    <3> SUFFICES ASSUME NEW i \in DOMAIN c, NEW j \in DOMAIN c,
                        c[i].team = c[j].team, c[i].ref = c[j].ref,
                        c[i].ref # NoRef
                 PROVE  i = j
      BY DEF OneTask
    <3>1. ASSUME NEW n \in DOMAIN b, c[n].team = r.team, c[n].ref = r.ref,
                 r.ref # NoRef
          PROVE  FALSE
      BY <1>4, <2>4, <3>1 DEF Duplicate, TeamRows
    <3>2. CASE i \in DOMAIN b /\ j \in DOMAIN b
      BY <1>1, <2>4, <3>2 DEF IsGrown, OneTask
    <3>3. CASE i = id \/ j = id
      BY <2>4, <3>1, <3>3
    <3> QED
      BY <2>4, <3>2, <3>3
  <2>6. IsGrown(c)
    BY <1>1, <2>2, <2>3, <2>4, <2>5 DEF IsGrown, IsTable, Ids
  <2>7. k + 1 \in Nat
    OBVIOUS
  <2>8. c \in Grown
    BY <2>3, <2>6, <2>7 DEF Grown
  <2> QED
    BY <2>1, <2>8
<1> QED
  BY <1>3, <1>4 DEF create_task

LEMMA ProposalGrows ==
    ASSUME BoardInv, NEW b \in Grown, NEW t \in Teams, NEW p \in Proposals
    PROVE  AddProposal(b, t, p) \in Grown
<1> DEFINE r == NewRow(t, p.title, p.ref, p.area, NoOne)
<1>1. r \in Rows /\ r.status = "unassigned"
  BY DEF NewRow, Proposals, Rows, Statuses
<1> HIDE DEF r
<1>2. create_task(b, r) \in Grown
  BY <1>1, CreateGrows
<1> QED
  BY <1>2 DEF AddProposal, r

\* However many tasks the model proposes.
LEMMA PlannedGrows ==
    ASSUME BoardInv, NEW t \in Teams, NEW n \in Nat,
           NEW proposals \in [1 .. n -> Proposals]
    PROVE  Planned(board, t, proposals) \in Grown
<1> DEFINE Step(g) == [k \in 0 .. Len(proposals) |->
                         IF k = 0 THEN board
                         ELSE AddProposal(g[k - 1], t, proposals[k])]
           after == CHOOSE g : g = Step(g)
<1>1. Len(proposals) = n
  OBVIOUS
<1>2. Planned(board, t, proposals) = after[n]
  BY <1>1 DEF Planned
<1>3. \E g : g = Step(g)
  <2>1. PICK F \in [Grown \X (1 .. n) -> Grown] :
          \A b \in Grown : \A k \in 1 .. n :
            F[<<b, k>>] = AddProposal(b, t, proposals[k])
    <3> DEFINE G == [x \in Grown \X (1 .. n) |->
                       AddProposal(x[1], t, proposals[x[2]])]
    <3>1. ASSUME NEW x \in Grown \X (1 .. n)
          PROVE  AddProposal(x[1], t, proposals[x[2]]) \in Grown
      <4>1. x[1] \in Grown /\ proposals[x[2]] \in Proposals
        OBVIOUS
      <4> QED
        BY <4>1, ProposalGrows
    <3>2. G \in [Grown \X (1 .. n) -> Grown]
      BY <3>1
    <3>3. \A b \in Grown : \A k \in 1 .. n :
            G[<<b, k>>] = AddProposal(b, t, proposals[k])
      OBVIOUS
    <3> QED
      BY <3>2, <3>3
  <2>2. board \in Grown
    BY BoardIsGrown
  <2>3. PICK g \in [0 .. n -> Grown] :
          g[0] = board /\ \A k \in 1 .. n : g[k] = F[<<g[k - 1], k>>]
    <3>1. PICK g : Iterates(Grown, board, n, F, g)
      BY <2>1, <2>2, Iterated
    <3> QED
      BY <3>1 DEF Iterates
  <2>4. ASSUME NEW k \in 0 .. n
        PROVE  g[k] = IF k = 0 THEN board
                      ELSE AddProposal(g[k - 1], t, proposals[k])
    <3>1. CASE k = 0
      BY <2>3, <3>1
    <3>2. CASE k # 0
      <4>1. k \in 1 .. n /\ k - 1 \in 0 .. n
        BY <3>2
      <4>2. g[k] = F[<<g[k - 1], k>>] /\ g[k - 1] \in Grown
        BY <2>3, <4>1
      <4> QED
        BY <2>1, <3>2, <4>1, <4>2
    <3> QED
      BY <3>1, <3>2
  <2>5. g = [k \in 0 .. n |-> g[k]]
    OBVIOUS
  <2>6. g = Step(g)
    BY <1>1, <2>4, <2>5
  <2> QED
    BY <2>6
<1>4. after = Step(after)
  BY <1>3
<1> HIDE DEF after
<1>5. \A k \in 0 .. n : after[k] = IF k = 0 THEN board
                                   ELSE AddProposal(after[k - 1], t, proposals[k])
  BY <1>1, <1>4
<1> DEFINE S == {m \in Nat : m <= n => after[m] \in Grown}
<1>6. 0 \in S
  BY <1>5, BoardIsGrown
<1>7. ASSUME NEW m \in Nat, m \in S
      PROVE  m + 1 \in S
  <2> SUFFICES ASSUME m + 1 <= n PROVE after[m + 1] \in Grown
    OBVIOUS
  <2>1. after[m] \in Grown /\ m + 1 \in 0 .. n /\ m + 1 \in 1 .. n /\ m + 1 # 0
        /\ (m + 1) - 1 = m
    BY <1>7
  <2>2. after[m + 1] = AddProposal(after[m], t, proposals[m + 1])
    BY <1>5, <2>1
  <2>3. proposals[m + 1] \in Proposals
    BY <2>1
  <2> QED
    BY <2>1, <2>2, <2>3, ProposalGrows
<1> HIDE DEF S
<1>8. n \in S
  BY <1>6, <1>7, SetInduction
<1> QED
  BY <1>2, <1>8 DEF S

\* What is created keeps the table, and takes nothing from anyone.
LEMMA CreatedKeeps ==
    ASSUME BoardInv, NEW b \in Grown, Created(b)
    PROVE  BoardInv' /\ RowsKept
<1>1. PICK k \in Nat : DOMAIN b = Ids(k) /\ b \in [Ids(k) -> Rows] /\ IsGrown(b)
  BY GrownIds
<1>2. /\ made \in Nat /\ DOMAIN board \subseteq 1 .. made
      /\ DOMAIN b \ DOMAIN board = made + 1 .. made + k
      /\ Cardinality(DOMAIN b \ DOMAIN board) = k
  BY <1>1, NewIds DEF BoardInv
<1>3. board' = b /\ made' = made + k
  BY <1>2 DEF Created
<1>4. Assigned(b)
  BY <1>1 DEF IsGrown, BoardInv, Assigned
<1>5. DOMAIN b \subseteq 1 .. made + k
  BY <1>1, <1>2 DEF Ids
<1>6. BoardInv'
  BY <1>1, <1>2, <1>3, <1>4, <1>5 DEF BoardInv, IsGrown
<1>7. RowsKept
  <2>1. \A i \in DOMAIN b : i \in DOMAIN board \/ made < i
    BY <1>1, <1>2
  <2>2. \A i \in DOMAIN board : b[i] = board[i]
    BY <1>1 DEF IsGrown
  <2> QED
    BY <1>2, <1>3, <2>1, <2>2 DEF RowsKept
<1> QED
  BY <1>6, <1>7

\* A step that changes some rows in place.
LEMMA InPlaceKeeps ==
    ASSUME BoardInv, DOMAIN board' \subseteq DOMAIN board, UNCHANGED made,
           IsTable(board'), Assigned(board'),
           \A i \in DOMAIN board' :
             /\ board'[i].team = board[i].team /\ board'[i].ref = board[i].ref
             /\ board[i].assignee # NoOne => board'[i].assignee # NoOne
    PROVE  BoardInv' /\ RowsKept
<1>1. OneTask(board')
  BY DEF OneTask, BoardInv
<1>2. BoardInv'
  BY <1>1 DEF BoardInv
<1>3. RowsKept
  BY DEF BoardInv, RowsKept
<1> QED
  BY <1>2, <1>3

\* A suggestion changes only what is unassigned.
LEMMA RewrittenKeeps ==
    ASSUME BoardInv, NEW t \in Teams,
           NEW x \in [id : DOMAIN board, title : Titles, area : Areas],
           Created(Rewritten(board, t, x))
    PROVE  BoardInv' /\ RowsKept
<1>1. CASE x.id \notin Rewritable(t)
  BY <1>1, BoardIsGrown, CreatedKeeps DEF Rewritten
<1>2. CASE x.id \in Rewritable(t)
  <2> DEFINE row == [board[x.id] EXCEPT !.title = x.title, !.area = x.area,
                                        !.status = "unassigned"]
  <2>1. /\ x.id \in DOMAIN board /\ board[x.id] \in Rows
        /\ board[x.id].status = "unassigned" /\ x.title \in Titles
        /\ x.area \in Areas
    BY <1>2 DEF Rewritable, TeamRows, BoardInv, IsTable
  <2>2. /\ row \in Rows /\ row.status = "unassigned"
        /\ row.team = board[x.id].team /\ row.ref = board[x.id].ref
        /\ row.assignee = board[x.id].assignee
    BY <2>1 DEF Rows, Statuses
  <2>3. Rewritten(board, t, x) = [board EXCEPT ![x.id] = row]
    BY <1>2, <2>1 DEF Rewritten, BoardInv, IsTable, Rows
  <2> HIDE DEF row
  <2>4. board' = [board EXCEPT ![x.id] = row] /\ DOMAIN board' = DOMAIN board
    BY <2>3 DEF Created
  <2>5. made' = made
    <3>1. DOMAIN Rewritten(board, t, x) \ DOMAIN board = {}
      BY <2>3
    <3>2. Cardinality({}) = 0 /\ made \in Nat
      BY FS_EmptySet DEF BoardInv
    <3> QED
      BY <3>1, <3>2 DEF Created
  <2>6. IsTable(board') /\ Assigned(board')
    BY <2>1, <2>2, <2>4 DEF BoardInv, IsTable, Assigned
  <2>7. \A i \in DOMAIN board' :
          /\ board'[i].team = board[i].team /\ board'[i].ref = board[i].ref
          /\ board[i].assignee # NoOne => board'[i].assignee # NoOne
    BY <2>1, <2>2, <2>4
  <2> QED
    BY <2>4, <2>5, <2>6, <2>7, InPlaceKeeps
<1> QED
  BY <1>1, <1>2

\* Whatever task is named, it gets a member.
LEMMA AssignedKeeps ==
    ASSUME BoardInv, NEW t \in Teams, run_task_distributor(t)
    PROVE  BoardInv' /\ RowsKept
<1>1. PICK a \in Assignments(t) : board' = assign_task(board, a) /\ UNCHANGED made
  BY DEF run_task_distributor
<1>2. \A i \in DOMAIN a : a[i] \in Members
  BY <1>1 DEF Assignments
<1>3. DOMAIN board' = DOMAIN board
  BY <1>1 DEF assign_task
<1>4. ASSUME NEW i \in DOMAIN board
      PROVE  /\ board'[i] \in Rows
             /\ board'[i].team = board[i].team /\ board'[i].ref = board[i].ref
             /\ board[i].assignee # NoOne => board'[i].assignee # NoOne
             /\ board'[i].status # "unassigned" => board'[i].assignee # NoOne
  <2>1. board[i] \in Rows
    BY DEF BoardInv, IsTable
  <2>2. CASE i \in DOMAIN a
    <3>1. board'[i] = [board[i] EXCEPT !.assignee = a[i],
                                       !.status = "pending_approval"]
      BY <1>1, <2>2 DEF assign_task
    <3>2. a[i] \in Members /\ a[i] # NoOne
      BY <1>2, <2>2, BoardAssumption
    <3> QED
      BY <2>1, <3>1, <3>2 DEF Rows, Statuses
  <2>3. CASE i \notin DOMAIN a
    <3>1. board'[i] = board[i]
      BY <1>1, <2>3 DEF assign_task
    <3> QED
      BY <2>1, <3>1 DEF BoardInv, Assigned
  <2> QED
    BY <2>2, <2>3
<1>5. IsTable(board')
  <2>1. board' = [i \in DOMAIN board' |-> board'[i]]
    BY <1>1 DEF assign_task
  <2> QED
    BY <1>3, <1>4, <2>1 DEF IsTable
<1>6. Assigned(board')
  BY <1>3, <1>4 DEF Assigned
<1> QED
  BY <1>1, <1>3, <1>4, <1>5, <1>6, InPlaceKeeps

\* The status of a row follows what a panel was shown; the row, if it is still
\* there, has an assignee when the new status needs one.
LEMMA PatchedKeeps ==
    ASSUME BoardInv, NEW n \in DOMAIN board, NEW r, r.status \in Statuses,
           r.status # "unassigned" => Owned(n),
           board' = [board EXCEPT ![n] = Patched(@, r)], UNCHANGED made
    PROVE  /\ BoardInv' /\ RowsKept
           /\ board'[n] \in Rows /\ board'[n].status = r.status
           /\ board'[n].assignee = board[n].assignee
<1> DEFINE row == [board[n] EXCEPT !.status = r.status]
<1>1. board[n] \in Rows
  BY DEF BoardInv, IsTable
<1>2. /\ row \in Rows /\ row.status = r.status
      /\ row.team = board[n].team /\ row.ref = board[n].ref
      /\ row.assignee = board[n].assignee
  BY <1>1 DEF Rows
<1>3. board' = [board EXCEPT ![n] = row]
  BY DEF Patched
<1> HIDE DEF row
<1>4. IsTable(board') /\ Assigned(board')
  BY <1>2, <1>3 DEF BoardInv, IsTable, Assigned, Owned
<1> QED
  BY <1>2, <1>3, <1>4, InPlaceKeeps

LEMMA DeletedKeeps ==
    ASSUME BoardInv, NEW n,
           board' = [i \in DOMAIN board \ {n} |-> board[i]], UNCHANGED made
    PROVE  BoardInv' /\ RowsKept
<1>1. IsTable(board') /\ Assigned(board')
  BY DEF BoardInv, IsTable, Assigned
<1> QED
  BY <1>1, InPlaceKeeps

LEMMA GeneratedKeeps ==
    ASSUME BoardInv, NEW t \in Teams, run_task_generator(t)
    PROVE  BoardInv' /\ RowsKept
<1>1. CASE UNCHANGED rows
  BY <1>1, InPlaceKeeps DEF rows, BoardInv
<1>2. ASSUME NEW n \in 0 .. MaxProposals,
             NEW proposals \in [1 .. n -> Proposals],
             Created(Planned(board, t, proposals))
      PROVE  BoardInv' /\ RowsKept
  <2>1. n \in Nat
    BY BoardAssumption
  <2> QED
    BY <1>2, <2>1, PlannedGrows, CreatedKeeps
<1>3. ASSUME NEW x \in [id : DOMAIN board, title : Titles, area : Areas],
             Created(Rewritten(board, t, x))
      PROVE  BoardInv' /\ RowsKept
  BY <1>3, RewrittenKeeps
<1> QED
  BY <1>1, <1>2, <1>3 DEF run_task_generator

-----------------------------------------------------------------------------
(***************************************************************************)
(* The panels.                                                             *)
(***************************************************************************)

\* What was seen of a task stays true of it.
LEMMA SeenKept ==
    ASSUME BoardInv, RowsKept, NEW i, NEW row, Seen(i, row)
    PROVE  Seen(i, row)'
<1>1. i \in Nat /\ i \in 1 .. made' /\ ~(made < i)
  BY DEF Seen, BoardInv, RowsKept
<1>2. Owned(i) => (i \in DOMAIN board' => board'[i].assignee # NoOne)
  BY <1>1 DEF Owned, RowsKept
<1> QED
  BY <1>1, <1>2 DEF Seen, Owned

\* A panel sends something.
LEMMA SendKeeps ==
    ASSUME IInv, NEW p \in Panels, NEW r, Send(p, r),
           r.op = "patch" => /\ r.id \in 1 .. made /\ r.status \in Statuses
                             /\ r.status # "unassigned" => Owned(r.id),
           r.op = "create" => r.row \in Rows /\ r.row.status = "unassigned",
           r.op \in {"generate", "distribute"} => r.team \in Teams
    PROVE  IInv' /\ RowsKept
<1>1. /\ sent' = [sent EXCEPT ![p] = r]
      /\ UNCHANGED <<board, made, team, shown, answers>>
  BY DEF Send, rows
<1>2. sent'[p] = r /\ \A q \in Panels : q # p => sent'[q] = sent[q]
  BY <1>1 DEF IInv, PanelTypes
<1>3. BoardInv' /\ RowsKept
  BY <1>1, InPlaceKeeps DEF IInv, BoardInv
<1>4. PanelTypes'
  BY <1>1 DEF IInv, PanelTypes
<1>5. SentInv'
  BY <1>1, <1>2 DEF IInv, SentInv, Owned
<1>6. ShownInv'
  BY <1>1 DEF IInv, ShownInv, Seen, Owned
<1> QED
  BY <1>3, <1>4, <1>5, <1>6 DEF IInv

\* The backend answers, after a step of the table.
LEMMA AnswerKeeps ==
    ASSUME IInv, BoardInv', RowsKept, NEW p \in Panels, NEW a, Answer(p, a),
           a.kind # "list", a.kind = "task" => Seen(a.id, a.row)'
    PROVE  IInv'
<1>1. /\ sent' = [sent EXCEPT ![p] = Nothing]
      /\ answers' = [answers EXCEPT ![p] = answers[p] \cup {a}]
      /\ UNCHANGED <<team, shown>>
  BY DEF Answer
<1>2. /\ sent'[p] = Nothing /\ \A q \in Panels : q # p => sent'[q] = sent[q]
      /\ answers'[p] = answers[p] \cup {a}
      /\ \A q \in Panels : q # p => answers'[q] = answers[q]
  BY <1>1 DEF IInv, PanelTypes
<1>3. PanelTypes'
  BY <1>1 DEF IInv, PanelTypes
<1>4. ASSUME NEW i, i \in 1 .. made, Owned(i)
      PROVE  i \in 1 .. made' /\ Owned(i)'
  BY <1>4 DEF IInv, BoardInv, RowsKept, Owned
<1>5. ASSUME NEW i, i \in 1 .. made
      PROVE  i \in 1 .. made'
  BY <1>5 DEF IInv, BoardInv, RowsKept
<1>6. SentInv'
  <2>1. /\ Nothing.op # "patch" /\ Nothing.op # "create"
        /\ Nothing.op \notin {"generate", "distribute"}
    BY DEF Nothing
  <2>2. ASSUME NEW q \in Panels, q # p, sent[q].op = "patch"
        PROVE  /\ sent[q].id \in 1 .. made'
               /\ sent[q].status \in Statuses
               /\ sent[q].status # "unassigned" =>
                    (sent[q].id \in DOMAIN board' =>
                       board'[sent[q].id].assignee # NoOne)
    <3>1. PICK i : i = sent[q].id
      OBVIOUS
    <3>2. i \in 1 .. made /\ (sent[q].status # "unassigned" => Owned(i))
          /\ sent[q].status \in Statuses
      BY <2>2, <3>1 DEF IInv, SentInv
    <3>3. i \in 1 .. made' /\ (sent[q].status # "unassigned" => Owned(i)')
      BY <1>4, <1>5, <3>2
    <3> QED
      BY <3>1, <3>2, <3>3 DEF Owned
  <2> QED
    BY <1>2, <2>1, <2>2 DEF IInv, SentInv, Owned
<1>7. ShownInv'
  <2> DEFINE SeenNext(i, row) ==
               /\ i \in 1 .. made'
               /\ row \in Rows
               /\ row.status # "unassigned" =>
                    (i \in DOMAIN board' => board'[i].assignee # NoOne)
  <2>1. ASSUME NEW i, NEW row, Seen(i, row)
        PROVE  SeenNext(i, row)
    <3>1. Seen(i, row)'
      BY <2>1, SeenKept DEF IInv
    <3> QED
      BY <3>1 DEF Seen, Owned
  <2>2. \A q \in Panels : \A i \in DOMAIN shown[q] : SeenNext(i, shown[q][i])
    BY <2>1 DEF IInv, ShownInv
  <2>3. a.kind = "task" => SeenNext(a.id, a.row)
    BY DEF Seen, Owned
  <2>4. ASSUME NEW q \in Panels, NEW c \in answers'[q]
        PROVE  /\ c.kind = "list" =>
                    \A i \in DOMAIN c.tasks : SeenNext(i, c.tasks[i])
               /\ c.kind = "task" => SeenNext(c.id, c.row)
    <3>1. CASE c \in answers[q]
      BY <2>1, <3>1 DEF IInv, ShownInv
    <3>2. CASE c = a
      BY <2>3, <3>2
    <3> QED
      BY <1>2, <3>1, <3>2
  <2> QED
    BY <1>1, <2>2, <2>4 DEF ShownInv, Seen, Owned
<1> QED
  BY <1>3, <1>6, <1>7 DEF IInv

\* Rows as they are now are on their way to a panel.
LEMMA ListKeeps ==
    ASSUME IInv, NEW p \in Panels, list_tasks_endpoint(p)
    PROVE  IInv' /\ RowsKept
<1> DEFINE f == [i \in TeamRows(board, team[p]) |-> board[i]]
<1>1. PICK a : a = [kind |-> "list", tasks |-> f]
  OBVIOUS
<1>2. /\ answers' = [answers EXCEPT ![p] = answers[p] \cup {a}]
      /\ UNCHANGED <<board, made, team, shown, sent>>
  BY <1>1 DEF list_tasks_endpoint, rows
<1>3. \A i \in DOMAIN f : Seen(i, f[i])
  BY DEF IInv, BoardInv, IsTable, Assigned, Seen, Owned, TeamRows
<1>4. a.kind = "list" /\ \A i \in DOMAIN a.tasks : Seen(i, a.tasks[i])
  BY <1>1, <1>3
<1> HIDE DEF f
<1>5. BoardInv' /\ RowsKept
  BY <1>2, InPlaceKeeps DEF IInv, BoardInv
<1>6. PanelTypes' /\ SentInv'
  BY <1>2 DEF IInv, PanelTypes, SentInv, Owned
<1>7. \A q \in Panels : \A c \in answers'[q] : c \in answers[q] \/ c = a
  BY <1>2 DEF IInv, PanelTypes
<1>8. ShownInv'
  BY <1>2, <1>4, <1>7 DEF IInv, ShownInv, Seen, Owned
<1> QED
  BY <1>5, <1>6, <1>8 DEF IInv

\* A panel takes an answer, whatever it has shown since.
LEMMA TakeKeeps ==
    ASSUME IInv, NEW p \in Panels, NEW a, Take(p, a)
    PROVE  IInv' /\ RowsKept
<1>1. /\ a \in answers[p] /\ shown' = [shown EXCEPT ![p] = Show(p, a)]
      /\ answers' = [answers EXCEPT ![p] = answers[p] \ {a}]
      /\ UNCHANGED <<board, made, team, sent>>
  BY DEF Take, rows
<1>2. /\ a.kind = "list" => \A i \in DOMAIN a.tasks : Seen(i, a.tasks[i])
      /\ a.kind = "task" => Seen(a.id, a.row)
      /\ \A i \in DOMAIN shown[p] : Seen(i, shown[p][i])
  BY <1>1 DEF IInv, ShownInv
<1>3. \A i \in DOMAIN Show(p, a) : Seen(i, Show(p, a)[i])
  <2>1. CASE a.kind = "list"
    BY <1>2, <2>1 DEF Show
  <2>2. CASE a.kind = "task"
    <3>1. Show(p, a) = [i \in DOMAIN shown[p] |->
                          IF i = a.id THEN a.row ELSE shown[p][i]]
      BY <2>2 DEF Show
    <3> QED
      BY <1>2, <2>2, <3>1
  <2>3. CASE a.kind = "deleted"
    <3>1. Show(p, a) = [i \in DOMAIN shown[p] \ {a.id} |-> shown[p][i]]
      BY <2>3 DEF Show
    <3> QED
      BY <1>2, <3>1
  <2>4. CASE a.kind \notin {"list", "task", "deleted"}
    <3>1. Show(p, a) = shown[p]
      BY <2>4 DEF Show
    <3> QED
      BY <1>2, <3>1
  <2> QED
    BY <2>1, <2>2, <2>3, <2>4
<1>4. PICK f : f = Show(p, a)
  OBVIOUS
<1>5. BoardInv' /\ RowsKept
  BY <1>1, InPlaceKeeps DEF IInv, BoardInv
<1>6. PanelTypes' /\ SentInv'
  BY <1>1 DEF IInv, PanelTypes, SentInv, Owned
<1>7. /\ shown'[p] = f /\ \A q \in Panels : q # p => shown'[q] = shown[q]
      /\ \A q \in Panels : answers'[q] \subseteq answers[q]
  BY <1>1, <1>4 DEF IInv, PanelTypes
<1>8. ShownInv'
  BY <1>1, <1>3, <1>4, <1>7 DEF IInv, ShownInv, Seen, Owned
<1> QED
  BY <1>5, <1>6, <1>8 DEF IInv

LEMMA SwitchKeeps ==
    ASSUME IInv, NEW p \in Panels, NEW t \in Teams, SwitchTeam(p, t)
    PROVE  IInv' /\ RowsKept
<1>1. team' = [team EXCEPT ![p] = t] /\ UNCHANGED <<board, made, shown, sent, answers>>
  BY DEF SwitchTeam, rows
<1>2. BoardInv' /\ RowsKept
  BY <1>1, InPlaceKeeps DEF IInv, BoardInv
<1>3. PanelTypes' /\ SentInv'
  BY <1>1 DEF IInv, PanelTypes, SentInv, Owned
<1>4. ShownInv'
  BY <1>1 DEF IInv, ShownInv, Seen, Owned
<1> QED
  BY <1>2, <1>3, <1>4 DEF IInv

\* The buttons of a row: a status that says work has begun is sent only for a
\* row that was shown as begun.
LEMMA SendActionKeeps ==
    ASSUME IInv, NEW p \in Panels, SendAction(p)
    PROVE  IInv' /\ RowsKept
<1>1. PICK i \in DOMAIN shown[p], s \in Statuses :
        /\ \E who : Send(p, Patch(i, s, who))
        /\ s # "unassigned" => shown[p][i].status # "unassigned"
  BY DEF SendAction, Statuses
<1>2. PICK r : Send(p, r) /\ \E who : r = Patch(i, s, who)
  BY <1>1
<1>3. r.op = "patch" /\ r.id = i /\ r.status = s
  BY <1>2 DEF Patch
<1>4. Seen(i, shown[p][i])
  BY DEF IInv, ShownInv
<1>5. i \in 1 .. made /\ (s # "unassigned" => Owned(i))
  BY <1>1, <1>4 DEF Seen
<1> QED
  BY <1>2, <1>3, <1>5, SendKeeps

LEMMA SendOtherKeeps ==
    ASSUME IInv, NEW p \in Panels, SendDelete(p) \/ SendCreate(p) \/ SendPlan(p)
    PROVE  IInv' /\ RowsKept
<1>1. team[p] \in Teams
  BY DEF IInv, PanelTypes
<1>2. PICK r : /\ Send(p, r)
               /\ r.op # "patch"
               /\ r.op = "create" => r.row \in Rows /\ r.row.status = "unassigned"
               /\ r.op \in {"generate", "distribute"} => r.team \in Teams
  <2>1. ASSUME NEW i \in DOMAIN shown[p], Send(p, [op |-> "delete", id |-> i])
        PROVE  \E r : /\ Send(p, r) /\ r.op = "delete"
    BY <2>1
  <2>2. ASSUME NEW title \in Titles, NEW area \in Areas,
               NEW who \in Members \cup {NoOne},
               Send(p, [op |-> "create",
                        row |-> NewRow(team[p], title, NoRef, area, who)])
        PROVE  \E r : /\ Send(p, r) /\ r.op = "create"
                      /\ r.row \in Rows /\ r.row.status = "unassigned"
    <3>1. PICK row : row = NewRow(team[p], title, NoRef, area, who)
      OBVIOUS
    <3>2. row \in Rows /\ row.status = "unassigned"
      BY <1>1, <3>1 DEF NewRow, Rows, Statuses
    <3> QED
      BY <2>2, <3>1, <3>2
  <2>3. ASSUME NEW op \in {"generate", "distribute"},
               Send(p, [op |-> op, team |-> team[p]])
        PROVE  \E r : /\ Send(p, r) /\ r.op \in {"generate", "distribute"}
                      /\ r.team \in Teams
    BY <1>1, <2>3
  <2> QED
    BY <2>1, <2>2, <2>3 DEF SendDelete, SendCreate, SendPlan
<1> QED
  BY <1>2, SendKeeps

\* The endpoints that answer.
LEMMA HandleKeeps ==
    ASSUME IInv, NEW p \in Panels, Handle(p)
    PROVE  IInv' /\ RowsKept
<1>0. BoardInv
  BY DEF IInv
<1>1. CASE create_task_endpoint(p)
  <2>1. PICK r : r = sent[p].row
    OBVIOUS
  <2>2. r \in Rows /\ r.status = "unassigned" /\ Created(create_task(board, r))
    BY <1>1, <2>1 DEF create_task_endpoint, IInv, SentInv
  <2>3. BoardInv' /\ RowsKept
    BY <1>0, <2>2, BoardIsGrown, CreateGrows, CreatedKeeps
  <2> QED
    BY <1>1, <2>3, AnswerKeeps DEF create_task_endpoint
<1>2. CASE update_task_endpoint(p)
  <2>1. PICK r : r = sent[p]
    OBVIOUS
  <2>2. r.status \in Statuses /\ (r.status # "unassigned" => Owned(r.id))
        /\ r.id \in 1 .. made
    BY <1>2, <2>1 DEF update_task_endpoint, IInv, SentInv
  <2>3. CASE r.id \in DOMAIN board
    <3>1. /\ board' = [board EXCEPT ![r.id] = Patched(@, r)] /\ UNCHANGED made
          /\ Answer(p, [kind |-> "task", id |-> r.id, row |-> board'[r.id]])
      BY <1>2, <2>1, <2>3 DEF update_task_endpoint
    <3>2. PICK n \in DOMAIN board : n = r.id
      BY <2>3
    <3>3. /\ BoardInv' /\ RowsKept
          /\ board'[n] \in Rows /\ board'[n].status = r.status
          /\ board'[n].assignee = board[n].assignee
      BY <1>0, <2>2, <3>1, <3>2, PatchedKeeps
    <3>4. PICK row : row = board'[n]
      OBVIOUS
    <3>5. Seen(n, row)'
      BY <1>0, <2>2, <3>1, <3>2, <3>3, <3>4 DEF Seen, Owned
    <3>6. PICK a : a = [kind |-> "task", id |-> n, row |-> row]
      OBVIOUS
    <3>7. Answer(p, a) /\ a.kind = "task" /\ a.id = n /\ a.row = row
      BY <3>1, <3>2, <3>4, <3>6
    <3> QED
      BY <3>3, <3>5, <3>7, AnswerKeeps
  <2>4. CASE r.id \notin DOMAIN board
    <3>1. UNCHANGED <<board, made>> /\ Answer(p, [kind |-> "error"])
      BY <1>2, <2>1, <2>4 DEF update_task_endpoint
    <3>2. BoardInv' /\ RowsKept
      BY <1>0, <3>1, InPlaceKeeps DEF BoardInv
    <3> QED
      BY <3>1, <3>2, AnswerKeeps
  <2> QED
    BY <2>3, <2>4
<1>3. CASE delete_task_endpoint(p)
  <2>1. PICK n : n = sent[p].id
    OBVIOUS
  <2>2. BoardInv' /\ RowsKept
    BY <1>0, <1>3, <2>1, DeletedKeeps DEF delete_task_endpoint
  <2>3. PICK a : a = IF sent[p].id \in DOMAIN board
                     THEN [kind |-> "deleted", id |-> sent[p].id]
                     ELSE [kind |-> "error"]
    OBVIOUS
  <2>4. Answer(p, a) /\ a.kind \notin {"list", "task"}
    BY <1>3, <2>3 DEF delete_task_endpoint
  <2> QED
    BY <2>2, <2>4, AnswerKeeps
<1>4. CASE generate_tasks_endpoint(p)
  <2>1. sent[p].team \in Teams
    BY <1>4 DEF generate_tasks_endpoint, IInv, SentInv
  <2>2. BoardInv' /\ RowsKept
    BY <1>0, <1>4, <2>1, GeneratedKeeps DEF generate_tasks_endpoint
  <2> QED
    BY <1>4, <2>2, AnswerKeeps DEF generate_tasks_endpoint
<1>5. CASE distribute_tasks_endpoint(p)
  <2>1. sent[p].team \in Teams
    BY <1>5 DEF distribute_tasks_endpoint, IInv, SentInv
  <2>2. BoardInv' /\ RowsKept
    BY <1>0, <1>5, <2>1, AssignedKeeps DEF distribute_tasks_endpoint
  <2> QED
    BY <1>5, <2>2, AnswerKeeps DEF distribute_tasks_endpoint
<1> QED
  BY <1>1, <1>2, <1>3, <1>4, <1>5 DEF Handle

LEMMA NextKeeps ==
    ASSUME IInv, Next
    PROVE  IInv' /\ RowsKept
<1>1. PICK p \in Panels :
        \/ SendAction(p) \/ SendDelete(p) \/ SendCreate(p) \/ SendPlan(p)
        \/ Handle(p) \/ list_tasks_endpoint(p) \/ TakeAny(p)
        \/ \E t \in Teams : SwitchTeam(p, t)
  BY DEF Next
<1>2. CASE SendAction(p)
  BY <1>2, SendActionKeeps
<1>3. CASE SendDelete(p) \/ SendCreate(p) \/ SendPlan(p)
  BY <1>3, SendOtherKeeps
<1>4. CASE Handle(p)
  BY <1>4, HandleKeeps
<1>5. CASE list_tasks_endpoint(p)
  BY <1>5, ListKeeps
<1>6. CASE TakeAny(p)
  BY <1>6, TakeKeeps DEF TakeAny
<1>7. CASE \E t \in Teams : SwitchTeam(p, t)
  BY <1>7, SwitchKeeps
<1> QED
  BY <1>1, <1>2, <1>3, <1>4, <1>5, <1>6, <1>7

LEMMA InitInv ==
    ASSUME Init
    PROVE  IInv
<1>1. DOMAIN board = {} /\ made = 0
  BY DEF Init, Empty
<1>2. BoardInv
  BY <1>1 DEF Init, Empty, BoardInv, IsTable, OneTask, Assigned
<1>3. PanelTypes
  BY DEF Init, PanelTypes
<1>4. SentInv
  BY DEF Init, SentInv, Nothing
<1>5. ShownInv
  BY DEF Init, ShownInv, Empty
<1> QED
  BY <1>2, <1>3, <1>4, <1>5 DEF IInv

-----------------------------------------------------------------------------
(***************************************************************************)
(* The theorems.                                                           *)
(***************************************************************************)

\* The inductive invariant, for any number of panels and proposals.
THEOREM BoardInvariance == Spec => []IInv
<1>1. IInv /\ [Next]_vars => IInv'
  <2> SUFFICES ASSUME IInv, [Next]_vars PROVE IInv'
    OBVIOUS
  <2>1. CASE UNCHANGED vars
    BY <2>1 DEF vars, rows, IInv, BoardInv, PanelTypes, SentInv, ShownInv,
                Seen, Owned
  <2> QED
    BY <2>1, NextKeeps
<1> QED
  BY <1>1, InitInv, PTL DEF Spec

\* No requirement of a team ever has two tasks, whatever the model proposes,
\* however many of its proposals repeat each other or what was rejected.
THEOREM FeaturesOnce == Spec => []OneTaskPerFeature
<1>1. IInv => OneTaskPerFeature
  BY DEF IInv, BoardInv, OneTask, OneTaskPerFeature
<1> QED
  BY <1>1, BoardInvariance, PTL

\* Work that has begun is somebody's, though the buttons that were clicked
\* belong to rows that may be old, of a team the user has left, or deleted, and
\* the model may name a member for any task of any team.
THEOREM WorkAssigned == Spec => []StartedWorkHasAssignee
<1>1. IInv => StartedWorkHasAssignee
  BY DEF IInv, BoardInv, Assigned, StartedWorkHasAssignee
<1> QED
  BY <1>1, BoardInvariance, PTL
=============================================================================
