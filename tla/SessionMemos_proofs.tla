------------------------ MODULE SessionMemos_proofs -------------------------
(***************************************************************************)
(* Theorems about SessionMemos, for any sessions, texts, memos, clicks and *)
(* calls on their way.                                                     *)
(*                                                                         *)
(* A memo keeps its text: t is the text of every memo ever added.  The     *)
(* operators say what a list, a call and the rows may be when the texts    *)
(* are t, the rows R and the posts on their way those of P; they have no   *)
(* variables, so that one lemma (StepKeeps...) covers lists and calls that *)
(* a step leaves alone while it changes the rows.                          *)
(***************************************************************************)
EXTENDS SessionMemos, FiniteSetTheorems, FunctionTheorems, TLAPS

Rows == [session : Sessions, text : Texts, version : Nat,
         section : {"Global", "Idea Chat"}]
CommentsOf(t) ==
    [memo : DOMAIN t, text : Texts, version : Nat, temp : BOOLEAN]
Designs == [built : BOOLEAN, counter : Nat, marker : Nat]

Posts(C) == {c \in C : c.op = "post"}

\* The rows are numbered memos with their texts.
TableOK(t, R, m) ==
    /\ m \in Nat /\ t \in [1 .. m -> Texts]
    /\ DOMAIN R \subseteq 1 .. m
    /\ \A k \in DOMAIN R : R[k] \in Rows /\ R[k].text = t[k]

\* What a list takes for reflected the table has as such; a memo that waits
\* for its row has its temporary id and no version.
CommentOK(x, t, R, P) ==
    /\ x \in CommentsOf(t) /\ x.text = t[x.memo]
    /\ x.version # 0 /\ x.memo \in DOMAIN R => R[x.memo].version # 0
    /\ \A p \in P : p.memo = x.memo => x.temp /\ x.version = 0

Once(L) == \A x, y \in L : x.memo = y.memo => x = y

ListOK(L, t, R, P) == Once(L) /\ \A x \in L : CommentOK(x, t, R, P)

\* Memos to be marked have, or had, a row.
MarksOK(M, t, P) == M \subseteq DOMAIN t /\ \A p \in P : p.memo \notin M

CallOK(c, t, R, P) ==
    \/ c.op \in {"get", "restore", "delete"}
    \/ c \in [op : {"chat"}, session : Sessions \cup {NoSession}]
    \/ c \in [op : {"noted"}, session : Sessions \cup {NoSession},
              notes : SUBSET Texts]
    \/ c.op = "got" /\ ListOK(c.items, t, R, P)
    \/ /\ c \in [op : {"post"}, session : Sessions, memo : DOMAIN t, text : Texts]
       /\ c.text = t[c.memo] /\ c.memo \notin DOMAIN R
    \/ c.op = "posted" /\ MarksOK({c.memo}, t, P)
    \/ /\ c \in [op : {"apply", "applied"}, memos : SUBSET DOMAIN t,
                 version : Nat \ {0}]
       /\ MarksOK(c.memos, t, P)
       /\ c.op = "applied" =>
            \A k \in c.memos : k \in DOMAIN R => R[k].version # 0

OnePost(C) == \A p, q \in Posts(C) : p.memo = q.memo => p = q

SavedOK(v, t, R, P) ==
    \A s \in DOMAIN v : ListOK(v[s].comments, t, R, P) /\ v[s].design \in Designs

SyncOK(y, t, P) ==
    /\ MarksOK(y.memos, t, P) /\ y.version \in Nat
    /\ y.memos # {} => y.version # 0

\* The inductive invariant, for the texts t.
MemoInv(t) ==
    /\ TableOK(t, rows, made)
    /\ ListOK(shown, t, rows, Posts(calls))
    /\ SavedOK(saved, t, rows, Posts(calls))
    /\ current \in Sessions \cup {NoSession} /\ design \in Designs
    /\ SyncOK(sync, t, Posts(calls))
    /\ OnePost(calls) /\ \A c \in calls : CallOK(c, t, rows, Posts(calls))

\* How the texts, the rows and the calls may change: a row is new, or an older
\* one that stays reflected if it was, or that of a post that is answered.
StepOK(t, u, R, S, C, D) ==
    /\ DOMAIN t \subseteq DOMAIN u /\ \A k \in DOMAIN t : u[k] = t[k]
    /\ \A p \in Posts(D) : p \in C \/ p.memo \notin DOMAIN t
    /\ \A k \in DOMAIN S :
         \/ k \notin DOMAIN t
         \/ k \in DOMAIN R /\ (R[k].version # 0 => S[k].version # 0)
         \/ \E p \in Posts(C) \ D : p.memo = k

-----------------------------------------------------------------------------

LEMMA StepKeepsComment ==
    ASSUME NEW t, NEW u, NEW R, NEW S, NEW C, NEW D, StepOK(t, u, R, S, C, D),
           NEW x, CommentOK(x, t, R, Posts(C))
    PROVE  CommentOK(x, u, S, Posts(D))
<1>1. x \in CommentsOf(t) /\ x.memo \in DOMAIN t /\ x \in CommentsOf(u)
      /\ x.text = u[x.memo]
  BY DEF CommentOK, CommentsOf, StepOK
<1>2. ASSUME x.version # 0, x.memo \in DOMAIN S PROVE S[x.memo].version # 0
  BY <1>1, <1>2 DEF CommentOK, StepOK
<1>3. ASSUME NEW p \in Posts(D), p.memo = x.memo PROVE x.temp /\ x.version = 0
  BY <1>1, <1>3 DEF CommentOK, StepOK, Posts
<1> QED
  BY <1>1, <1>2, <1>3 DEF CommentOK

LEMMA StepKeepsList ==
    ASSUME NEW t, NEW u, NEW R, NEW S, NEW C, NEW D, StepOK(t, u, R, S, C, D),
           NEW L, ListOK(L, t, R, Posts(C))
    PROVE  ListOK(L, u, S, Posts(D))
BY StepKeepsComment DEF ListOK

LEMMA StepKeepsMarks ==
    ASSUME NEW t, NEW u, NEW R, NEW S, NEW C, NEW D, StepOK(t, u, R, S, C, D),
           NEW M, MarksOK(M, t, Posts(C))
    PROVE  MarksOK(M, u, Posts(D))
BY DEF MarksOK, StepOK, Posts

LEMMA StepKeepsCall ==
    ASSUME NEW t, NEW u, NEW R, NEW S, NEW C, NEW D, StepOK(t, u, R, S, C, D),
           OnePost(C), NEW c \in C \cap D, CallOK(c, t, R, Posts(C))
    PROVE  CallOK(c, u, S, Posts(D))
<1>1. CASE \/ c.op \in {"get", "restore", "delete"}
           \/ c \in [op : {"chat"}, session : Sessions \cup {NoSession}]
           \/ c \in [op : {"noted"}, session : Sessions \cup {NoSession},
                     notes : SUBSET Texts]
  BY <1>1 DEF CallOK
<1>2. CASE c.op = "got" /\ ListOK(c.items, t, R, Posts(C))
  BY <1>2, StepKeepsList DEF CallOK
<1>3. CASE /\ c \in [op : {"post"}, session : Sessions, memo : DOMAIN t,
                     text : Texts]
           /\ c.text = t[c.memo] /\ c.memo \notin DOMAIN R
  <2>1. /\ c \in [op : {"post"}, session : Sessions, memo : DOMAIN u,
                  text : Texts]
        /\ c.text = u[c.memo] /\ c.memo \in DOMAIN t /\ c \in Posts(C)
    BY <1>3 DEF StepOK, Posts
  <2>2. c.memo \notin DOMAIN S
    BY <1>3, <2>1 DEF StepOK, OnePost
  <2> QED
    BY <2>1, <2>2 DEF CallOK
<1>4. CASE c.op = "posted" /\ MarksOK({c.memo}, t, Posts(C))
  BY <1>4, StepKeepsMarks DEF CallOK
<1>5. CASE /\ c \in [op : {"apply", "applied"}, memos : SUBSET DOMAIN t,
                     version : Nat \ {0}]
           /\ MarksOK(c.memos, t, Posts(C))
           /\ c.op = "applied" =>
                \A k \in c.memos : k \in DOMAIN R => R[k].version # 0
  <2>1. c \in [op : {"apply", "applied"}, memos : SUBSET DOMAIN u,
               version : Nat \ {0}]
    BY <1>5 DEF StepOK
  <2>2. MarksOK(c.memos, u, Posts(D))
    BY <1>5, StepKeepsMarks
  <2>3. ASSUME c.op = "applied", NEW k \in c.memos, k \in DOMAIN S
        PROVE  S[k].version # 0
    BY <1>5, <2>3 DEF StepOK, MarksOK
  <2> QED
    BY <2>1, <2>2, <2>3 DEF CallOK
<1> QED
  BY <1>1, <1>2, <1>3, <1>4, <1>5 DEF CallOK

\* What a step leaves alone stays as it must be.
LEMMA StepKeepsWindow ==
    ASSUME NEW t, NEW u, MemoInv(t), StepOK(t, u, rows, rows', calls, calls'),
           UNCHANGED window,
           TableOK(u, rows', made'), OnePost(calls'),
           \A c \in calls' \ calls : CallOK(c, u, rows', Posts(calls'))
    PROVE  MemoInv(u)'
<1>1. ListOK(shown', u, rows', Posts(calls'))
  BY StepKeepsList DEF MemoInv, window
<1>2. SavedOK(saved', u, rows', Posts(calls'))
  BY StepKeepsList DEF MemoInv, SavedOK, window
<1>3. SyncOK(sync', u, Posts(calls'))
  BY StepKeepsMarks DEF MemoInv, SyncOK, window
<1>4. \A c \in calls' : CallOK(c, u, rows', Posts(calls'))
  BY StepKeepsCall DEF MemoInv
<1> QED
  BY <1>1, <1>2, <1>3, <1>4 DEF MemoInv, window

\* A step of the window: no row changes and nothing is posted.
LEMMA WindowKeeps ==
    ASSUME NEW t, MemoInv(t), UNCHANGED table,
           \A c \in calls' \ calls :
             c.op # "post" /\ CallOK(c, t, rows, Posts(calls)),
           ListOK(shown', t, rows, Posts(calls)),
           SavedOK(saved', t, rows, Posts(calls)),
           current' \in Sessions \cup {NoSession}, design' \in Designs,
           SyncOK(sync', t, Posts(calls))
    PROVE  MemoInv(t)'
<1>1. Posts(calls') \subseteq Posts(calls)
  BY DEF Posts
<1>2. StepOK(t, t, rows, rows', calls, calls') /\ OnePost(calls')
  BY <1>1 DEF StepOK, OnePost, MemoInv, table, Posts
<1>3. TableOK(t, rows', made')
  BY DEF MemoInv, table
<1>4. ListOK(shown', t, rows', Posts(calls'))
  BY <1>2, StepKeepsList
<1>5. SavedOK(saved', t, rows', Posts(calls'))
  BY <1>2, StepKeepsList DEF SavedOK
<1>6. SyncOK(sync', t, Posts(calls'))
  BY <1>2, StepKeepsMarks DEF SyncOK
<1>7. ASSUME NEW c \in calls' PROVE CallOK(c, t, rows', Posts(calls'))
  <2>1. CallOK(c, t, rows, Posts(calls))
    BY DEF MemoInv
  <2> DEFINE D == Posts(calls')
  <2>2. CASE c \in calls
    BY <1>2, <2>1, <2>2, StepKeepsCall DEF MemoInv
  <2>3. CASE c \notin calls
    <3>1. StepOK(t, t, rows, rows, calls \cup {c}, calls')
      BY <1>1, <2>3 DEF StepOK, Posts
    <3>2. Posts(calls \cup {c}) = Posts(calls)
      BY <2>3 DEF Posts
    <3>3. OnePost(calls \cup {c})
      BY <3>2 DEF OnePost, MemoInv
    <3>4. CallOK(c, t, rows, Posts(calls \cup {c}))
      BY <2>1, <3>2
    <3>5. CallOK(c, t, rows, Posts(calls'))
      BY <3>1, <3>3, <3>4, StepKeepsCall
    <3> QED
      BY <3>5 DEF table
  <2> QED
    BY <2>2, <2>3
<1> QED
  BY <1>2, <1>3, <1>4, <1>5, <1>6, <1>7 DEF MemoInv

-----------------------------------------------------------------------------

LEMMA InitMemoInv ==
    ASSUME Init
    PROVE  \E t : MemoInv(t)
<1> DEFINE t == [k \in 1 .. made |-> 0]
<1>1. made = 0 /\ t \in [1 .. made -> Texts] /\ DOMAIN rows = {}
  BY DEF Init
<1>2. SavedOK(saved, t, rows, Posts(calls))
  <2>1. PICK some \in SUBSET Sessions : saved = [s \in some |-> NewSession]
    BY DEF Init
  <2>2. NewSession.comments = {} /\ NewSession.design \in Designs
    BY DEF NewSession, Blank, Designs
  <2>3. ListOK({}, t, rows, Posts(calls))
    BY DEF ListOK, Once
  <2> HIDE DEF t
  <2> QED
    BY <2>1, <2>2, <2>3 DEF SavedOK
<1>3. SyncOK(sync, t, Posts(calls))
  BY DEF Init, SyncOK, NoSync, MarksOK
<1>4. MemoInv(t)
  BY <1>1, <1>2, <1>3
     DEF Init, MemoInv, TableOK, ListOK, Once, Blank, Designs, OnePost, Posts
<1> QED
  BY <1>4

(***************************************************************************)
(* The endpoints.                                                          *)
(***************************************************************************)

\* The list of a session is in order.
LEMMA ShownOK ==
    ASSUME NEW t, MemoInv(t), NEW s
    PROVE  ListOK(Shown(s), t, rows, Posts(calls))
<1>1. ASSUME NEW x \in Shown(s) PROVE CommentOK(x, t, rows, Posts(calls))
  <2>1. PICK k \in DOMAIN rows : x = Comment(k, rows[k].text, rows[k].version, FALSE)
    BY <1>1 DEF Shown
  <2>2. /\ x \in CommentsOf(t) /\ x.text = t[x.memo] /\ x.memo = k
        /\ x.version = rows[k].version
    BY <2>1 DEF MemoInv, TableOK, Comment, CommentsOf, Rows
  <2>3. \A p \in Posts(calls) : p.memo \notin DOMAIN rows
    BY DEF MemoInv, CallOK, Posts
  <2> QED
    BY <2>1, <2>2, <2>3 DEF CommentOK
<1>2. Once(Shown(s))
  <2> SUFFICES ASSUME NEW x \in Shown(s), NEW y \in Shown(s), x.memo = y.memo
               PROVE  x = y
    BY DEF Once
  <2>1. PICK i \in DOMAIN rows : x = Comment(i, rows[i].text, rows[i].version, FALSE)
    BY DEF Shown
  <2>2. PICK k \in DOMAIN rows : y = Comment(k, rows[k].text, rows[k].version, FALSE)
    BY DEF Shown
  <2>3. i = k
    BY <2>1, <2>2 DEF Comment
  <2> QED
    BY <2>1, <2>2, <2>3
<1> QED
  BY <1>1, <1>2 DEF ListOK

\* An endpoint that leaves the rows alone.
LEMMA AnswerKeeps ==
    ASSUME NEW t, MemoInv(t), NEW c \in calls, NEW d,
           UNCHANGED <<table, window>>, Answer(c, {d}),
           d.op # "post", CallOK(d, t, rows, Posts(calls))
    PROVE  MemoInv(t)'
BY WindowKeeps DEF MemoInv, Answer, window

LEMMA AddMemoKeeps ==
    ASSUME NEW t, MemoInv(t), NEW c \in calls, c.op = "post", add_memo(c),
           UNCHANGED window
    PROVE  MemoInv(t)'
<1> DEFINE d == [op |-> "posted", memo |-> c.memo]
           r == Row(c.session, c.text, "Global")
<1>1. /\ c \in [op : {"post"}, session : Sessions, memo : DOMAIN t, text : Texts]
      /\ c.text = t[c.memo] /\ c.memo \notin DOMAIN rows /\ c \in Posts(calls)
  BY DEF MemoInv, CallOK, Posts
<1>2. /\ calls' = (calls \ {c}) \cup {d} /\ made' = made /\ d.op = "posted"
      /\ DOMAIN rows' = DOMAIN rows \cup {c.memo}
      /\ rows'[c.memo] = r /\ \A k \in DOMAIN rows : rows'[k] = rows[k]
  BY <1>1 DEF add_memo, Answer, With
<1>3. Posts(calls') = Posts(calls) \ {c}
  BY <1>1, <1>2 DEF Posts
<1>4. TableOK(t, rows', made')
  <2>1. r \in Rows /\ r.text = t[c.memo]
    BY <1>1 DEF Row, Rows
  <2> HIDE DEF r
  <2> QED
    BY <1>1, <1>2, <2>1 DEF MemoInv, TableOK
<1>5. StepOK(t, t, rows, rows', calls, calls')
  <2>1. c \in Posts(calls) \ calls'
    BY <1>1, <1>2
  <2> QED
    BY <1>1, <1>2, <1>3, <2>1 DEF StepOK, Posts
<1>6. OnePost(calls')
  BY <1>3 DEF OnePost, MemoInv
<1>7. MarksOK({c.memo}, t, Posts(calls'))
  BY <1>1, <1>3 DEF MarksOK, OnePost, MemoInv
<1>8. \A x \in calls' \ calls : CallOK(x, t, rows', Posts(calls'))
  BY <1>2, <1>7 DEF CallOK
<1> QED
  BY <1>4, <1>5, <1>6, <1>8, StepKeepsWindow

LEMMA DeleteMemoKeeps ==
    ASSUME NEW t, MemoInv(t), NEW c \in calls, delete_memo(c), UNCHANGED window
    PROVE  MemoInv(t)'
<1>1. /\ calls' = calls \ {c} /\ made' = made
      /\ DOMAIN rows' = DOMAIN rows \ {c.memo}
      /\ \A k \in DOMAIN rows' : rows'[k] = rows[k]
  BY DEF delete_memo, Answer, Without
<1>2. TableOK(t, rows', made') /\ OnePost(calls') /\ calls' \ calls = {}
  BY <1>1 DEF MemoInv, TableOK, OnePost, Posts
<1>3. StepOK(t, t, rows, rows', calls, calls')
  BY <1>1 DEF StepOK, Posts
<1> QED
  BY <1>2, <1>3, StepKeepsWindow

LEMMA ApplyMemosKeeps ==
    ASSUME NEW t, MemoInv(t), NEW c \in calls, c.op = "apply", apply_memos(c),
           UNCHANGED window
    PROVE  MemoInv(t)'
<1> DEFINE d == [c EXCEPT !.op = "applied"]
<1>1. /\ c \in [op : {"apply", "applied"}, memos : SUBSET DOMAIN t,
                 version : Nat \ {0}]
      /\ MarksOK(c.memos, t, Posts(calls))
  BY DEF MemoInv, CallOK
<1>2. /\ d \in [op : {"apply", "applied"}, memos : SUBSET DOMAIN t,
                 version : Nat \ {0}]
      /\ d.op = "applied" /\ d.memos = c.memos /\ d.version = c.version
  BY <1>1
<1>3. calls' = (calls \ {c}) \cup {d} /\ made' = made
      /\ rows' = [k \in DOMAIN rows |->
                    IF k \in c.memos
                    THEN [rows[k] EXCEPT !.version = c.version] ELSE rows[k]]
  BY DEF apply_memos, Answer
<1> HIDE DEF d
<1>4. DOMAIN rows' = DOMAIN rows
      /\ \A k \in DOMAIN rows :
           /\ rows'[k] \in Rows /\ rows'[k].text = rows[k].text
           /\ k \in c.memos => rows'[k].version # 0
           /\ k \notin c.memos => rows'[k] = rows[k]
  BY <1>1, <1>3 DEF MemoInv, TableOK, Rows
<1>5. TableOK(t, rows', made')
  BY <1>3, <1>4 DEF MemoInv, TableOK
<1>6. Posts(calls') = Posts(calls)
  BY <1>2, <1>3 DEF Posts
<1>7. StepOK(t, t, rows, rows', calls, calls') /\ OnePost(calls')
  <2>1. \A k \in DOMAIN rows : rows[k].version # 0 => rows'[k].version # 0
    BY <1>4
  <2> QED
    BY <1>4, <1>6, <2>1 DEF StepOK, OnePost, MemoInv, Posts
<1>8. CallOK(d, t, rows', Posts(calls'))
  BY <1>1, <1>2, <1>4, <1>6 DEF CallOK
<1> QED
  BY <1>3, <1>5, <1>7, <1>8, StepKeepsWindow

\* What the chat writes: one new row for each of the fresh notes.
Written(c, new, text, fresh) ==
    /\ fresh \subseteq Texts /\ text \in [new -> fresh]
    /\ made' \in Nat /\ made <= made' /\ new = made + 1 .. made'
    /\ \A i, j \in new : text[i] = text[j] => i = j
    /\ new # {} => c.session \in Sessions /\ fresh = Fresh(c.notes, c.session)
    /\ DOMAIN rows' = DOMAIN rows \cup new
    /\ \A k \in new : rows'[k] = Row(c.session, text[k], "Idea Chat")
    /\ \A k \in DOMAIN rows \ new : rows'[k] = rows[k]

LEMMA NewRows ==
    ASSUME NEW t, MemoInv(t), NEW c \in calls, c.op = "noted", run_idea_chat(c)
    PROVE  \E new, text, fresh : Written(c, new, text, fresh)
<1> DEFINE fresh == IF c.session = NoSession THEN {} ELSE Fresh(c.notes, c.session)
           new == made + 1 .. made + Cardinality(fresh)
<1>1. c \in [op : {"noted"}, session : Sessions \cup {NoSession},
              notes : SUBSET Texts] /\ made \in Nat
  BY DEF MemoInv, CallOK, TableOK
<1>2. fresh \subseteq Texts
  BY <1>1 DEF Fresh
<1>3. IsFiniteSet(fresh) /\ Cardinality(fresh) \in Nat
  BY <1>2, MemoAssumption, FS_Subset, FS_CardinalityType
<1>0. made' = made + Cardinality(fresh)
  BY DEF run_idea_chat
<1>4. PICK text \in [new -> fresh] :
        /\ {text[k] : k \in new} = fresh
        /\ rows' = [k \in DOMAIN rows \cup new |->
                      IF k \in new THEN Row(c.session, text[k], "Idea Chat")
                      ELSE rows[k]]
  BY Zenon DEF run_idea_chat
<1>5. new = made + 1 .. made' /\ made' \in Nat /\ made <= made'
  BY <1>0, <1>1, <1>3
<1>6. \A i, j \in new : text[i] = text[j] => i = j
  <2> HIDE DEF fresh
  <2>1. IsFiniteSet(new) /\ Cardinality(new) = Cardinality(fresh)
    <3>1. made + 1 \in Int /\ made + Cardinality(fresh) \in Int
      BY <1>1, <1>3
    <3> QED
      BY <1>1, <1>3, <3>1, FS_Interval
  <2> HIDE DEF new
  <2>2. text \in Surjection(new, fresh)
    BY <1>4, Fun_IsSurj
  <2>3. text \in Injection(new, fresh)
    BY <1>3, <2>1, <2>2, FS_SurjSameCardinalityImpliesInj
  <2> QED
    BY <2>3, Fun_InjectionProperties
<1>7. new # {} => c.session \in Sessions /\ fresh = Fresh(c.notes, c.session)
  <2>1. CASE c.session = NoSession
    <3>1. fresh = {}
      BY <2>1
    <3>2. Cardinality(fresh) = 0
      BY <3>1, FS_EmptySet
    <3> QED
      BY <1>1, <3>2
  <2>2. CASE c.session # NoSession
    BY <1>1, <2>2
  <2> QED
    BY <2>1, <2>2
<1> HIDE DEF new, fresh
<1>8. /\ DOMAIN rows' = DOMAIN rows \cup new
      /\ \A k \in new : rows'[k] = Row(c.session, text[k], "Idea Chat")
      /\ \A k \in DOMAIN rows \ new : rows'[k] = rows[k]
  BY <1>4
<1> QED
  BY <1>2, <1>4, <1>5, <1>6, <1>7, <1>8 DEF Written

LEMMA IdeaChatKeeps ==
    ASSUME NEW t, MemoInv(t), NEW c \in calls, c.op = "noted", run_idea_chat(c),
           UNCHANGED window
    PROVE  \E u : MemoInv(u)'
<1>0. PICK new, text, fresh : Written(c, new, text, fresh)
  BY NewRows
<1>1. /\ fresh \subseteq Texts /\ text \in [new -> fresh]
      /\ made' \in Nat /\ made <= made' /\ new = made + 1 .. made'
      /\ new # {} => c.session \in Sessions
      /\ DOMAIN rows' = DOMAIN rows \cup new
      /\ \A k \in new : rows'[k] = Row(c.session, text[k], "Idea Chat")
      /\ \A k \in DOMAIN rows \ new : rows'[k] = rows[k]
  BY <1>0 DEF Written
<1>2. made \in Nat /\ t \in [1 .. made -> Texts] /\ DOMAIN rows \subseteq 1 .. made
  BY DEF MemoInv, TableOK
<1>a. /\ 1 .. made' = (1 .. made) \cup new /\ (1 .. made) \cap new = {}
      /\ DOMAIN t = 1 .. made /\ \A k \in new : text[k] \in Texts
  <2>1. \A m, n \in Nat : m <= n => /\ 1 .. n = (1 .. m) \cup (m + 1 .. n)
                                   /\ (1 .. m) \cap (m + 1 .. n) = {}
    OBVIOUS
  <2>2. 1 .. made' = (1 .. made) \cup new /\ (1 .. made) \cap new = {}
    BY <1>1, <1>2, <2>1, Zenon
  <2>3. \A k \in new : text[k] \in Texts
    BY <1>1
  <2> QED
    BY <1>2, <2>2, <2>3
<1>b. PICK u : u = [k \in 1 .. made' |-> IF k \in new THEN text[k] ELSE t[k]]
  OBVIOUS
<1>c. u \in [1 .. made' -> Texts]
  BY <1>2, <1>a, <1>b
<1>d. /\ \A k \in DOMAIN t : u[k] = t[k]
      /\ \A k \in new : u[k] = text[k] /\ k \notin DOMAIN t
  BY <1>2, <1>a, <1>b
<1>3. /\ u \in [1 .. made' -> Texts] /\ \A k \in DOMAIN t : u[k] = t[k]
      /\ DOMAIN t \subseteq DOMAIN u /\ \A k \in new : u[k] = text[k] /\ k \notin DOMAIN t
      /\ new \cap DOMAIN rows = {} /\ new \subseteq 1 .. made'
  BY <1>2, <1>a, <1>c, <1>d
<1>4. calls' = calls \ {c}
  BY DEF run_idea_chat, Answer
<1>5. TableOK(u, rows', made')
  <2>1. ASSUME NEW k \in DOMAIN rows' PROVE rows'[k] \in Rows /\ rows'[k].text = u[k]
    <3>1. CASE k \in new
      <4>1. text[k] \in Texts /\ c.session \in Sessions
        BY <1>1, <1>a, <3>1
      <4>2. rows'[k] = Row(c.session, text[k], "Idea Chat")
        BY <1>1, <3>1
      <4>3. u[k] = text[k]
        BY <1>3, <3>1
      <4>4. /\ Row(c.session, text[k], "Idea Chat") \in Rows
            /\ Row(c.session, text[k], "Idea Chat").text = text[k]
        BY <4>1 DEF Row, Rows
      <4> QED
        BY <4>2, <4>3, <4>4
    <3>2. CASE k \in DOMAIN rows \ new
      BY <1>1, <1>2, <1>3, <3>2 DEF MemoInv, TableOK
    <3> QED
      BY <1>1, <2>1, <3>1, <3>2
  <2> QED
    BY <1>1, <1>2, <1>3, <2>1 DEF TableOK
<1>6. StepOK(t, u, rows, rows', calls, calls')
  <2>1. \A k \in DOMAIN rows' :
          k \notin DOMAIN t \/ (k \in DOMAIN rows /\ rows'[k] = rows[k])
    BY <1>1, <1>3
  <2> QED
    BY <1>d, <1>3, <1>4, <2>1 DEF StepOK, Posts
<1>7. OnePost(calls') /\ calls' \ calls = {}
  BY <1>4 DEF OnePost, Posts, MemoInv
<1>8. MemoInv(u)'
  BY <1>5, <1>6, <1>7, StepKeepsWindow
<1> QED
  BY <1>8

LEMMA HandleKeeps ==
    ASSUME NEW t, MemoInv(t), NEW c \in calls, Handle(c)
    PROVE  \E u : MemoInv(u)'
<1>0. UNCHANGED window
  BY DEF Handle
<1>1. CASE c.op = "get" /\ get_memos(c)
  <2>1. CallOK([op |-> "got", session |-> c.session, items |-> Shown(c.session)],
               t, rows, Posts(calls))
    BY ShownOK DEF CallOK
  <2>2. MemoInv(t)'
    BY <1>0, <1>1, <2>1, AnswerKeeps DEF get_memos
  <2> QED
    BY <2>2
<1>2. CASE c.op = "chat" /\ idea_chat_node(c)
  <2>1. PICK notes \in Notes :
          Answer(c, {[op |-> "noted", session |-> c.session, notes |-> notes]})
    BY <1>2 DEF idea_chat_node
  <2>2. c.session \in Sessions \cup {NoSession}
    BY <1>2 DEF MemoInv, CallOK
  <2>3. CallOK([op |-> "noted", session |-> c.session, notes |-> notes],
               t, rows, Posts(calls))
    BY <2>2 DEF CallOK, Notes
  <2>4. MemoInv(t)'
    BY <1>0, <1>2, <2>1, <2>3, AnswerKeeps DEF idea_chat_node
  <2> QED
    BY <2>4
<1>3. CASE c.op = "post" /\ add_memo(c)
  BY <1>0, <1>3, AddMemoKeeps
<1>4. CASE c.op = "delete" /\ delete_memo(c)
  BY <1>0, <1>4, DeleteMemoKeeps
<1>5. CASE c.op = "apply" /\ apply_memos(c)
  BY <1>0, <1>5, ApplyMemosKeeps
<1>6. CASE c.op = "noted" /\ run_idea_chat(c)
  BY <1>0, <1>6, IdeaChatKeeps
<1> QED
  BY <1>1, <1>2, <1>3, <1>4, <1>5, <1>6 DEF Handle

(***************************************************************************)
(* The window.                                                             *)
(***************************************************************************)

\* Nothing under way, nothing shown, nothing built.
LEMMA EmptyOK ==
    ASSUME NEW t, NEW R, NEW P
    PROVE  /\ SyncOK(NoSync, t, P) /\ ListOK({}, t, R, P)
           /\ Blank \in Designs
           /\ NewSession.comments = {} /\ NewSession.design = Blank
BY DEF SyncOK, NoSync, MarksOK, ListOK, Once, Blank, Designs, NewSession

LEMMA SubListOK ==
    ASSUME NEW t, NEW R, NEW P, NEW L, ListOK(L, t, R, P), NEW M \in SUBSET L
    PROVE  ListOK(M, t, R, P)
BY DEF ListOK, Once

\* A list read from the rows and the memos under way are merged without a
\* memo that is in both: it has the same text in both.
LEMMA MergedOK ==
    ASSUME NEW t, NEW R, NEW P, ListOK(shown, t, R, P),
           NEW items, ListOK(items, t, R, P)
    PROVE  ListOK(Merged(items), t, R, P)
<1>1. ListOK({c \in shown : ~c.temp}, t, R, P)
  BY SubListOK
<1> DEFINE waiting == {c \in shown : c.temp /\ \A i \in items : i.text # c.text}
<1>2. ListOK(waiting, t, R, P)
  BY SubListOK
<1>3. ASSUME NEW i \in items, NEW c \in waiting PROVE i.memo # c.memo
  BY DEF ListOK, CommentOK
<1> HIDE DEF waiting
<1>4. ListOK(items \cup waiting, t, R, P)
  BY <1>2, <1>3 DEF ListOK, Once
<1> QED
  BY <1>1, <1>4 DEF Merged, waiting

\* The calls of the window that may be on their way at any time.
LEMMA HarmlessCalls ==
    ASSUME NEW t, MemoInv(t)
    PROVE  /\ \A c \in Get : c.op # "post" /\ CallOK(c, t, rows, Posts(calls))
           /\ \A gone : \A c \in Deletes(gone) :
                c.op # "post" /\ CallOK(c, t, rows, Posts(calls))
BY DEF Get, Deletes, CallOK

LEMMA MemosComeKeeps ==
    ASSUME NEW t, MemoInv(t), NEW c \in calls, MemosCome(c)
    PROVE  MemoInv(t)'
<1>1. c.op = "got" /\ calls' = calls \ {c} /\ shown' = Merged(c.items)
      /\ UNCHANGED <<table, saved, current, design, sync>>
  BY DEF MemosCome, Answer
<1>2. ListOK(c.items, t, rows, Posts(calls))
  BY <1>1 DEF MemoInv, CallOK
<1>3. ListOK(shown', t, rows, Posts(calls))
  BY <1>1, <1>2, MergedOK DEF MemoInv
<1> QED
  BY <1>1, <1>3, WindowKeeps DEF MemoInv

LEMMA MemoStoredKeeps ==
    ASSUME NEW t, MemoInv(t), NEW c \in calls, MemoStored(c)
    PROVE  MemoInv(t)'
<1> DEFINE F(s) == IF s.memo = c.memo THEN [s EXCEPT !.temp = FALSE] ELSE s
<1>1. c.op = "posted" /\ calls' = calls \ {c} /\ shown' = {F(s) : s \in shown}
      /\ UNCHANGED <<table, saved, current, design, sync>>
  BY DEF MemoStored, Answer
<1>2. \A p \in Posts(calls) : p.memo # c.memo
  BY <1>1 DEF MemoInv, CallOK, MarksOK
<1>3. ASSUME NEW s \in shown
      PROVE  F(s).memo = s.memo /\ CommentOK(F(s), t, rows, Posts(calls))
  <2>1. CommentOK(s, t, rows, Posts(calls))
    BY DEF MemoInv, ListOK
  <2> QED
    BY <1>2, <2>1 DEF CommentOK, CommentsOf
<1> HIDE DEF F
<1>4. ListOK(shown', t, rows, Posts(calls))
  BY <1>1, <1>3 DEF MemoInv, ListOK, Once
<1> QED
  BY <1>1, <1>4, WindowKeeps DEF MemoInv

LEMMA MemosAppliedKeeps ==
    ASSUME NEW t, MemoInv(t), NEW c \in calls, MemosApplied(c)
    PROVE  MemoInv(t)'
<1> DEFINE F(s) == IF s.memo \in c.memos /\ ~s.temp
                   THEN [s EXCEPT !.version = c.version] ELSE s
<1>1. c.op = "applied" /\ calls' = calls \ {c} /\ shown' = {F(s) : s \in shown}
      /\ UNCHANGED <<table, saved, current, design, sync>>
  BY DEF MemosApplied, Answer, Reflected
<1>2. /\ \A p \in Posts(calls) : p.memo \notin c.memos
      /\ \A k \in c.memos : k \in DOMAIN rows => rows[k].version # 0
      /\ c.version \in Nat
  BY <1>1 DEF MemoInv, CallOK, MarksOK
<1>3. ASSUME NEW s \in shown
      PROVE  F(s).memo = s.memo /\ CommentOK(F(s), t, rows, Posts(calls))
  <2>1. CommentOK(s, t, rows, Posts(calls))
    BY DEF MemoInv, ListOK
  <2> QED
    BY <1>2, <2>1 DEF CommentOK, CommentsOf
<1> HIDE DEF F
<1>4. ListOK(shown', t, rows, Posts(calls))
  BY <1>1, <1>3 DEF MemoInv, ListOK, Once
<1> QED
  BY <1>1, <1>4, WindowKeeps DEF MemoInv

LEMMA CallFailsKeeps ==
    ASSUME NEW t, MemoInv(t), NEW c \in calls, CallFails(c)
    PROVE  MemoInv(t)'
<1>1. /\ calls' \subseteq calls \cup Get
      /\ shown' \in {{}, shown} /\ sync' \in {NoSync, sync}
      /\ UNCHANGED <<table, saved, current, design>>
  BY DEF CallFails, Answer
<1>2. ListOK(shown', t, rows, Posts(calls)) /\ SyncOK(sync', t, Posts(calls))
  <2>1. /\ ListOK(shown, t, rows, Posts(calls)) /\ SyncOK(sync, t, Posts(calls))
        /\ ListOK({}, t, rows, Posts(calls)) /\ SyncOK(NoSync, t, Posts(calls))
    BY EmptyOK DEF MemoInv
  <2>2. (shown' = {} \/ shown' = shown) /\ (sync' = NoSync \/ sync' = sync)
    BY <1>1
  <2>3. ListOK(shown', t, rows, Posts(calls))
    BY <2>1, <2>2
  <2>4. SyncOK(sync', t, Posts(calls))
    BY <2>1, <2>2
  <2> QED
    BY <2>3, <2>4
<1>3. \A d \in calls' \ calls :
        d.op # "post" /\ CallOK(d, t, rows, Posts(calls))
  BY <1>1, HarmlessCalls
<1> QED
  BY <1>1, <1>2, <1>3, WindowKeeps DEF MemoInv

LEMMA syncMemosKeeps ==
    ASSUME NEW t, MemoInv(t), syncMemos
    PROVE  MemoInv(t)'
<1>1. /\ calls' \subseteq calls \cup Get /\ shown' \in {{}, shown}
      /\ UNCHANGED <<table, saved, current, design, sync>>
  BY DEF syncMemos, Send
<1> QED
  BY <1>1, EmptyOK, HarmlessCalls, WindowKeeps DEF MemoInv

\* Memos are taken from the list, and asked to be deleted.
LEMMA RemovalKeeps ==
    ASSUME NEW t, MemoInv(t), NEW gone,
           shown' \subseteq shown, calls' = calls \cup Deletes(gone),
           UNCHANGED <<table, saved, current, design, sync>>
    PROVE  MemoInv(t)'
<1>1. ListOK(shown', t, rows, Posts(calls))
  BY SubListOK DEF MemoInv
<1> QED
  BY <1>1, HarmlessCalls, WindowKeeps DEF MemoInv

\* The memo gets the next number, and its text is the one that is posted.
LEMMA AddCommentKeeps ==
    ASSUME NEW t, MemoInv(t), NEW text \in Texts, addComment(text)
    PROVE  \E u : MemoInv(u)'
<1> DEFINE p == [op |-> "post", session |-> current, memo |-> made + 1,
                 text |-> text]
           x == Comment(made + 1, text, 0, TRUE)
<1>1. /\ made' = made + 1 /\ shown' = shown \cup {x} /\ calls' = calls \cup {p}
      /\ current \in Sessions
      /\ UNCHANGED <<rows, saved, current, design, sync>>
  BY DEF addComment, Send, MemoInv
<1>2. made \in Nat /\ t \in [1 .. made -> Texts] /\ DOMAIN rows \subseteq 1 .. made
  BY DEF MemoInv, TableOK
<1>3. PICK u : u = [k \in 1 .. made + 1 |-> IF k = made + 1 THEN text ELSE t[k]]
  OBVIOUS
<1>4. /\ u \in [1 .. made + 1 -> Texts] /\ DOMAIN t = 1 .. made
      /\ made + 1 \notin DOMAIN t /\ DOMAIN t \subseteq DOMAIN u
      /\ \A k \in DOMAIN t : u[k] = t[k]
      /\ u[made + 1] = text /\ made + 1 \in DOMAIN u
      /\ made + 1 \notin DOMAIN rows
  BY <1>2, <1>3
<1>5. Posts(calls') = Posts(calls) \cup {p} /\ p.memo = made + 1
  BY <1>1 DEF Posts
<1>6. StepOK(t, u, rows, rows', calls, calls')
  BY <1>1, <1>4, <1>5 DEF StepOK, Posts
<1>7. OnePost(calls')
  <2>1. \A q \in Posts(calls) : q.memo \in DOMAIN t
    BY DEF MemoInv, CallOK, Posts
  <2> HIDE DEF p
  <2> QED
    BY <1>4, <1>5, <2>1 DEF OnePost, MemoInv
<1>8. TableOK(u, rows', made')
  BY <1>1, <1>2, <1>4 DEF MemoInv, TableOK
<1>9. ListOK(shown', u, rows', Posts(calls'))
  <2>1. ListOK(shown, u, rows', Posts(calls'))
    BY <1>6, StepKeepsList DEF MemoInv
  <2>2. CommentOK(x, u, rows', Posts(calls'))
    BY <1>1, <1>4 DEF CommentOK, CommentsOf, Comment
  <2>3. \A y \in shown : y.memo \in DOMAIN t
    BY DEF MemoInv, ListOK, CommentOK, CommentsOf
  <2>4. x.memo = made + 1
    BY DEF Comment
  <2> HIDE DEF x
  <2> QED
    BY <1>1, <1>4, <2>1, <2>2, <2>3, <2>4 DEF ListOK, Once
<1>10. SavedOK(saved', u, rows', Posts(calls'))
  BY <1>1, <1>6, StepKeepsList DEF MemoInv, SavedOK
<1>11. SyncOK(sync', u, Posts(calls'))
  BY <1>1, <1>6, StepKeepsMarks DEF MemoInv, SyncOK
<1>12. ASSUME NEW c \in calls' PROVE CallOK(c, u, rows', Posts(calls'))
  <2>1. CASE c \in calls
    BY <1>6, <2>1, StepKeepsCall DEF MemoInv
  <2>2. CASE c = p
    BY <1>1, <1>4, <2>2 DEF CallOK
  <2> QED
    BY <1>1, <2>1, <2>2
<1>13. MemoInv(u)'
  BY <1>1, <1>7, <1>8, <1>9, <1>10, <1>11, <1>12 DEF MemoInv
<1> QED
  BY <1>13

\* The memos of an update are in the list under the ids of their rows.
LEMMA SyncUpdateKeeps ==
    ASSUME NEW t, MemoInv(t), runSyncUpdate
    PROVE  MemoInv(t)'
<1>1. /\ sync'.memos \subseteq {s.memo : s \in {a \in shown : ~a.temp}}
      /\ sync'.version = IF design.built THEN design.counter + 2 ELSE 1
      /\ design' = [design EXCEPT !.counter = IF design.built THEN @ + 1 ELSE @]
      /\ UNCHANGED <<table, saved, current, shown, calls>>
  BY DEF runSyncUpdate
<1>2. design' \in Designs /\ sync'.version \in Nat \ {0}
  BY <1>1 DEF MemoInv, Designs
<1>3. MarksOK(sync'.memos, t, Posts(calls))
  <2>1. ASSUME NEW k \in sync'.memos
        PROVE  k \in DOMAIN t /\ \A p \in Posts(calls) : p.memo # k
    <3>1. PICK a \in shown : ~a.temp /\ k = a.memo
      BY <1>1, <2>1
    <3>2. CommentOK(a, t, rows, Posts(calls))
      BY DEF MemoInv, ListOK
    <3> QED
      BY <3>1, <3>2 DEF CommentOK, CommentsOf
  <2> QED
    BY <2>1 DEF MarksOK
<1>4. SyncOK(sync', t, Posts(calls))
  BY <1>2, <1>3 DEF SyncOK
<1> QED
  BY <1>1, <1>2, <1>4, WindowKeeps DEF MemoInv

\* A result is displayed, and the memos of the update are to be marked.
LEMMA ProcessResultKeeps ==
    ASSUME NEW t, MemoInv(t), NEW left, left \subseteq calls, _processResult(left),
           UNCHANGED <<table, saved, current>>
    PROVE  MemoInv(t)'
<1> DEFINE d == [op |-> "apply", memos |-> sync.memos, version |-> sync.version]
<1>1. /\ design' = [design EXCEPT !.built = TRUE,
                                  !.marker = IF sync.on THEN sync.version ELSE @]
      /\ sync' = NoSync /\ shown' = shown
      /\ calls' = left \cup (IF sync.memos = {} THEN {} ELSE {d})
  BY DEF _processResult, markMemosApplied
<1>2. MarksOK(sync.memos, t, Posts(calls)) /\ sync.version \in Nat
      /\ (sync.memos # {} => sync.version # 0)
  BY DEF MemoInv, SyncOK
<1>3. design' \in Designs
  BY <1>1, <1>2 DEF MemoInv, Designs
<1>4. sync.memos # {} => d.op # "post" /\ CallOK(d, t, rows, Posts(calls))
  BY <1>2 DEF CallOK, MarksOK
<1> HIDE DEF d
<1>5. \A c \in calls' \ calls : c.op # "post" /\ CallOK(c, t, rows, Posts(calls))
  BY <1>1, <1>4
<1> QED
  BY <1>1, <1>3, <1>5, EmptyOK, WindowKeeps DEF MemoInv

LEMMA RunEndsKeeps ==
    ASSUME NEW t, MemoInv(t), RunEnds
    PROVE  MemoInv(t)'
<1>1. CASE _processResult(calls)
  BY <1>1, ProcessResultKeeps DEF RunEnds
<1>2. CASE sync' = NoSync /\ UNCHANGED <<design, shown, calls>>
  BY <1>2, EmptyOK, WindowKeeps DEF RunEnds, MemoInv
<1> QED
  BY <1>1, <1>2 DEF RunEnds

LEMMA SaveSessionKeeps ==
    ASSUME NEW t, MemoInv(t), saveCurrentSession
    PROVE  MemoInv(t)'
<1>1. /\ current \in DOMAIN saved
      /\ saved' = [saved EXCEPT ![current] = [comments |-> shown, design |-> design]]
      /\ UNCHANGED <<table, current, shown, design, sync, calls>>
  BY DEF saveCurrentSession
<1>2. SavedOK(saved', t, rows, Posts(calls))
  BY <1>1 DEF MemoInv, SavedOK
<1> QED
  BY <1>1, <1>2, WindowKeeps DEF MemoInv

LEMMA SessionsKeep ==
    ASSUME NEW t, MemoInv(t), NEW s \in Sessions,
           createSession(s) \/ loadSession(s) \/ deleteSession(s)
    PROVE  MemoInv(t)'
<1>1. CASE createSession(s)
  <2>1. SavedOK(saved', t, rows, Posts(calls))
    BY <1>1, EmptyOK DEF createSession, With, SavedOK, MemoInv
  <2> QED
    BY <1>1, <2>1, WindowKeeps DEF createSession, MemoInv
<1>2. CASE loadSession(s)
  <2>1. /\ ListOK(shown', t, rows, Posts(calls)) /\ design' \in Designs
        /\ calls' \subseteq calls \cup {[op |-> "restore", session |-> s]}
        /\ current' = s /\ UNCHANGED <<table, saved, sync>>
    BY <1>2 DEF loadSession, Send, SavedOK, MemoInv
  <2>2. CallOK([op |-> "restore", session |-> s], t, rows, Posts(calls))
    BY DEF CallOK
  <2>3. \A c \in calls' \ calls :
          c.op # "post" /\ CallOK(c, t, rows, Posts(calls))
    BY <2>1, <2>2
  <2> QED
    BY <2>1, <2>3, WindowKeeps DEF MemoInv
<1>3. CASE deleteSession(s)
  <2>1. SavedOK(saved', t, rows, Posts(calls))
    BY <1>3 DEF deleteSession, Without, SavedOK, MemoInv
  <2> QED
    BY <1>3, <2>1, WindowKeeps DEF deleteSession, MemoInv
<1> QED
  BY <1>1, <1>2, <1>3

LEMMA IdeaChatSent ==
    ASSUME NEW t, MemoInv(t), sendIdeaChat
    PROVE  MemoInv(t)'
<1> DEFINE d == [op |-> "chat", session |-> current]
<1>1. calls' = calls \cup {d} /\ UNCHANGED <<table, window>>
  BY DEF sendIdeaChat, Send
<1>2. d.op # "post" /\ CallOK(d, t, rows, Posts(calls))
  BY DEF CallOK, MemoInv
<1> HIDE DEF d
<1> QED
  BY <1>1, <1>2, WindowKeeps DEF MemoInv, window

LEMMA NextMemoInv ==
    ASSUME NEW t, MemoInv(t), [Next]_vars
    PROVE  \E u : MemoInv(u)'
<1>1. ASSUME NEW c \in calls,
             Handle(c) \/ CallFails(c) \/ MemosCome(c) \/ MemoStored(c)
               \/ MemosApplied(c) \/ restore_session(c)
      PROVE  \E u : MemoInv(u)'
  <2>1. CASE restore_session(c)
    <3>1. PICK left : left = calls \ {c}
      OBVIOUS
    <3>2. MemoInv(t)'
      BY <2>1, <3>1, ProcessResultKeeps DEF restore_session
    <3> QED
      BY <3>2
  <2> QED
    BY <1>1, <2>1, HandleKeeps, CallFailsKeeps, MemosComeKeeps,
       MemoStoredKeeps, MemosAppliedKeeps
<1>2. CASE syncMemos \/ runSyncUpdate \/ RunEnds \/ saveCurrentSession
           \/ sendIdeaChat
  BY <1>2, syncMemosKeeps, SyncUpdateKeeps, RunEndsKeeps, SaveSessionKeeps,
     IdeaChatSent
<1>3. CASE restoreDesignSnapshot
  <2>1. PICK gone : gone = Dropped
    OBVIOUS
  <2>2. MemoInv(t)'
    BY <1>3, <2>1, RemovalKeeps DEF restoreDesignSnapshot, Send
  <2> QED
    BY <2>2
<1>4. ASSUME NEW s \in shown, removeComment(s) PROVE \E u : MemoInv(u)'
  <2>1. MemoInv(t)'
    BY <1>4, RemovalKeeps DEF removeComment, Send
  <2> QED
    BY <2>1
<1>5. CASE startNewProject
  <2>1. MemoInv(t)'
    BY <1>5, EmptyOK, WindowKeeps DEF startNewProject, MemoInv
  <2> QED
    BY <2>1
<1>6. ASSUME NEW text \in Texts, addComment(text) PROVE \E u : MemoInv(u)'
  BY <1>6, AddCommentKeeps
<1>7. ASSUME NEW s \in Sessions,
             createSession(s) \/ loadSession(s) \/ deleteSession(s)
      PROVE  \E u : MemoInv(u)'
  BY <1>7, SessionsKeep
<1>8. CASE UNCHANGED vars
  <2>1. MemoInv(t)'
    BY <1>8 DEF vars, table, window, MemoInv
  <2> QED
    BY <2>1
<1> QED
  BY <1>1, <1>2, <1>3, <1>4, <1>5, <1>6, <1>7, <1>8 DEF Next

MemosInOrder == \E t : MemoInv(t)

LEMMA MemoInvariance == Spec => []MemosInOrder
<1>1. Init => MemosInOrder
  BY InitMemoInv DEF MemosInOrder
<1>2. MemosInOrder /\ [Next]_vars => MemosInOrder'
  BY NextMemoInv DEF MemosInOrder
<1> QED
  BY <1>1, <1>2, PTL DEF Spec

-----------------------------------------------------------------------------

\* No memo is shown twice, in whatever order the answers to posts and lists
\* arrive and whatever sessions are opened in between (syncMemos, addComment).
THEOREM MemosShownOnce == Spec => []ShownOnce
<1>1. MemosInOrder => ShownOnce
  BY DEF MemosInOrder, MemoInv, ListOK, Once, ShownOnce
<1> QED
  BY <1>1, MemoInvariance, PTL

\* Going back to an earlier design deletes no memo that still waits
\* (restoreDesignSnapshot): what the list takes for reflected, the table does.
THEOREM RollbacksSparePending == Spec => RollbackSparesPending
<1> DEFINE Step == restoreDesignSnapshot =>
                     \A s \in shown \ shown' :
                        s.memo \in DOMAIN rows => rows[s.memo].version # 0
<1>1. MemosInOrder /\ [Next]_vars => [Step]_vars
  <2> SUFFICES ASSUME NEW t, MemoInv(t), restoreDesignSnapshot,
                      NEW s \in shown \ shown', s.memo \in DOMAIN rows
               PROVE  rows[s.memo].version # 0
    BY DEF MemosInOrder
  <2>1. s.version = design.marker /\ design.marker > 1
    BY DEF restoreDesignSnapshot, Dropped
  <2>2. s.version # 0
    BY <2>1
  <2> QED
    BY <2>2 DEF MemoInv, ListOK, CommentOK
<1> QED
  BY <1>1, MemoInvariance, PTL DEF Spec, RollbackSparesPending

\* Only the chat writes rows of the chat, and only the fresh notes.
LEMMA NotesAreFresh ==
    ASSUME NEW t, MemoInv(t), [Next]_vars,
           NEW k \in DOMAIN rows' \ DOMAIN rows, NEW i \in DOMAIN rows',
           rows'[k].section = "Idea Chat", i # k,
           rows'[i].session = rows'[k].session
    PROVE  rows'[i].text # rows'[k].text
<1>1. PICK c \in calls : Handle(c)
  BY DEF Next, vars, table, CallFails, MemosCome, MemoStored, MemosApplied,
         restore_session, syncMemos, runSyncUpdate, RunEnds,
         restoreDesignSnapshot, saveCurrentSession, startNewProject,
         sendIdeaChat, addComment, removeComment, createSession, loadSession,
         deleteSession
<1>2. c.op = "noted" /\ run_idea_chat(c)
  <2>1. ~(c.op = "post" /\ add_memo(c))
    <3> SUFFICES ASSUME add_memo(c) PROVE FALSE
      OBVIOUS
    <3>1. k = c.memo /\ rows'[k] = Row(c.session, c.text, "Global")
      BY DEF add_memo, With
    <3> QED
      BY <3>1 DEF Row
  <2> QED
    BY <1>1, <2>1 DEF Handle, get_memos, delete_memo, apply_memos,
                      idea_chat_node, table, Without
<1>3. PICK new, text, fresh : Written(c, new, text, fresh)
  BY <1>2, NewRows
<1>4. /\ k \in new /\ rows'[k].text = text[k] /\ rows'[k].session = c.session
      /\ text[k] \in fresh /\ fresh = Fresh(c.notes, c.session)
  <2>1. k \in new /\ rows'[k] = Row(c.session, text[k], "Idea Chat")
    BY <1>3 DEF Written
  <2>2. text[k] \in fresh /\ fresh = Fresh(c.notes, c.session)
    BY <1>3, <2>1 DEF Written
  <2>3. /\ Row(c.session, text[k], "Idea Chat").text = text[k]
        /\ Row(c.session, text[k], "Idea Chat").session = c.session
    BY DEF Row
  <2> QED
    BY <2>1, <2>2, <2>3
<1>5. CASE i \in new
  <2>1. rows'[i] = Row(c.session, text[i], "Idea Chat")
    BY <1>3, <1>5 DEF Written
  <2>3. Row(c.session, text[i], "Idea Chat").text = text[i]
    BY DEF Row
  <2>2. text[i] # text[k]
    BY <1>3, <1>4, <1>5 DEF Written
  <2> QED
    BY <1>4, <2>1, <2>2, <2>3
<1>6. CASE i \notin new
  <2>1. i \in DOMAIN rows /\ rows'[i] = rows[i]
    BY <1>3, <1>6 DEF Written
  <2> QED
    BY <1>4, <2>1 DEF Fresh
<1> QED
  BY <1>5, <1>6

\* The chat writes no text its session has, however often the model repeats a
\* note and however many turns are open (run_idea_chat).
THEOREM NotesOnce == Spec => NotesAddedOnce
<1> DEFINE Step == \A k \in DOMAIN rows' \ DOMAIN rows, i \in DOMAIN rows' :
                     /\ rows'[k].section = "Idea Chat" /\ i # k
                     /\ rows'[i].session = rows'[k].session
                     => rows'[i].text # rows'[k].text
<1>1. MemosInOrder /\ [Next]_vars => [Step]_rows
  BY NotesAreFresh DEF MemosInOrder
<1> QED
  BY <1>1, MemoInvariance, PTL DEF Spec, NotesAddedOnce
=============================================================================
