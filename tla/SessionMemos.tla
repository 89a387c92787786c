---------------------------- MODULE SessionMemos ----------------------------
(***************************************************************************)
(* The memos of the analysis sessions: the rows of memo_items in local.db  *)
(* and the list one window shows of them.  The window changes its list     *)
(* before the backend has answered, the answers arrive in any order, and   *)
(* each is applied to the list of whatever session is open by then.        *)
(*                                                                         *)
(* A memo has one number from the click that adds it on: the window knows  *)
(* it under a "temp_" id (temp) until it learns the id of the row.         *)
(* Version 0 is a memo no build reflects, k the build "v1.(k-1)".          *)
(* Sections, details and the design itself are left out, and so is the     *)
(* routing of a result to another team: ClientWorkspace has it.            *)
(* "Fault:" marks a wrong version of the definition after it.              *)
(***************************************************************************)
EXTENDS Naturals, FiniteSets

CONSTANTS
    Sessions, NoSession,
    Texts,
    MaxMemos,   \* bound: memos ever added
    MaxClicks,  \* bound: clicks of the user that change something
    MaxCalls    \* bound: calls and answers on their way

ASSUME MemoAssumption ==
    /\ NoSession \notin Sessions /\ IsFiniteSet(Texts)
    /\ MaxMemos \in Nat /\ MaxClicks \in Nat /\ MaxCalls \in Nat \ {0}

VARIABLES
    rows,     \* the table, by memo
    made,     \* memos ever added
    saved,    \* the stored sessions of the window
    current,  \* currentSessionId
    shown,    \* userComments
    design,   \* resultData is there, designSnapshotCounter, last sync marker
    sync,     \* the flags of the update under way
    running,  \* pipelineStatus is "running"
    runs,     \* analyses the backend has not ended
    calls,    \* calls and answers on their way
    clicks

table == <<rows, made>>
window == <<saved, current, shown, design, sync, running>>
vars == <<table, window, runs, calls, clicks>>

Memos == 1..MaxMemos
Blank == [built |-> FALSE, counter |-> 0, marker |-> 0]
NewSession == [comments |-> {}, design |-> Blank]
NoSync == [on |-> FALSE, memos |-> {}, version |-> 0]
Comment(k, text, version, temp) ==
    [memo |-> k, text |-> text, version |-> version, temp |-> temp]
Row(s, text, section) ==
    [session |-> s, text |-> text, version |-> 0, section |-> section]
Without(f, k) == [i \in DOMAIN f \ {k} |-> f[i]]
With(f, k, v) == [i \in DOMAIN f \cup {k} |-> IF i = k THEN v ELSE f[i]]
Shown(s) == {Comment(k, rows[k].text, rows[k].version, FALSE) :
                k \in {i \in DOMAIN rows : rows[i].session = s}}

Init ==
    /\ rows = [i \in {} |-> 0] /\ made = 0
    /\ \E some \in SUBSET Sessions : saved = [s \in some |-> NewSession]
    /\ current = NoSession /\ shown = {} /\ design = Blank
    /\ sync = NoSync /\ running = FALSE
    /\ runs = 0 /\ calls = {} /\ clicks = 0

Click == clicks < MaxClicks /\ clicks' = clicks + 1
Idle == UNCHANGED clicks
Send(new) == Cardinality(calls \cup new) <= MaxCalls /\ calls' = calls \cup new
Answer(c, new) == calls' = (calls \ {c}) \cup new

(***************************************************************************)
(* The endpoints: none awaits, so each is one step.  A call may fail, and  *)
(* then changes nothing.                                                   *)
(***************************************************************************)
get_memos(c) == Answer(c, {[op |-> "got", session |-> c.session,
                            items |-> Shown(c.session)]})
                /\ UNCHANGED table

add_memo(c) ==
    /\ rows' = With(rows, c.memo, Row(c.session, c.text, "Global"))
    /\ Answer(c, {[op |-> "posted", memo |-> c.memo]}) /\ UNCHANGED made

\* A memo that is gone is deleted without complaint.
delete_memo(c) == rows' = Without(rows, c.memo) /\ Answer(c, {}) /\ UNCHANGED made

apply_memos(c) ==
    /\ rows' = [k \in DOMAIN rows |->
                  IF k \in c.memos THEN [rows[k] EXCEPT !.version = c.version]
                  ELSE rows[k]]
    /\ Answer(c, {[c EXCEPT !.op = "applied"]}) /\ UNCHANGED made

\* What the model notes, without empty texts; it may repeat earlier turns.
Notes == SUBSET Texts

\* The chat asks the model, in a thread of its own.
idea_chat_node(c) ==
    /\ \E notes \in Notes :
         Answer(c, {[op |-> "noted", session |-> c.session, notes |-> notes]})
    /\ UNCHANGED table

\* Fault: texts the session has already are written again.
FreshUnchecked(notes, s) == notes

\* A text the session has is not written, and no text twice in one answer.
Fresh(notes, s) == notes \ {rows[k].text : k \in {i \in DOMAIN rows : rows[i].session = s}}

\* The chat writes what the model notes.  It reads the ids before the flush
\* gives them, and _processResult takes no note without one: none is shown.
run_idea_chat(c) ==
    LET fresh == IF c.session = NoSession THEN {} ELSE Fresh(c.notes, c.session)
        new == made + 1 .. made + Cardinality(fresh)
    IN /\ made + Cardinality(fresh) <= MaxMemos
       /\ \E text \in [new -> fresh] :
            /\ {text[k] : k \in new} = fresh
            /\ rows' = [k \in DOMAIN rows \cup new |->
                          IF k \in new THEN Row(c.session, text[k], "Idea Chat")
                          ELSE rows[k]]
       /\ made' = made + Cardinality(fresh)
       /\ Answer(c, {})

Handle(c) ==
    /\ \/ c.op = "get" /\ get_memos(c)
       \/ c.op = "post" /\ add_memo(c)
       \/ c.op = "delete" /\ delete_memo(c)
       \/ c.op = "apply" /\ apply_memos(c)
       \/ c.op = "chat" /\ idea_chat_node(c)
       \/ c.op = "noted" /\ run_idea_chat(c)
    /\ Idle /\ UNCHANGED <<window, runs>>

(***************************************************************************)
(* The window: the list of memos.                                          *)
(***************************************************************************)
Get == {[op |-> "get", session |-> current]}

\* On opening the memo tab, and there on every change of the session.
syncMemos ==
    /\ IF current = NoSession THEN shown' = {} /\ UNCHANGED calls
       ELSE Send(Get) /\ UNCHANGED shown
    /\ Idle /\ UNCHANGED <<table, saved, current, design, sync, running, runs>>

\* Fault: a memo under way is kept although the answer has its row.
MergedTwice(items) == items \cup {c \in shown : c.temp}

\* An empty answer takes away no memo that was stored; else what is under way
\* is kept if the answer does not have its text.
Merged(items) ==
    IF items = {} /\ \E c \in shown : ~c.temp THEN {c \in shown : ~c.temp}
    ELSE items \cup {c \in shown : c.temp /\ \A i \in items : i.text # c.text}

\* The answer is taken whatever session is open by now.
MemosCome(c) ==
    /\ c.op = "got" /\ Answer(c, {}) /\ shown' = Merged(c.items)
    /\ Idle /\ UNCHANGED <<table, saved, current, design, sync, running, runs>>

addComment(text) ==
    /\ current # NoSession /\ made < MaxMemos
    /\ made' = made + 1
    /\ shown' = shown \cup {Comment(made + 1, text, 0, TRUE)}
    /\ Send({[op |-> "post", session |-> current, memo |-> made + 1, text |-> text]})
    /\ Click /\ UNCHANGED <<rows, saved, current, design, sync, running, runs>>

MemoStored(c) ==
    /\ c.op = "posted" /\ Answer(c, {})
    /\ shown' = {IF s.memo = c.memo THEN [s EXCEPT !.temp = FALSE] ELSE s : s \in shown}
    /\ Idle /\ UNCHANGED <<table, saved, current, design, sync, running, runs>>

Deletes(gone) == {[op |-> "delete", memo |-> s.memo] : s \in {g \in gone : ~g.temp}}

removeComment(s) ==
    /\ shown' = shown \ {s}
    /\ Send(Deletes({s}))
    /\ Click /\ UNCHANGED <<table, saved, current, design, sync, running, runs>>

Reflected(memos, version) ==
    {IF s.memo \in memos /\ ~s.temp THEN [s EXCEPT !.version = version] ELSE s : s \in shown}

\* Fault: the memos are marked before the backend has answered.
MarkedAtOnce(memos, version, left) ==
    /\ shown' = Reflected(memos, version)
    /\ calls' = left \cup {[op |-> "apply", memos |-> memos, version |-> version]}

\* markMemosApplied asks first; without memos it does nothing.
markMemosApplied(memos, version, left) ==
    /\ calls' = left \cup
         (IF memos = {} THEN {}
          ELSE {[op |-> "apply", memos |-> memos, version |-> version]})
    /\ UNCHANGED shown

MemosApplied(c) ==
    /\ c.op = "applied" /\ Answer(c, {})
    /\ shown' = Reflected(c.memos, c.version)
    /\ Idle /\ UNCHANGED <<table, saved, current, design, sync, running, runs>>

\* A call fails.  A failed deletion asks for the list again; a failed chat is
\* an error like that of an analysis, and ends the update under way.
CallFails(c) ==
    /\ c.op \in {"get", "post", "delete", "apply", "chat", "restore"}
    /\ Answer(c, IF c.op = "delete" /\ current # NoSession THEN Get ELSE {})
    /\ shown' = IF c.op = "delete" /\ current = NoSession THEN {} ELSE shown
    /\ IF c.op = "chat" THEN running' = FALSE /\ sync' = NoSync
       ELSE UNCHANGED <<running, sync>>
    /\ Idle /\ UNCHANGED <<table, saved, current, design, runs>>

(***************************************************************************)
(* The window: the design and its versions.                                *)
(***************************************************************************)

\* There is always some talk to build.  The memos of an update are those shown
\* and not reflected; one whose id is not known yet is built but never marked.
runSyncUpdate ==
    /\ ~running
    /\ LET active == {s \in shown : s.version = 0}
           version == IF design.built THEN design.counter + 2 ELSE 1
       IN sync' = [on |-> TRUE, memos |-> {s.memo : s \in {a \in active : ~a.temp}},
                   version |-> version]
    /\ design' = [design EXCEPT !.counter = IF design.built THEN @ + 1 ELSE @]
    /\ running' = TRUE /\ runs' = runs + 1
    /\ Click /\ UNCHANGED <<table, saved, current, shown, calls>>

\* A result is taken as that of the update under way, be it the answer of the
\* analysis or that of a stored session.
_processResult(left) ==
    /\ design' = [design EXCEPT !.built = TRUE,
                                !.marker = IF sync.on THEN sync.version ELSE @]
    /\ sync' = NoSync /\ running' = FALSE
    /\ markMemosApplied(sync.memos, sync.version, left)

RunEnds ==
    /\ runs > 0 /\ runs' = runs - 1
    /\ \/ _processResult(calls)
       \/ running' = FALSE /\ sync' = NoSync /\ UNCHANGED <<design, shown, calls>>
    /\ Idle /\ UNCHANGED <<table, saved, current>>

restore_session(c) ==
    /\ c.op = "restore" /\ _processResult(calls \ {c})
    /\ Idle /\ UNCHANGED <<table, saved, current, runs>>

\* The memos that the version of the last marker brought.
Dropped == {s \in shown : s.version = design.marker}

\* A version has a snapshot to go back to unless it is the first.
restoreDesignSnapshot ==
    /\ design.marker > 1
    /\ shown' = shown \ Dropped /\ Send(Deletes(Dropped))
    /\ Click /\ UNCHANGED <<table, saved, current, design, sync, running, runs>>

(***************************************************************************)
(* The window: the sessions.                                               *)
(***************************************************************************)
createSession(s) ==
    /\ s \notin DOMAIN saved /\ current = NoSession
    /\ saved' = With(saved, s, NewSession) /\ current' = s
    /\ Click /\ UNCHANGED <<table, shown, design, sync, running, runs, calls>>

\* Half a second after the last change, if no session was opened since.
saveCurrentSession ==
    /\ current \in DOMAIN saved
    /\ saved' = [saved EXCEPT ![current] = [comments |-> shown, design |-> design]]
    /\ Idle
    /\ UNCHANGED <<table, current, shown, design, sync, running, runs, calls>>

loadSession(s) ==
    /\ s \in DOMAIN saved
    /\ current' = s /\ shown' = saved[s].comments /\ design' = saved[s].design
    /\ running' = FALSE
    /\ Send(IF saved[s].design.built THEN {[op |-> "restore", session |-> s]} ELSE {})
    /\ Click /\ UNCHANGED <<table, saved, sync, runs>>

startNewProject ==
    /\ current' = NoSession /\ shown' = {} /\ design' = Blank
    /\ sync' = NoSync /\ running' = FALSE
    /\ Click /\ UNCHANGED <<table, saved, runs, calls>>

deleteSession(s) ==
    /\ s \in DOMAIN saved /\ saved' = Without(saved, s)
    /\ current' = IF current = s THEN NoSession ELSE current
    /\ Click /\ UNCHANGED <<table, shown, design, sync, running, runs, calls>>

sendIdeaChat ==
    /\ Send({[op |-> "chat", session |-> current]})
    /\ Click /\ UNCHANGED <<table, window, runs>>

Next ==
    \/ \E c \in calls : \/ Handle(c) \/ CallFails(c) \/ MemosCome(c)
                        \/ MemoStored(c) \/ MemosApplied(c) \/ restore_session(c)
    \/ syncMemos \/ runSyncUpdate \/ RunEnds \/ restoreDesignSnapshot
    \/ saveCurrentSession \/ startNewProject \/ sendIdeaChat
    \/ \E text \in Texts : addComment(text)
    \/ \E s \in shown : removeComment(s)
    \/ \E s \in Sessions : createSession(s) \/ loadSession(s) \/ deleteSession(s)

Spec == Init /\ [][Next]_vars

(***************************************************************************)
(* Properties.                                                             *)
(***************************************************************************)

\* No memo is shown twice, once under its temporary id and once as the row,
\* in whatever order the answers to its POST and to the lists arrive and
\* whatever sessions were opened in between (syncMemos, addComment).
ShownOnce == \A a, b \in shown : a.memo = b.memo => a = b

\* The chat never writes a text its session has, though the model repeats the
\* notes of earlier turns and several turns may be open (run_idea_chat).
NotesAddedOnce ==
    [][\A k \in DOMAIN rows' \ DOMAIN rows, i \in DOMAIN rows' :
          /\ rows'[k].section = "Idea Chat" /\ i # k
          /\ rows'[i].session = rows'[k].session
          => rows'[i].text # rows'[k].text]_rows

\* Going back to an earlier design deletes no memo that still waits to be
\* reflected: what the window takes for reflected the table has as such, even
\* when the marking failed or old lists came late (restoreDesignSnapshot).
RollbackSparesPending ==
    [][restoreDesignSnapshot =>
         \A s \in shown \ shown' :
            s.memo \in DOMAIN rows => rows[s.memo].version # 0]_vars
=============================================================================
