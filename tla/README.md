# NAVIGATOR: TLA+ models, checks and proofs

NAVIGATOR turns an idea, or an existing repository, into requirements and a
design (PM and SA pipelines), distributes the work (agile board) and follows
the pull requests that implement it (Dev Tracking). It is a Python backend
(FastAPI, LangGraph, SQLite), a React client in an Electron shell, and a small
account server. This directory holds TLA+ modules of the parts that keep state
and whose steps can interleave, fail or be repeated, the TLC runs that check
them, and TLAPS proofs.

## 1. Inventory

Paths are relative to `src/`.

| Component | State | Operations | What is hard |
|---|---|---|---|
| **Dev Tracking approval** `backend/pipeline/domain/dev_tracking/`, `backend/transport/rest_handler.py`, `domain/agile/task_coordinator.py`, `orchestration/dev_tracking_graphs.py` | `agile_tasks` (local.db); `dev_pr_analyses`, `dev_gap_items`, `dev_knowledge_artifacts` (shared.db); GitHub commit statuses and comments; the wiki; worktrees | webhook, manual analysis, approve/reject of a task or of one GAP item, SA review, PATCH, DELETE | two databases and GitHub without a common transaction; redelivered webhooks; decisions repeated or reversed; new heads while a task waits; a handler that dies between two commits |
| **Repository cache and checkout** `backend/connectors/repo_cache.py`, `dev_tracking/nodes.py` (`branch_fetcher`), `repo_ops.py` | clones, worktrees, a lock per repository | clone, pull or clone again, fetch, worktree add/remove | a pull that fails removes the clone the worktrees belong to; the head falls back to the branch |
| **Agile board** `domain/agile/`, `TaskApprovalPanel.jsx` | `agile_tasks`, the list of each panel | create, generate, distribute, assign, PATCH, DELETE, poll | the model names any task; panels act on old rows, and old lists arrive after newer ones; the panel sends fields the endpoint ignores |
| **WebSocket pipeline** `backend/transport/ws_handler.py`, `connection_manager.py`, `backend/orchestration/pipeline_runner.py`, `src/store/slices/wsSlice.js`, `pipelineSlice.js` | sockets, the run in flight, `AnalysisResult`, memos, node states of the client | connect, retry, analyze, idea_chat, stream, store | a socket lost during a run, two sockets, run ids of one second |
| **Sessions and projects of the client** `src/store/slices/sessionSlice.js`, `storeHelpers.js` | sessions, the open project, caches | open, switch, restore, delete, sync | answers that arrive after a switch |
| **Publishing** `backend/storage/publish_service.py`, `publishSlice.js`, `SyncConfirmModal.jsx` | `published_snapshots`, local results | publish, list, pull, delete | versions after deletions, a pull over local work |
| **Accounts, teams, billing** `backend/auth/`, `backend/transport/team_router.py`, `server/routers/`, `authSlice.js` | users, members, invites, subscriptions, tokens | register, login, GitHub sign-in and link, create/switch/join team, invite, role, plan | a request writes with a row loaded before other requests ran; the role kept in two tables; the last use of an invite |
| **PM and SA pipelines** `backend/pipeline/orchestration/graph.py`, `domain/pm/`, `domain/sa/`, `core/state.py` | the graph's state | nodes, crawl loop, merge | two nodes that write into one object; keys the state does not declare; ids the model renumbers; the end of the loop |
| **Messages and memos** `message_router.py`, memo endpoints, `idea_chat.py`, `MemoManager.jsx` | messages, `memo_items`, the list a window shows | send, read, add, delete, note, mark, roll back | optimistic changes under temporary ids; answers that arrive in another session |
| **Desktop shell** `electron/main.cjs` | the backend process, the port | start, restart, quit | a backend that dies or never answers |
| Result shaping, source scanners, GitHub and wiki clients, result viewers, observability | none that outlives a call | | pure functions, rendering, I/O |

How they interact: the client calls the backend by REST and one WebSocket; the
backend is **one process with one event loop** (`backend/main.py:128`). GitHub
calls the webhook. Dev Tracking writes the board's `agile_tasks` through
`create_task` and `update_task_status`; the board, the panel and the approval
endpoints share that table. Dev Tracking reads the snapshots that publishing
wrote. Decisions leave the system through `gh` and the wiki publisher.

What makes each correct (the properties a model of it should have):
- approval: one task for a title, a head analysed once while the duplicate check
  works, items, analysis and task agree, effects only after a recorded decision,
  a reported status is the one GitHub shows, a begun decision is finished;
- checkout: the analysed files are those of the head, clones are usable after
  any failure, worktrees do not pile up;
- board: one task for a requirement, no work without an assignee, panels come
  to show the board;
- pipeline: a result reaches the client that asked, a run ends in the client
  too, no result overwrites another;
- sessions: an answer changes only the session it belongs to;
- publishing: a version names one snapshot;
- teams: a user works in a joined team, an invite admits no more than it may,
  messages stay in a team, the two copies of a role settle;
- analysis: it ends, no section of the result is lost, an earlier requirement is
  kept, only checked metadata are shown, dependencies survive renumbering;
- memos: shown once, noted once, and a rollback takes only reflected ones.

## 2. Plan

1. **DevGapApproval** (this directory): the approval of GAPs, its runs and its
   inductive invariant. Done.
2. **DecisionLedger** (this directory): what the approval promises of each pull
   request head (a verdict is recorded, then shown and told, and only recorded
   verdicts are), and **DevGapRefinement**, which shows that DevGapApproval
   implements it. Done.
3. **PipelineSocket** (this directory): the client's socket, the handler of each
   socket on the backend, runs, storing and answering. It implements
   **AnswerService**, on which **ClientWorkspace** is built: requests, answers,
   sessions and the switching of teams in the client's store. Done, but for what
   section 5 lists.
4. **TeamMembership**: accounts, teams, invites and messages on the account
   server and on the backend. Done (section 6).
5. **AnalysisPipeline**: the nodes of one analysis as the runner streams them.
   Done (section 7).
6. **AgileBoard**: generation, distribution, PATCH and the panels. Done
   (section 8).
7. **SessionMemos**: the memos of a window, the chat's notes, marking and
   rollback. Done (section 9).
8. **PublishedSnapshots** (versions, pull), **BranchCheckout** (clone, pull,
   fetch, worktree) and the start and end of the backend process by the desktop
   shell: not written.

The modules are built alike: constants with named assumptions, one action per
operation, no RECURSIVE operator, an MC module, a cfg per question, and a proof
module where the properties are in the prover's reach.

## 3. DevGapApproval

**State.** `tasks` is the table `agile_tasks` restricted to the two types Dev
Tracking creates; `analyses` is `dev_pr_analyses` with its `dev_gap_items`
(one record per analysis, `items` maps a GAP id to its status or `"absent"`);
`knowledge` is `dev_knowledge_artifacts`; `github`, `comments` and `wiki` are
what GitHub holds; `worktrees` are the directories below the clone cache. `pc`,
`run` and `dec` are the handler in flight. `taskSeq`, `analysisSeq`, `decided`
and `faults` count what happened and carry the bounds; ids are uuids in the
code, so a deleted id is never given again.

**Atomicity.** The endpoints are `async def` without an `await` between their
steps, so the event loop runs at most one of them: one `pc`. Each commit, each
`gh` call and each publication is one step. `Interrupt` ends the handler
between any two steps: the process died, or an exception reached the endpoint.

**Steps.**

| Handler | Steps |
|---|---|
| `github_webhook_endpoint`, `dev_tracking_pr_endpoint` -> graph | `Webhook`/`ManualAnalysis` (planner to report; `Blocked` if `branch_fetcher` refuses) -> `Notify` -> `Coordinate` -> `Persist` -> `Cleanup` -> `Embed` |
| task approve/reject, PATCH to `in_progress`/`rejected` -> `_run_dev_gap_decision` | `TaskDecision` -> `Mark` -> `PostStatus` -> (`SyncDocs` -> `StoreChunks`, if approved) -> `RecordDecision` -> `PostComment` -> (`SaReview`, if rejected) -> `Finish` |
| GAP item approve/reject | `ItemDecision`, then the steps of a decision when the aggregate is decisive |
| SA review, PATCH, DELETE | `RequestSaReview`, `PatchTask`, `DeleteTask` |

**Abstractions.** A pull request head is a record `[repo, pr, head]`; titles are
(type, number), because that is all they say; a result is the decision it
records, whether it reports a posted status, and whether the decision was
finished. The analyser returns any set of GAPs, with or without LLM warnings.
`gh`, the wiki and the artifact store may fail at any call; a status that `gh`
reports as failed may still have landed (time-out). The webhook's duplicate check
lets a delivery pass when its lookup raises (`DuplicateCheckPasses`); a check that
fails counts as a fault. `StateGet` reads a key of
the request as a node does after the graph dropped the keys `PipelineState`
does not declare.

**Not in the model:** authorisation (every request is one the endpoint allows),
pull requests without a number (`EventsAssumption`), tasks of other types and
`POST /api/tasks`, texts and reports, `execute_approved_task` (for an approval
task it only builds a message).

### The abstract specification

`DecisionLedger` knows heads, and of each head the recorded verdict, the shown
status, what is told outside, and whether the record says that the verdict is
shown. It has no tasks, handlers or failures: `Record`, `Show`, `Publish`,
`Report` and `Forget` are atomic. `DevGapRefinement` reads the ledger's state off
the system: the verdict of a head is the result of the approval task that
carries it, `shown` is GitHub's commit status, `published` are the comments,
artifacts and wiki pages that tell a decision. `Mark` is `Record`, `PostStatus`
is `Show`, the four steps that tell the decision are `Publish`, `Finish` is
`Report` when gh confirmed the status, a deletion or a PATCH with a text is
`Forget`, and everything else, analyses, faults and SA reviews included,
changes nothing of the ledger.

### Runs

All runs use `MCDevGapApproval`. `CHECK_DEADLOCK FALSE` everywhere: when the
bounds are used up, or no request comes, the system rightly rests.

| Run | Instance | Shows |
|---|---|---|
| ApprovalRedelivery | same number in 2 repositories, 2 analyses, 2 tasks, 2 decisions, 1 fault | `OneTaskPerTitle`, `RepeatsAreFaults`, `LeftoverWorktrees`, `ResultMatchesGitHub`, `ImplementsLedger` |
| ApprovalDecisions | 1 head, 2 GAPs, 2 decisions, 1 fault, weak fairness | `TypeOK`, `AnalysisFollowsItems`, `PromotionIsUnanimous`, `TaskOfAnalysis`, `ResultMatchesGitHub`, `EffectsFollowDecision`, `DecisionCompletes` |
| ApprovalPromotion | 1 head, 2 GAPs, 1 decision | violated: `PromotionWaitsForItems` |

`RepeatsAreFaults` is what the early duplicate check is worth: a head that was
analysed is stored again for the webhook only as often as lookups failed.
`PromotionWaitsForItems` states the comment at `rest_handler.py:1291`, that a task
is decided only when every GAP is judged; one rejected item decides it at once.
`PromotionIsUnanimous` is what does hold.

Why the bounds are enough: titles and heads collide with two; an aggregate has
its three cases with two items; a reversal needs two decisions; one fault at any
point leaves every partial state. For the safety properties the theorems of
section 10 need no bound.

**Fairness.** `FairSpec` is weak fairness of `Step`: the event loop goes on with
the handler it has begun, every call a handler makes has a time-out
(`repo_ops.py`), and nothing else runs meanwhile. Requests need not come.

Each property of a passing run, here and below, has a mutant in `PROJECT.json`:
an operator marked `Fault:` in the module, a plausible bug the property catches.
The comments, documents and docstrings that the violated properties state are
quoted there too.

## 4. PipelineSocket

**State.** `sock` is the state of each WebSocket object, `wsConnection` and
`wsStatus` are wsSlice's, `timers` counts the pending timeouts of `onclose`,
`calls` the calls of `connectWebSocket` by App. `up` and `down` are the ordered,
reliable channels of each socket, cut off when it is lost. `job` is what the
handler of each socket on the backend does; `clock` is the second that names a
run, `stored` the table `analysis_results`, `unstored` the requests whose result
could not be written. `requests` and `answers` are what the client sent and
handled. A request has a number only in the model: on the wire answers carry
neither number nor team.

**Atomicity.** One handler awaits a request before it receives the next; the
handlers of different sockets interleave between the steps `Receive`, `Refuse`
or `StartRun`, `PmDone`, `SaDone`, `ChatDone`, `RunFails`. `SaDone` stores
and sends in one step, since there is no `await` before the send and a failure
of either is swallowed. `HandlerDies` is an exception outside the pipelines
(scanning a folder), `HandlerLeaves` the `WebSocketDisconnect`. A run goes on
after its socket is lost, is stored, and its answer is dropped.

**Run** SocketService: App connects once, 2 sockets are lost, 3 requests, 2
seconds. Three requests on three sockets are enough for a run of a lost socket to
end before, during and after the runs of its successors, in the same second and
in another. It shows `ConnectionsBounded`, `OpenIsUsed`,
`ResultStoredBeforeTold`, `StoredMeansSucceeded`, the refinement
`ImplementsService` and, under fairness, `EveryRequestSettles` and
`EventuallyConnected`. `main.jsx` uses StrictMode, which in a development build
runs App's effect twice: `Connects = 2`. `ConnectionsBounded` is proved for any
number; the refinement and `OpenIsUsed` are about `Connects = 1`.

**Fairness.** The browser opens a socket or reports that it could not, fires
timers and delivers frames; a pipeline stage returns or raises. The user need
not send, and sockets need not be lost (their loss is bounded by `MaxDrops`).

### The abstract specification

`AnswerService` is what the store may rely on: a request is answered at most
once, in the order of the requests, or never. `PipelineSocket` implements it with
several sockets, because a frame of a lost socket is swallowed and a request
without an open socket is dropped.

## 5. ClientWorkspace

**State.** It extends `AnswerService` by the client's store: `ws` is the
displayed workspace (status, result, session, whether a chat was started; `of`
is the team whose work it holds, which only the model records), `parked` is
`teamWorkspaces`, `owner` is `analysisOwnerTeamId`, `team` is
`currentUser.team_id`. `calls` are the
switches the server has not answered, `creating` what `createTeam` awaits (`named`:
the teams `/auth/me` may name when it returns), `restores` the stored results
`restoreSessionFromRag` has asked for, `lost` the requests whose socket was lost. A
result is the number of its request.

**Actions.** `sendIdeaChat` and `runSyncUpdate` include the opening of a session
(`HomeScreen.jsx`); `handleWsMessage` has the four branches of
`_handleWsMessage`; `connectionLost` loses every request that is unanswered;
`saveCurrentSession` is the debounced save;
`loadSession`/`restoreSessionFromRag`, `startNewProject`, `switchTeam` with
`switchDone` and `switchFailed`, `createTeam` with `teamCreated` and
`teamNotCreated`.

**What the properties depend on.** The client stops nobody from sending a request
while another is unanswered, from switching again before the server has answered,
or from working on while a team is created. All of it is in the model, and so are
the ways in which it breaks the workspaces. No run switches a case off; the model
records in histories when one has happened, and the properties say what they
except:

- `overlapped`: requests that were unanswered at the same time. The first answer
  ends the ownership of the analysis (`pipelineSlice.js:111`), and its result is
  routed to the team on display.
- `late`: a call about teams was answered after a later one had been made. The
  answer sets the user's team without its workspace (`authSlice.js:227`).
- `outrun`: an answer came to a team while `createTeam`, having parked that team,
  still waited. The parked copy is not made again (`authSlice.js:125-133`): it
  brings back a run that is over, when the team is displayed next.
- `lost`: nothing ends the run of a request whose socket was lost.

`Hindered(t)` says that one of the four has met team `t`. `RunningIsServed` and
`RunningEnds` show that there is no fifth way to leave a team with a run that is
over and its sync button blocked, and that no other team is touched.
`ResultReachesOwner` and `WorkspaceOfActiveTeam` except overlapping requests and
late answers only: several open calls, refused switches, creations and lost sockets
do not harm them.

| Run | Instance | Shows |
|---|---|---|
| Workspace | 2 teams and one that is created, 2 calls about teams that may both be open, 2 requests that may overlap and be lost, weak fairness of answers | `WorkspaceOfActiveTeam`, `OwnerIsWaiting`, `RunningIsServed`, `ResultReachesOwner`, `NoReturnToRunning`, `RunningEnds` |
| WorkspaceRouting | 2 teams, 2 switches, 2 requests | violated: `ResultAlwaysReachesOwner` |

`ResultAlwaysReachesOwner` states the comments at `pipelineSlice.js:59` and `:295`
without the exceptions: a chat, then an analysis; the answer of the chat, a switch,
and the result is displayed in the wrong team.

Two requests overlap or meet an owner that is not their own; two calls make a
late answer, a refused switch across an answer, or a switch during a creation. For
the safety properties the theorems of section 10 need no bound.

**Fairness.** Weak fairness of `Answering`: a request on a socket that lives is
answered (`EveryRequestSettles` of PipelineSocket). Nothing is assumed of the user,
the server's answers about teams, or the socket.

**Not in the model:** roles (the user is a PM who is logged in), `startAnalysis`
(its run is that of `runSyncUpdate`), login and logout, progress frames and the
buffer of thinking lines, memos, the sync flags and design snapshots
(SessionMemos), localStorage, an end of the backend process.

## 6. TeamMembership

**State.** `service` says which of the two services a behaviour is about: both
have these endpoints over databases of their own. `users`, `teams`,
`activeTeam` (`users.team_id`), `role` (`users.role`), `github`, `member`
(`team_members`), `invite`, `messages` are the tables; `request` holds the row
each request in flight has loaded; `oauth` is the entry of `_oauth_sessions` for
one sign-in. `admitted` is a history: whom each invite made a member.

**Atomicity.** An endpoint is two steps. The dependency `get_current_user` is a
plain `def`: FastAPI runs it in a worker thread, and it loads the user's row.
The body is `async def` without an `await`, and runs later on the event loop
with that row. Other bodies run in between. SQLAlchemy writes only the columns
that differ from the row as it was loaded: `TeamAfter` and `RoleAfter`. Endpoints
that read the row in their body (`login`, `register`) are one step.

**Differences of the services**, all in the module: only the server corrects
`users.role` by the membership (`Synced`), writes a role into both tables
(`MemberRoles`) and links a GitHub account to an existing user
(`github_device_link`); only the backend refuses an invite to a member and has
the sign-in through the browser.

**Run** TeamMembership: 2 users, 2 teams, 1 invite with up to 1 use, 1 message, 2
requests in flight, 5 changes. Two requests of one user are enough for a stale
row, of two for the last use of an invite; five changes let a user be registered,
join, create or switch, be given another role and send. It shows
`ActiveTeamIsJoined`, `InviteAdmitsAtMost`, `MessageAmongMembers` and, under
fairness, `RoleSettles` (about the server).

**Fairness.** Weak fairness of `login`: a token is valid for seven days, so
whoever goes on using the system signs in again.

**Not in the model:** passwords, tokens and their revocation, names, the
GitHub tables and the sync with them, keys and subscriptions, the endpoints that
only read. A second process of the server would break the atomicity of bodies on
which `InviteAdmitsAtMost` rests; the repository starts one.

## 7. AnalysisPipeline

**State.** The request (`caller`, `mode`, `previous`, `readable`, `manifest`); the
node that runs; the values of PM's state (`answer` are the requirements as the
model numbered them, `features`, `mapping`, `loops`, `crawled`, `guardian`) and
of SA's (`rtm`, `phase` of the two parallel nodes, `bundle`: the sections in the
object both hold, `shown`: the sections in the runner's merged state); the
`outcome` the client is told. `passed` and `known` are histories: which metadata
the model found harmless, and which the planner was shown.

**Actions.** One per node; a node that asks the model may also fail (`CallFails`),
after the repetitions of `call_structured`. `requirement_analyzer` is the answer
and the rest of the node, `_normalize_feature_ids` and `_reorder_for_update`.
`stack_planner` is a pass, or a pass that needs the self-healing call;
`_route_stack_planning` sends it to the crawler and the guardian once.
The parallel nodes run in threads: `WriteSection` writes into the shared object,
`Walk` is the beginning of the runner's `to_serializable` over an update, and
`MergeUpdate` its end with `_merge_state`. A key that is added between the last two
raises. What the model answers is any value of a small set.

**Run** AnalysisRuns: two requirements of two contents in each mode, ids 0..2
(0 is malformed), one dependency of each requirement on any of these ids, the
requirement's own and ids nobody has included; two metadata per crawl. Two
requirements suffice for a dependency, a duplicate id and a renumbering that
swaps; two metadata for a choice among registries. It shows `BundleKeepsSections`,
`KnowledgeIsChecked`, `RtmKeepsEarlier`, `NumberingKeepsDependencies` and
`EveryAnalysisEnds`.

Two of these are weaker than one would wish, because the code is.
`RtmKeepsEarlier`: the merge of an update (`merge_project.py:157`) keeps an earlier
requirement with its content, unless the answer has a requirement of its number;
the earlier one is then gone. `NumberingKeepsDependencies`: the dependencies among
the answer's requirements survive the renumbering, and a new one arises only onto
a number the answer named without having it, since
`requirement_analyzer.py:95` keeps such a number, which may be given to another
requirement, or to the one that names it.

**Run** AnalysisPreviousIds: violated, `PreviousIdsKept`. The runner passes
`previous_features`, but `PipelineState` does not declare the key and LangGraph
drops it, so that every update is renumbered from FEAT_001. The tests call the
node directly (`caller = "test"`), where it works.

**Fairness.** Weak fairness of `Next`: every call of the model or of a registry
returns or times out, and the event loop goes on with the stream.

**Not in the model:** prompts, texts, versions and cost; the graph of
`REST /api/analyze`, whose nodes are those of the two graphs; the advisers and
other nodes no graph of the runner has.

## 8. AgileBoard

**State.** `board` are the rows of `agile_tasks`, `made` the ids given; `shown` is
the list of each panel, `team` its user's team, `sent` the request it has sent,
`answers` what is on its way back.

**Atomicity.** No endpoint awaits, not even for the language model
(`run_task_generator` calls it on the event loop): each is one step. The panels do
not wait: what a user clicks is about rows as they were fetched, and the answers
arrive in any order.

**Actions.** `SendAction` has the buttons of `TaskApprovalPanel.jsx` by the status
a row is shown with, edits included; the endpoints are `create`, `update`,
`delete`, `generate`, `distribute` and `list`; `Take` is what the panel does with an
answer. `Planned` is the loop of the generator over the model's proposals, `AddProposal`
one round of it, with the check before and the check in `create_task`.

**Run** AgileBoard: one window whose user works in two teams, 2 tasks with two
ways to write one title, 2 proposals in a plan, 5 clicks, 2 answers on their way.
Two proposals may repeat each other. Two answers let an old
list arrive after a newer one; five clicks let a task be generated, distributed,
rejected and returned, and be generated again. It shows `OneTaskPerFeature`,
`StartedWorkHasAssignee` and `PanelSettles`. The distributor asks the model only
when the team has unassigned tasks, but takes any task the model names
(`task_distributor.py:183`): one in progress, or one of another team, whose area it
does not know (`KnownArea`). `Assignments` has them all.

**Run** AgileReassign: violated, `ReassignTakesEffect`. The panel sends a new
assignee with a rejected task; `TaskUpdateRequest` has no such field.

**Fairness.** Strong fairness of the backend (`Handle`) and of the timer's fetch:
both wait only for a bound on the answers under way (`Room`), which the model,
not the code, imposes. Weak fairness of `TakeAny`: an answer arrives.

**Not in the model:** the import of GitHub issues, efforts, priorities and
payloads, and the tasks of Dev Tracking (DevGapApproval).

## 9. SessionMemos

**State.** `rows` is the table `memo_items`; `saved` are the sessions the window
has stored, `current` the open one; `shown` is `userComments`, with `temp` for a
memo under a temporary id; `design` has `resultData`, the snapshot counter and the
last sync marker; `sync` the flags of the update under way, `running` the status,
`runs` the analyses the backend has not ended; `calls` the calls and answers on
their way, in any order.

**Actions.** The endpoints of memos, each one step since none awaits;
`idea_chat_node` (the model's notes) and `run_idea_chat` (writing them) are two,
because the chat awaits a thread. The window's operations (`syncMemos`, `addComment`,
`removeComment`, `runSyncUpdate`, `_processResult`, `restoreDesignSnapshot`,
`markMemosApplied`, the sessions) and its steps when an answer comes or a call
fails: an answer is applied to the list of whatever session is open by then.

**Run** SessionMemos: 2 sessions, 2 texts, 2 memos, 5 clicks, 2 calls. Two
calls make a list overtake a POST; five clicks open a session, add, build, mark
and roll back. Sessions and texts are symmetric. It shows `ShownOnce`,
`NotesAddedOnce` and `RollbackSparesPending`. No fairness is assumed: all three are
safety properties.

**Not in the model:** sections and details of a memo, the talk itself, the routing
of results to another team (ClientWorkspace), the recommendations that
`_processResult` adds to the list as memos of the adviser
(`pipelineSlice.js:207-225`: they have ids of their own and no row, and no call is
made about them), the dialog that shows what an
update will contain.

## 10. Proofs

`DevGapApproval_proofs` proves `Spec => []IInv` for all constants that satisfy
`EventsAssumption` and `BoundsAssumption`: any number of heads, GAPs, teams,
tasks, analyses, decisions and faults. `IInv` is `TypeOK`, `OneTaskPerTitle` and
`TaskOfAnalysis` with what makes them inductive:

- `Room`: a handler is started only where the bounds leave room for what it
  creates (types of the counters);
- `NoTeam`: every task has the empty team, since the graph drops the team. It
  is why the lookup of `Coordinate`, which lists the tasks of a team, finds
  exactly the duplicate that `create_task` found;
- `InFlight`: the task the handler works on exists and has its type and number
  (no other request can delete it meanwhile);
- `GapsArePending`: an analysis with GAPs is pending (types of its items).

`CreateTaskKeeps`, `UpdateTaskKeeps`, `DeleteTaskKeeps` say what the operations
on the table keep; each action has a lemma, `NextIInv` collects them. Theorems:
`TypeCorrect`, `TitlesUnique`, `AnalysisTask`.

`HandlersAdvance` is the part of `DecisionCompletes` that needs no fairness: every
step of a handler lowers `StepsLeft`, and a decision goes on with its task and its
verdict until `Finish` has recorded them (`SaysDecided`) or a fault has ended it. That
a step of the handler is always possible is left to the run.

`DevGapEffects_proofs` adds four invariants that are inductive relative to
`IInv`, each with a lemma for the actions that matter to it and one for the
quiet rest:

- `RepeatBound`: the heads stored again for the webhook, and the one a running
  analysis is about to store again (`InRepeat`), are no more than the faults: a
  check that failed is a fault, and a check that found nothing still holds at the
  commit, because no other handler runs. Theorem `RepeatsBounded`.
- `AInv` = `AnalysisFollowsItems` and `PromotionIsUnanimous`; the lemma
  `AggregateFollowsItems` says when the aggregate is decided. Theorems
  `AnalysesFollowItems`, `PromotionsUnanimous`.
- `PInv` = `ResultMatchesGitHub`, `Reported` (a task whose decision is carried
  out records that decision and reports nothing yet) and `Posting` (what the
  handler knows of the status is true). The step that matters is `PostStatus`:
  it changes the status of a head, and no other task reports on that head,
  because a head belongs to one pull request and titles are unique. Theorems
  `ReportedStatus` and, for the action property, `EffectsRecorded`.
- `LInv`: the worktrees that no running analysis uses (`InUse`) are no more than
  the faults. `LeftoverWorktrees` alone is not inductive, because it counts the
  worktree of the analysis that runs. Theorem `WorktreesBounded`.

Its last part proves `LedgerImplemented`, `Spec => Ledger!Spec`: `HeadTaskUnique` makes
the verdict of a head well defined, `ResultChanged`, `RecordsKept` and `TaskGone`
say what a change of the table means for the ledger, and each action has a lemma
that names its ledger step.

`PipelineSocket_proofs` is about the client's side first, for any number of calls
of App and lost sockets. `ConnectionsBounded` alone is not inductive: the timer
leaves the client alone when the status is not "disconnected", and then a socket
must live. `StatusMeansLive` says so, and holds because every `onclose` lowers the
status. `ConnectLives` says what `connectWebSocket` does to the number of live
sockets. With `Connects = 1` there is one live socket at most
(`OneLiveSocket`), so that nobody's close clears the connection of another:
theorem `OpenSocketIsUsed`.

Its second half is about the backend. `BackendInv` is `BackendTypes`, `OnePlace`
(each request waits on one socket or is the job of one handler, and nobody has it
twice) and `ToldInv` (every frame and every stored result is about a request that
waits nowhere any more, and a frame with a result can be restored). `OnePlace` is
needed because a run is stored under the second in which it started: a later run
may overwrite the result only with one of its own, not with that of a request that
was told something else. The steps that matter are the ends of a handler, stored
(`EndsStored`) and unstored (`EndsUnstored`). Theorems `ResultsStoredFirst`,
`StoredSucceeded`.

Its third part is the refinement, theorem `ServiceImplemented`, for
`Connects = 1` (with two calls there may be two open sockets, and answers of one
overtake those of the other). `Lines` says why answers keep their order: on every
socket that is not closed, the last answer handled, the answers on their way, the
handler's request and the requests that wait grow in this order (`InLine`). Since
one socket lives at most, one line matters at a time. A lemma `Line...` for each way a
line moves, a lemma for each action that names its step of the service.

`ClientWorkspace_proofs` proves the five safety properties of the run, for any
teams, sessions, requests and open calls, with no hypothesis beside the constants'
assumptions:

- `OwnerInv` = `OwnerIsWaiting`, `Numbering` (every request has a sender, and
  answers are answers to requests) and `TeamTypes`. Theorem `OwnerWaits`.
- `late \/ DisplayInv`: until an answer about the teams comes late, `DisplayInv` =
  `StoreTypes`, `LastCall` and `ParkedWhole`. `LastCall` says what an answer that is
  not late meets: it belongs to the last call, which is about the displayed team,
  or creates a team while the displayed one is parked. `ParkedWhole`: whatever is
  parked is a whole workspace and the work of its team, and the owner is parked.
  `_updateParkedWorkspace` patches an entry without looking whether there is one;
  `ParkedWhole` says there is, so that no bare patch is restored. Theorem
  `WorkspaceFollowsTeam`; theorem `RunsNeverReturn` follows, since parking and
  restoring move a workspace as it is (`MovedStatus`).
- `Alone`: a pending request that is not in `overlapped` is the only one pending,
  and if it is an analysis, its team is the owner. Theorem `ResultsReachOwner`.
- `RunInv` = `RunningIsServed` and `CopyIsServed` (the copy `createTeam` keeps of
  the displayed team, if it shows a run, has an analysis to be answered too, or the
  team is hindered). An answer to a team's analysis that is alone ends the run in
  the team's workspace (`AnswerStatus`), and an answer that could end it in the copy
  only puts the team into `outrun`. Theorem `RunningServed`.

`SessionMemos_proofs` proves the three properties of the run for any sessions,
texts, memos, clicks and calls. A memo's text never changes, so the invariant
`MemosInOrder` says that there are texts `t` for which `MemoInv(t)` holds: a memo
that waits for its row is in a list under its temporary id, without a version, or
not at all; and what any list, saved session or answer on its way takes for
reflected is reflected in the table. It has to cover the answers on their way, because
each of them becomes the list when it is taken. `StepOK` says how rows, texts and calls may change in a step,
and the lemmas `StepKeeps...` carry lists and calls over every such step. Theorems
`MemosShownOnce`, `RollbacksSparePending`, `NotesOnce`.

`TeamMembership_proofs` proves type correctness, `ActiveTeamIsJoined`,
`MessageAmongMembers` and `InviteAdmitsAtMost` for any users, teams, invites and
requests in flight. The argument is that **nobody loses a membership** (no code
deletes from `team_members`): `MembershipStep` says so of every step
(`MembersKept`), together with where a step may move a user (`TeamMoves`) and
which rows are in flight afterwards (`RowsOld`), and `MembershipStepKeeps` derives
the invariant `MInv` from it. `MInv` strengthens the properties by
`LoadedTeamIsJoined`: the team of a row that is in flight, however old, is a joined
one. Invites have an invariant of their own (`AllCounted`): whom an invite has
admitted are counted by its uses.

`AnalysisPipeline_proofs` has four invariants, each inductive on its own.
`KInv`: what the guardian approved has passed. `CrawledOnce`: inside the loop
`loop_count` is at most one; it is the bound on which `EveryAnalysisEnds` rests.
`BInv`: the shared bundle has exactly the sections of the nodes that have written;
the update that is merged last carries the whole object.
`RInv`: earlier requirements are numbered upwards, and those of a run each have a
number of their own. It rests on a lemma about orders, `NthIsBijection`: in a
strict order of a finite set the places 1 to n and the elements correspond, which
says that what `Appended` filters and what `Reordered` sorts is there, once.
`UnusedIsNew` says that a number for a malformed id is always found and new.
Theorems, both about action properties: `EarlierKept`, from what `Appended`
returns (`AppendedIsFull`), and `NumberingSound`, which needs
`NormalizedKeeps` and `ReorderedKeeps`: renumbering an answer whose numbers differ,
and reordering it, leave `Edges` between its requirements, and give a dangling
dependency no more than it may meet.
`UnderWay` (the parallel nodes run only while the runner waits for them) and
`CrawledOnce` give the theorem `AnalysisShortens`: every step lowers the number
`Left`, which is 22 at most and 0 just at the end. This is the part of
`EveryAnalysisEnds` that needs no fairness; that no analysis stops on its way is
left to the run.

`AgileBoard_proofs` proves `BoardInvariance` and the two safety properties of
the board for any panels, teams, tasks, clicks and plans of any length. `IInv` is
`BoardInv` (the table: one task per requirement of a team, an assignee for work
that has begun), `SentInv` and `ShownInv`: a row that a panel shows or sends may be old or
deleted, but if it shows work that has begun, the task, if it is still there, has
an assignee, because no endpoint takes one away. `RowsKept` says this of every step of the table,
and carries the panels' rows over it. What the generator creates is a recursive
function over the proposals; `PlannedGrows` says what it returns, from
`ProposalGrows` about one proposal and `Iterated` about functions that are applied
step by step. That the
distributor may name any task does no harm here: it gives every task it touches an
assignee. Theorems `FeaturesOnce`, `WorkAssigned`.

Two things are done in set form, because the library's theorems take an operator,
which no installed prover instantiates: induction over the natural numbers
(`SetInduction`, from the least element of a set that is not empty, `WFMin`) and
the existence of the least and the greatest number of a set.

The proofs assume only the named assumptions of the modules: `EventsAssumption`,
`BoundsAssumption`, `MaxRequestsAssumption`, `SocketAssumption`,
`WorkspaceAssumption`, `NilAssumption` (no parked workspace and no creation is
`Nil`),
`MembershipAssumption`, `MemoAssumption`, `AnalysisAssumption`, `BoardAssumption`,
and `Connects = 1` where the theorem of PipelineSocket states it.

Every safety property of a passing run is proved. Only model-checked: liveness,
since fairness is defined by ENABLED, which is out of the prover's reach
(`DecisionCompletes`, `EveryRequestSettles`, `EventuallyConnected`, `RunningEnds`,
`RoleSettles`, `EveryAnalysisEnds`, `PanelSettles`), and the four properties that are
violated.

## 11. Not modelled

Publishing (one request is one commit; a version is the number of snapshots plus
one, and is given twice after a deletion, `publish_service.py:92`), the desktop
shell, the checkout of branches but for its outcomes and worktrees, billing and
keys, result shaping, the source scanners and the viewers. The reasons are in
`PROJECT.json`: single requests without an interleaving, pure functions,
rendering, or code that only starts a process. Each property of a passing run has
a mutant in `PROJECT.json`; the operators marked `Fault:` in the modules are those.

## 12. Seen while modelling, in no run

The models have these behaviours; no property of a run is about them.

- Approval: a new head gets the task of the old one; `PipelineState` drops
  `notify_pr` and `team_id`, so that the notifier skips and the panel does not list
  the task; the worktree in which a decision should be commented is gone; a
  rejection after an approval keeps the approved code chunks; a completed SA
  review blocks a new one of its title.
- Client: an answer about the teams that comes late names a team that is not
  displayed; a workspace stays running when its answer is lost, or when `createTeam`
  restores the copy of a run that is over; the result of a sync whose team is not
  displayed leaves `_syncInFlight` up (`pipelineSlice.js:94`), so a later result,
  or a restored session, completes that sync; a new project forgets a result that
  is not saved yet. Two runs of one second share their id and the later result
  replaces the earlier (`pipeline_runner.py:310`).
- Accounts: the backend writes a new role into `users` only, and the next switch
  undoes it; linking a GitHub account that a user with a larger id holds is
  refused by the UNIQUE column, although the code releases it first
  (`server/routers/auth.py:774`); loading the callback page again replaces a sign-in
  that succeeded by an error; a PM may demote himself.
- Analysis: what the self-healing call adds is not compared with the evidence;
  metadata of different packages are merged as if they were one; a licence of
  None ends the analysis; so does a key that is added while the runner walks over
  the bundle; an earlier requirement is lost when a new one gets its number; a
  dependency on no requirement may become one on another.
- Board: an edit of title, area or assignee is dropped by the endpoint; the panel
  shows a task as its status was; the distributor assigns a task that is in
  progress, or another team's; a task that an edit of an old row returned to
  "unassigned" keeps its assignee and may be rewritten; a suggestion may give two tasks the same title.
- Memos: the chat's notes reach the client without an id, so that none is shown
  until the list is fetched (`pipeline_runner.py:428`); a late list shows another
  session's memos, or a deleted one; a memo removed while its POST is under way
  comes back; a memo under its temporary id is built but never marked; a failed
  chat clears the flags of a sync.
