----------------------------- MODULE WorkerCommands -----------------------------
(***************************************************************************)
(* The commands the control plane gives one local Worker and waits for:    *)
(* rename or delete a workspace or a session, read a session's history,    *)
(* pick a new workspace, update or uninstall the Worker.  At one end the   *)
(* hub's request coroutines, its registries of pending requests and its    *)
(* handlers of the answers; at the other the Worker's receive loop and the *)
(* threads it starts for the picker, the history reads, the session index  *)
(* and the update.                                                         *)
(*                                                                         *)
(* The hub runs on one event loop, so a handler, and the part of a request *)
(* before or after its await, is one action.  create_task runs on a pool   *)
(* thread instead, between any two steps of the loop: it reads the session *)
(* record, saves its copy, makes the Task and dispatches it, and meets the *)
(* loop where a deletion has looked for Tasks and has not deleted yet.     *)
(* The Worker's receive loop handles one command after another, but its    *)
(* threads run between any two steps: a command that changes the workspace *)
(* list loads it, saves it and reports it in three steps, the picker       *)
(* captures, saves and publishes it in three more, and no lock is held     *)
(* over either.                                                            *)
(***************************************************************************)
EXTENDS Naturals, Sequences, FiniteSets

CONSTANTS Workspaces,  \* workspaces the Worker may have
          Initial,     \* those it has when it is paired
          Sessions,    \* sessions of the workspaces, as they were created
          Titled,      \* those their user created with a title
          HomeOf,      \* the workspace of each session
          Default,     \* the name a workspace or a session has by default
          Names,       \* names a user may give
          Kinds,       \* the commands asked for
          MaxRequests, \* commands the users may ask for
          MaxTasks,    \* create_task calls
          MaxConns,    \* WebSocket connections the Worker may open
          MaxOps,      \* commands, connections, create_tasks and updates of the Worker's own
          Limit        \* Tasks the hub gives the Worker at a time

ASSUME CommandBounds == {MaxRequests, MaxTasks, MaxConns, MaxOps, Limit} \subseteq Nat
ASSUME CommandHomes  == Initial \subseteq Workspaces /\ HomeOf \in [Sessions -> Initial] /\ Titled \subseteq Sessions
ASSUME CommandKinds  == Kinds \subseteq {"rename", "delete", "history", "select", "update", "uninstall"}

Conns    == 1 .. MaxConns
Entities == Workspaces \cup Sessions
Absent   == [name |-> Default, by |-> "none"]
Unnamed  == [name |-> Default, by |-> "auto"]
AnyMark  == [name : {Default} \cup Names, by : {"auto", "user"}]

VARIABLES conn,     \* the device's current connection (0: offline)
          ready,    \* the hello of that connection was handled
          opened,   \* connections opened so far
          request,  \* the commands asked for, in the order of asking
          known,    \* the device record: name of each workspace and who gave it
          title,    \* the session records: the same of each session
          begun,    \* sessions whose record says they had a first request
          making,   \* the create_task calls, and the Tasks they make
          erasing,  \* the deletion on the loop, and the Tasks it found when it looked
          inbox,    \* messages from the Worker, per connection
          outbox,   \* messages to the Worker, per connection
          wconn,    \* the connection the Worker holds open (0: none)
          store,    \* workspaces.json: name of each workspace in it
          config,   \* the Worker's configuration in memory, the same list
          local,    \* the Worker's session files: name of each, and who gave it
          active,   \* Tasks with a run in the Worker
          over,     \* those of them whose terminal was sent
          doing,    \* the command the receive loop is in the middle of
          picker,   \* the thread that shows the directory picker
          histories,\* commands whose history thread has not answered
          reads,    \* session-index threads that have not read the files
          indexes,  \* what the other session-index threads are to send
          updating, \* the Worker's update flag
          cooling,  \* an update asked for has failed, perhaps a moment ago
          life,     \* "up", "leaving" (uninstall accepted), "gone", "rejected"
          done,     \* commands the Worker carried out
          updates   \* updates the Worker has begun on its own

hub    == <<conn, ready, opened, request, known, title, begun, making, erasing>>
wire   == <<inbox, outbox>>
files  == <<store, config, local>>
thread == <<picker, histories, reads, indexes>>
worker == <<wconn, active, over, doing, updating, cooling, life, done, updates>>
vars   == <<hub, wire, files, thread, worker>>

AnyName  == {Default} \cup Names
Idle     == [at |-> "idle", id |-> 0]
Nothing  == [id |-> 0, there |-> {}]
Closed   == [at |-> "closed", id |-> 0, held |-> <<>>, shared |-> FALSE]
Lists    == UNION {[S -> AnyName] : S \in SUBSET Workspaces}
MayStart == Len(request) + opened + Len(making) + updates < MaxOps
OnLoop   == erasing.id = 0
Tasks    == {i \in DOMAIN making : making[i].at \in {"made", "sent"}}
SessionsOfTasks(T) == {making[i].session : i \in T}
Waiting  == {r \in DOMAIN request : request[r].told = "none"}
Without(f, S) == [x \in DOMAIN f \ S |-> f[x]]
With(f, x, v) == [y \in DOMAIN f \cup {x} |-> IF y = x THEN v ELSE f[y]]

Init ==
  /\ conn = 0 /\ ready = FALSE /\ opened = 0 /\ request = <<>>
  /\ known = [w \in Workspaces |-> IF w \in Initial THEN Unnamed ELSE Absent]
  /\ title \in [Sessions -> {Unnamed} \cup [name : Names, by : {"user"}]]
  /\ \A s \in Sessions : title[s].by = "user" <=> s \in Titled
  /\ begun = {}
  /\ making = <<>> /\ erasing = Nothing
  /\ inbox = [c \in Conns |-> <<>>] /\ outbox = [c \in Conns |-> <<>>]
  /\ wconn = 0 /\ store = [w \in Initial |-> Default] /\ config = store
  /\ local = <<>> /\ active = {} /\ over = {}
  /\ doing = Idle /\ picker = Closed /\ histories = {} /\ reads = 0 /\ indexes = {}
  /\ updating = FALSE /\ cooling = FALSE /\ life = "up" /\ done = {} /\ updates = 0

-----------------------------------------------------------------------------
(* Connections.  A connection that replaces another, and the end of the    *)
(* current one, fail what waits for the device and end its Tasks.          *)

Failed(q) ==
  [r \in DOMAIN q |->
     IF q[r].told # "none" THEN q[r]
     ELSE IF q[r].kind = "select" THEN [q[r] EXCEPT !.told = "failed"]
     ELSE IF q[r].answer = "none" THEN [q[r] EXCEPT !.answer = "failed"] ELSE q[r]]

Cut == [i \in DOMAIN making |-> IF making[i].at = "sent" THEN [making[i] EXCEPT !.at = "ended"] ELSE making[i]]

Offline ==
  /\ conn' = 0 /\ ready' = FALSE
  /\ request' = Failed(request)
  /\ making' = Cut

\* The hub's end of a connection: its reader has left, and a protocol.error or a
\* plain close waits for the Worker.
HungUp(c) == \E k \in DOMAIN outbox[c] : outbox[c][k].type \in {"refused", "closed"}

ToHub(m)    == inbox' = IF wconn = 0 \/ HungUp(wconn) THEN inbox ELSE [inbox EXCEPT ![wconn] = Append(@, m)]
ToWorker(m) == outbox' = IF conn = 0 THEN outbox ELSE [outbox EXCEPT ![conn] = Append(@, m)]

Connect ==
  /\ OnLoop /\ life = "up" /\ wconn = 0 /\ opened < MaxConns /\ MayStart
  /\ opened' = opened + 1 /\ conn' = opened' /\ wconn' = opened' /\ ready' = FALSE
  /\ request' = Failed(request) /\ making' = Cut
  /\ inbox' = [inbox EXCEPT ![opened'] = <<[type |-> "hello", list |-> config]>>]
  /\ UNCHANGED <<known, title, begun, erasing, outbox, files, thread, active, over, doing, updating,
                 cooling, life, done, updates>>

\* The Worker's socket breaks, or the hub closed it: its runs are cancelled and
\* joined.  Its threads go on.  (The last connection of the bound does not break.)
Lose ==
  /\ wconn # 0 /\ doing = Idle
  /\ opened < MaxConns \/ (outbox[wconn] # <<>> /\ outbox[wconn][1].type = "closed")
  /\ wconn' = 0 /\ active' = {} /\ over' = {}
  /\ outbox' = [outbox EXCEPT ![wconn] = <<>>]
  /\ UNCHANGED <<hub, inbox, files, thread, doing, updating, cooling, life, done, updates>>

\* The hub learns of it; what it has not received by then is lost.
Disconnect ==
  /\ OnLoop /\ conn # 0 /\ conn # wconn
  /\ inbox' = [inbox EXCEPT ![conn] = <<>>]
  /\ Offline
  /\ UNCHANGED <<opened, known, title, begun, erasing, outbox, files, thread, worker>>

-----------------------------------------------------------------------------
(* Asking: the checks of the route and of _register_pending_request, and   *)
(* the command on the connection's outbox.                                 *)

Subjects(kind) ==
  CASE kind \in {"rename", "delete"} -> {w \in Workspaces : known[w] # Absent}
                                          \cup {s \in Sessions : title[s] # Absent}
    [] kind = "history" -> {s \in Sessions : title[s] # Absent}
    [] OTHER -> {"device"}

SessionsOf(e) == IF e \in Sessions THEN {e} ELSE {s \in Sessions : HomeOf[s] = e /\ title[s] # Absent}

\* A second rename (or deletion) of the same entity is refused while one is pending.
Conflicts(kind, e) ==
  /\ kind \in {"rename", "delete"}
  /\ \E r \in DOMAIN request : /\ request[r].kind = kind /\ request[r].entry
                               /\ request[r].subject = e

Ask ==
  /\ OnLoop /\ ready /\ Len(request) < MaxRequests /\ MayStart
  /\ \E kind \in Kinds :
     /\ kind = "select" => ~ \E r \in Waiting : request[r].kind = "select"
     /\ \E e \in Subjects(kind), n \in (IF kind = "rename" THEN Names ELSE {Default}) :
        /\ ~Conflicts(kind, e)
        /\ kind = "delete" => SessionsOf(e) \cap SessionsOfTasks(Tasks) = {}
        /\ \E old \in SUBSET {r \in DOMAIN request : request[r].kind = "history" /\ request[r].told = "late"} :
             request' = Append([r \in DOMAIN request |->
                                  IF r \in old THEN [request[r] EXCEPT !.entry = FALSE] ELSE request[r]],
                               [kind |-> kind, subject |-> e, name |-> n, entry |-> TRUE,
                                answer |-> "none", told |-> "none", of |-> SessionsOf(e)])
        /\ ToWorker([type |-> "command", id |-> Len(request) + 1])
  /\ UNCHANGED <<conn, ready, opened, known, title, begun, making, erasing, inbox, files, thread, worker>>

Told(r, how) == request' = [request EXCEPT ![r].told = how, ![r].entry = FALSE]
Erases(r)    == request[r].kind = "delete" /\ request[r].answer = "completed"

\* A renamed session is saved once more, unless its record is gone.
ReturnRenamed(r) ==
  LET q == request[r] IN
  /\ q.kind = "rename" /\ q.subject \in Sessions /\ q.answer = "completed"
  /\ UNCHANGED erasing
  /\ IF title[q.subject] = Absent
       THEN Told(r, "refused") /\ UNCHANGED title
       ELSE /\ Told(r, "completed")
            /\ title' = [title EXCEPT ![q.subject] = [name |-> q.name, by |-> "user"]]

\* Mutant: the route does not look at the Tasks again.
ReturnUnchecked ==
  /\ OnLoop
  /\ \E r \in Waiting :
     /\ request[r].answer # "none"
     /\ \/ ReturnRenamed(r)
        \/ /\ Erases(r)
           /\ erasing' = [id |-> r, there |-> Tasks]
           /\ UNCHANGED <<request, title>>
  /\ UNCHANGED <<conn, ready, opened, known, begun, making, wire, files, thread, worker>>

\* What the hub's route does when the answer is in.  A deleted entity's sessions
\* are to go at the hub too, unless one is gone or has an active Task by now.
Return ==
  /\ OnLoop
  /\ \E r \in Waiting :
     /\ request[r].answer # "none"
     /\ \/ ReturnRenamed(r)
        \/ /\ Erases(r)
           /\ IF \E s \in request[r].of : title[s] = Absent \/ s \in SessionsOfTasks(Tasks)
                THEN Told(r, "refused") /\ UNCHANGED erasing
                ELSE erasing' = [id |-> r, there |-> Tasks] /\ UNCHANGED request
           /\ UNCHANGED title
        \/ /\ ~Erases(r)
           /\ ~(request[r].kind = "rename" /\ request[r].subject \in Sessions /\ request[r].answer = "completed")
           /\ Told(r, request[r].answer)
           /\ UNCHANGED <<title, erasing>>
  /\ UNCHANGED <<conn, ready, opened, known, begun, making, wire, files, thread, worker>>

\* The loop goes on to delete the records.  It has awaited nothing since it
\* looked, but the pool's threads have gone on.
Erase ==
  /\ erasing.id # 0
  /\ Told(erasing.id, "completed")
  /\ LET gone == request[erasing.id].of IN
       /\ title' = [s \in Sessions |-> IF s \in gone THEN Absent ELSE title[s]]
       /\ begun' = begun \ gone
  /\ erasing' = Nothing
  /\ UNCHANGED <<conn, ready, opened, known, making, wire, files, thread, worker>>

\* asyncio.wait_for gives up, or the picker's request expires.  Only a history
\* request is kept, so that a late answer finds it.
TimeOut ==
  /\ OnLoop
  /\ \E r \in Waiting :
     /\ request[r].answer = "none"
     /\ request' = [request EXCEPT ![r].told = "late",
                                   ![r].entry = request[r].kind \in {"history", "select"}]
  /\ UNCHANGED <<conn, ready, opened, known, title, begun, making, erasing, wire, files, thread, worker>>

-----------------------------------------------------------------------------
(* create_task, on a thread of the pool.  A call is                        *)
(*   "loaded"  it has a copy of a record without a first request,          *)
(*   "ready"   its copy needs no first request, or was saved with it,      *)
(*   "made"    its Task is in the repository,                              *)
(*   "sent"    the hub has given the Task to the Worker,                   *)
(*   "ended"   the Task, or the call without one, is over.                 *)

LoadSession ==
  /\ Len(making) < MaxTasks /\ MayStart
  /\ \E s \in Sessions :
       /\ title[s] # Absent
       /\ making' = Append(making, [at |-> IF s \in begun THEN "ready" ELSE "loaded",
                                    session |-> s, copy |-> title[s]])
  /\ UNCHANGED <<conn, ready, opened, request, known, title, begun, erasing, wire, files, thread, worker>>

\* initialize_from_first_request: the copy gets the request's words for a title,
\* unless a user had named it, and is saved over whatever the record is by now.
Initialize ==
  \E i \in DOMAIN making :
    /\ making[i].at = "loaded"
    /\ LET copy == IF making[i].copy.by = "user" THEN making[i].copy ELSE Unnamed IN
       /\ making' = [making EXCEPT ![i].at = "ready", ![i].copy = copy]
       /\ title' = [title EXCEPT ![making[i].session] = copy]
       /\ begun' = begun \cup {making[i].session}
    /\ UNCHANGED <<conn, ready, opened, request, known, erasing, wire, files, thread, worker>>

\* The device is online and has the workspace.  The session is not looked at again.
MakeTask ==
  \E i \in DOMAIN making :
    /\ making[i].at = "ready"
    /\ making' = [making EXCEPT ![i].at =
                     IF ready /\ known[HomeOf[making[i].session]] # Absent THEN "made" ELSE "ended"]
    /\ UNCHANGED <<conn, ready, opened, request, known, title, begun, erasing, wire, files, thread, worker>>

\* WorkerHub.dispatch, or the failed Task it leaves behind.
Dispatch ==
  \E i \in DOMAIN making :
    /\ making[i].at = "made"
    /\ \/ /\ ready /\ known[HomeOf[making[i].session]] # Absent
          /\ Cardinality({j \in Tasks : making[j].at = "sent"}) < Limit
          /\ making' = [making EXCEPT ![i].at = "sent"]
          /\ ToWorker([type |-> "start", id |-> i])
       \/ /\ \/ ~ready \/ known[HomeOf[making[i].session]] = Absent
             \/ Cardinality({j \in Tasks : making[j].at = "sent"}) >= Limit
          /\ making' = [making EXCEPT ![i].at = "ended"]
          /\ UNCHANGED outbox
    /\ UNCHANGED <<conn, ready, opened, request, known, title, begun, erasing, inbox, files, thread, worker>>

-----------------------------------------------------------------------------
(* The hub's handlers.                                                     *)

\* Mutants: the Worker's own name replaces the one a user gave.
MergedOverNames(list) ==
  [w \in Workspaces |-> IF w \notin DOMAIN list THEN Absent ELSE [name |-> list[w], by |-> "auto"]]
IndexedOverNames(list) ==
  [s \in Sessions |->
     IF s \notin DOMAIN list \/ known[HomeOf[s]] = Absent THEN title[s] ELSE list[s]]

\* DeviceStore.update_presence: the record takes the Worker's list, and keeps
\* the names users gave.
Merged(list) ==
  [w \in Workspaces |->
     IF w \notin DOMAIN list THEN Absent
     ELSE IF known[w].by = "user" THEN known[w] ELSE [name |-> list[w], by |-> "auto"]]

\* WorkerHub._merge_local_session_summary, of the summaries _parse_session_summary
\* lets through: name and giver are the Worker's file's.
Indexed(list) ==
  [s \in Sessions |->
     IF s \notin DOMAIN list \/ known[HomeOf[s]] = Absent \/ title[s].by = "user"
       THEN title[s] ELSE list[s]]

\* The handler raises, and the socket is closed behind what had been sent: with a
\* protocol.error ("refused"), or plainly for an exception the route does not
\* know ("closed").
HangUp(c, how) ==
  /\ \E k \in 0 .. Len(outbox[c]) :
       outbox' = [outbox EXCEPT ![c] = SubSeq(@, 1, k) \o <<[type |-> how]>>]
  /\ inbox' = [inbox EXCEPT ![c] = <<>>]
  /\ IF conn = c THEN Offline ELSE UNCHANGED <<conn, ready, request, making>>

Hello(c, m) ==
  /\ m.type = "hello"
  /\ known' = Merged(m.list)
  /\ inbox' = [inbox EXCEPT ![c] = Tail(@)]
  /\ ready' = IF c = conn THEN TRUE ELSE ready
  /\ ToWorker([type |-> "ack"])
  /\ UNCHANGED <<conn, request, title, begun, making>>

Index(c, m) ==
  /\ m.type = "sessions"
  /\ title' = Indexed(m.list)
  /\ begun' = begun \cup {s \in DOMAIN m.list : known[HomeOf[s]] # Absent}
  /\ inbox' = [inbox EXCEPT ![c] = Tail(@)]
  /\ UNCHANGED <<conn, ready, request, known, making, outbox>>

\* A Task taken from the device meanwhile is a protocol error too (_assigned_task).
TaskEnded(c, m) ==
  /\ m.type = "ended"
  /\ UNCHANGED <<known, title, begun>>
  /\ IF making[m.id].at = "sent"
       THEN /\ making' = [making EXCEPT ![m.id].at = "ended"]
            /\ inbox' = [inbox EXCEPT ![c] = Tail(@)]
            /\ UNCHANGED <<conn, ready, request, outbox>>
       ELSE HangUp(c, "refused")

\* Mutant: an answer finds its request by what it is about.
MatchingSubject(m) ==
  {r \in DOMAIN request : /\ request[r].entry /\ request[r].kind = request[m.id].kind
                          /\ request[r].subject = request[m.id].subject}
Matching(m) == {r \in {m.id} : request[r].entry}

\* The result of a request whose coroutine still waits; a request already given
\* up only loses its entry, and a picker's request is answered where it stands.
Resolve(r, ok) ==
  LET result == IF ok THEN "completed" ELSE "failed" IN
  request' = IF request[r].told # "none"
               THEN [request EXCEPT ![r].entry = request[r].kind = "select"]
             ELSE IF request[r].kind = "select" THEN [request EXCEPT ![r].told = result]
             ELSE [request EXCEPT ![r].answer = IF @ = "none" THEN result ELSE @]

Renamed(list, r) ==
  LET e == request[r].subject IN
  IF e \in Workspaces
    THEN /\ known' = [Merged(list) EXCEPT ![e] = [name |-> request[r].name, by |-> "user"]]
         /\ UNCHANGED title
    ELSE /\ title' = [title EXCEPT ![e] = [name |-> request[r].name, by |-> "user"]]
         /\ UNCHANGED known

\* The answer to a rename is checked against the list that comes with it, once
\* the device record has taken that list.
Inconsistent(m, r) ==
  LET q == request[r] IN
  /\ m.ok /\ q.kind = "rename" /\ q.subject \in Workspaces
  /\ ~(q.subject \in DOMAIN m.list /\ m.list[q.subject] = q.name)

\* A session renamed at the Worker has lost its record at the hub.
RecordGone(m, r) ==
  LET q == request[r] IN
  m.ok /\ q.kind = "rename" /\ q.subject \in Sessions /\ title[q.subject] = Absent

Answered(c, m) ==
  /\ m.type = "answer"
  /\ UNCHANGED begun
  /\ \/ /\ Matching(m) = {}
        /\ HangUp(c, "refused")
        /\ UNCHANGED <<known, title>>
     \/ \E r \in Matching(m) :
          LET q == request[r] IN
          \/ /\ Inconsistent(m, r)
             /\ known' = Merged(m.list)
             /\ HangUp(c, "refused")
             /\ UNCHANGED title
          \/ /\ RecordGone(m, r)
             /\ HangUp(c, "closed")
             /\ UNCHANGED <<known, title>>
          \/ /\ ~Inconsistent(m, r) /\ ~RecordGone(m, r)
             /\ Resolve(r, m.ok)
             /\ inbox' = [inbox EXCEPT ![c] = Tail(@)]
             /\ IF m.ok /\ q.kind = "rename" THEN Renamed(m.list, r)
                ELSE /\ UNCHANGED title
                     /\ known' = IF m.ok /\ (\/ q.kind = "delete" /\ q.subject \in Workspaces
                                             \/ q.kind = "select" /\ q.told = "none")
                                   THEN Merged(m.list) ELSE known
             /\ UNCHANGED <<conn, ready, making, outbox>>

Handle ==
  /\ OnLoop
  /\ \E c \in Conns :
     /\ inbox[c] # <<>>
     /\ LET m == inbox[c][1] IN
          \/ Hello(c, m)
          \/ Index(c, m)
          \/ TaskEnded(c, m)
          \/ Answered(c, m)
  /\ UNCHANGED <<opened, erasing, files, thread, worker>>

-----------------------------------------------------------------------------
(* The Worker's receive loop, one command at a time.                       *)

Reply(r, ok) == ToHub([type |-> "answer", id |-> r, ok |-> ok, list |-> config'])
Did(r, ok)   == done' = IF ok THEN done \cup {r} ELSE done

\* The next message of the connection the Worker holds, taken off the outbox.
Receives(type) ==
  /\ wconn # 0 /\ doing = Idle /\ life \in {"up", "leaving"}
  /\ outbox[wconn] # <<>> /\ outbox[wconn][1].type = type
Take == outbox' = [outbox EXCEPT ![wconn] = Tail(@)]
Command(kind, r) ==
  /\ Receives("command")
  /\ r = outbox[wconn][1].id /\ request[r].kind = kind
  /\ Take

Acknowledged ==
  /\ Receives("ack") /\ Take
  /\ reads' = reads + 1
  /\ UNCHANGED <<hub, inbox, files, picker, histories, indexes, worker>>

\* The process ends, and its threads and what it had not sent with it.
Ends ==
  /\ wconn' = 0 /\ active' = {} /\ over' = {} /\ doing' = Idle
  /\ outbox' = IF wconn = 0 THEN outbox ELSE [outbox EXCEPT ![wconn] = <<>>]
  /\ picker' = Closed /\ histories' = {} /\ reads' = 0 /\ indexes' = {}
  /\ updating' = FALSE /\ cooling' = FALSE

\* protocol.error, or a close code of run_forever, which returns: the service's
\* process ends.
TurnedAway ==
  /\ Receives("refused")
  /\ life' = "rejected"
  /\ Ends
  /\ UNCHANGED <<hub, inbox, files, done, updates>>

StartTask ==
  /\ Receives("start") /\ Take
  /\ LET i == outbox[wconn][1].id IN
       IF HomeOf[making[i].session] \notin DOMAIN config \/ updating
         THEN /\ ToHub([type |-> "ended", id |-> i])
              /\ UNCHANGED active
         ELSE /\ active' = active \cup {i}
              /\ UNCHANGED inbox
  /\ UNCHANGED <<hub, files, thread, wconn, over, doing, updating, cooling, life, done, updates>>

\* The run's thread saves its session, now or later: under the name of the record
\* the Task was dispatched with.
RunSaves ==
  \E i \in active \ over :
    /\ local' = With(local, making[i].session, making[i].copy)
    /\ UNCHANGED <<hub, wire, store, config, thread, worker>>

\* It sends the terminal, then leaves active_runs.
RunEnds ==
  \E i \in active \ over :
    /\ over' = over \cup {i}
    /\ ToHub([type |-> "ended", id |-> i])
    /\ UNCHANGED <<hub, outbox, files, thread, wconn, active, doing, updating, cooling, life, done, updates>>

RunGone ==
  \E i \in over :
    /\ over' = over \ {i} /\ active' = active \ {i}
    /\ UNCHANGED <<hub, wire, files, thread, wconn, doing, updating, cooling, life, done, updates>>

\* A command that loads the workspace list makes it a new object, which the
\* picker's no longer is.
Unshare == picker' = [picker EXCEPT !.shared = FALSE]

RenameSession(r) ==
  LET s  == request[r].subject
      ok == s \in DOMAIN local /\ HomeOf[s] \in DOMAIN config IN
  /\ s \in Sessions
  /\ local' = IF ok THEN [local EXCEPT ![s].name = request[r].name] ELSE local
  /\ reads' = IF ok THEN reads + 1 ELSE reads
  /\ Did(r, ok) /\ UNCHANGED <<store, config>> /\ Reply(r, ok)
  /\ UNCHANGED <<picker, doing>>

RenameWorkspace(r) ==
  LET w == request[r].subject IN
  /\ w \in Workspaces
  /\ Unshare /\ UNCHANGED <<store, local, reads, done>>
  /\ IF w \in DOMAIN store
       THEN /\ config' = [store EXCEPT ![w] = request[r].name]
            /\ doing' = [at |-> "loaded", id |-> r]
            /\ UNCHANGED inbox
       ELSE /\ config' = store /\ Reply(r, FALSE)
            /\ UNCHANGED doing

Rename ==
  /\ \E r \in DOMAIN request : Command("rename", r) /\ (RenameSession(r) \/ RenameWorkspace(r))
  /\ UNCHANGED <<hub, histories, indexes, wconn, active, over, updating, cooling, life, updates>>

\* Runs of the entity, under the activity lock.
Busy(e) == \E s \in SessionsOfTasks(active) : s = e \/ HomeOf[s] = e

Delete ==
  /\ \E r \in DOMAIN request :
     /\ Command("delete", r)
     /\ Unshare
     /\ config' = store /\ UNCHANGED store
     /\ LET e    == request[r].subject
            mine == request[r].of \cup {s \in Sessions : s = e \/ HomeOf[s] = e} IN
        IF Busy(e) \/ (e \in Workspaces /\ e \notin DOMAIN store)
          THEN Reply(r, FALSE) /\ UNCHANGED <<local, reads, done, doing>>
          ELSE /\ local' = Without(local, mine)
               /\ IF e \in Sessions
                    THEN Reply(r, TRUE) /\ Did(r, TRUE) /\ reads' = reads + 1 /\ UNCHANGED doing
                    ELSE /\ doing' = [at |-> "loaded", id |-> r]
                         /\ UNCHANGED <<inbox, reads, done>>
  /\ UNCHANGED <<hub, histories, indexes, wconn, active, over, updating, cooling, life, updates>>

\* ConfigStore.save_workspaces of the list in memory, then the answer with it.
SaveList ==
  /\ doing.at = "loaded"
  /\ LET q == request[doing.id] IN
     IF q.kind = "rename"
       THEN store' = config /\ UNCHANGED <<config, picker>>
       ELSE /\ config' = Without(config, {q.subject}) /\ store' = config'
            /\ picker' = IF picker.shared THEN [picker EXCEPT !.held = config'] ELSE picker
  /\ doing' = [doing EXCEPT !.at = "saved"]
  /\ UNCHANGED <<hub, wire, local, histories, reads, indexes, wconn, active, over, updating,
                 cooling, life, done, updates>>

ReportList ==
  /\ doing.at = "saved"
  /\ UNCHANGED config /\ Reply(doing.id, TRUE)
  /\ Did(doing.id, TRUE) /\ doing' = Idle
  /\ reads' = IF request[doing.id].kind = "delete" THEN reads + 1 ELSE reads
  /\ UNCHANGED <<hub, outbox, store, local, picker, histories, indexes, wconn, active, over,
                 updating, cooling, life, updates>>

-----------------------------------------------------------------------------
(* The Worker's threads.                                                   *)

ReadHistory ==
  /\ \E r \in DOMAIN request : Command("history", r) /\ histories' = histories \cup {r}
  /\ UNCHANGED <<hub, inbox, files, picker, reads, indexes, worker>>

\* A session that cannot be read is answered with an empty history.  Without a
\* connection the answer is lost.
HistoryRead ==
  \E r \in histories :
    /\ histories' = histories \ {r}
    /\ ToHub([type |-> "answer", id |-> r, ok |-> TRUE, list |-> <<>>])
    /\ done' = done \cup {r}
    /\ UNCHANGED <<hub, outbox, files, picker, reads, indexes, wconn, active, over, doing, updating,
                   cooling, life, updates>>

ReadIndex ==
  /\ reads > 0 /\ reads' = reads - 1
  /\ indexes' = indexes \cup {[s \in {x \in DOMAIN local : HomeOf[x] \in DOMAIN config} |-> local[s]]}
  /\ UNCHANGED <<hub, wire, files, picker, histories, worker>>

SendIndex ==
  \E list \in indexes :
    /\ indexes' = indexes \ {list}
    /\ ToHub([type |-> "sessions", list |-> list])
    /\ UNCHANGED <<hub, outbox, files, picker, histories, reads, worker>>

\* One picker at a time (_workspace_lock).
OpenPicker ==
  /\ \E r \in DOMAIN request :
     /\ Command("select", r)
     /\ IF picker.at = "closed"
          THEN picker' = [Closed EXCEPT !.at = "open", !.id = r] /\ UNCHANGED <<inbox, config>>
          ELSE UNCHANGED <<picker, config>> /\ Reply(r, FALSE)
  /\ UNCHANGED <<hub, store, local, histories, reads, indexes, worker>>

PickerEnds(ok) ==
  /\ picker' = Closed
  /\ Reply(picker.id, ok) /\ Did(picker.id, ok)

Pick ==
  /\ picker.at = "open"
  /\ UNCHANGED <<hub, outbox, store, local, histories, reads, indexes, wconn, active, over, doing,
                 updating, cooling, life, updates, config>>
  /\ \/ PickerEnds(FALSE)
     \/ /\ picker' = [picker EXCEPT !.at = "held", !.held = config, !.shared = TRUE]
        /\ UNCHANGED <<inbox, done>>

\* ConfigStore.add_workspace of the list captured, which is saved whole.
AddPicked ==
  /\ picker.at = "held"
  /\ \E w \in Workspaces :
     /\ w \in DOMAIN picker.held \/ w \notin Initial
     /\ LET added == IF w \in DOMAIN picker.held THEN picker.held ELSE With(picker.held, w, Default) IN
        /\ picker' = [picker EXCEPT !.at = "added", !.held = added]
        /\ store' = IF w \in DOMAIN picker.held THEN store ELSE added
        /\ config' = IF picker.shared THEN added ELSE config
  /\ UNCHANGED <<hub, wire, local, histories, reads, indexes, worker>>

PublishPicked ==
  /\ picker.at = "added"
  /\ config' = picker.held
  /\ PickerEnds(TRUE)
  /\ UNCHANGED <<hub, outbox, store, local, histories, reads, indexes, wconn, active, over, doing,
                 updating, cooling, life, updates>>

\* Mutant: the flag is set without a look at the runs.
BeginUpdateBlindly == ~updating /\ updating' = TRUE

\* Update.  begin_update and _start_task look at the flag and at the runs under
\* the activity lock.  After a failure an update asked for is refused for a while.
BeginUpdate == ~updating /\ active = {} /\ updating' = TRUE

AskUpdate ==
  /\ \E r \in DOMAIN request :
     /\ Command("update", r)
     /\ UNCHANGED config
     /\ \/ /\ BeginUpdate
           /\ Reply(r, TRUE) /\ Did(r, TRUE)
        \/ /\ cooling \/ updating \/ active # {}
           /\ Reply(r, FALSE)
           /\ UNCHANGED <<updating, done>>
  /\ UNCHANGED <<hub, store, local, thread, wconn, active, over, doing, cooling, life, updates>>

AutoUpdate ==
  /\ life = "up" /\ MayStart /\ updates' = updates + 1
  /\ BeginUpdate
  /\ UNCHANGED <<hub, wire, files, thread, wconn, active, over, doing, cooling, life, done>>

UpdateFails ==
  /\ updating /\ updating' = FALSE /\ cooling' \in {cooling, TRUE}
  /\ UNCHANGED <<hub, wire, files, thread, wconn, active, over, doing, life, done, updates>>

\* stop after apply_update: the installer starts the new version.  That end_update
\* clears the flag a moment before the process is gone is left out.
Install ==
  /\ updating /\ doing = Idle
  /\ Ends
  /\ config' = store
  /\ UNCHANGED <<hub, inbox, store, local, life, done, updates>>

\* The busy check takes the lock and sets no flag.
Uninstall ==
  /\ \E r \in DOMAIN request :
     /\ Command("uninstall", r)
     /\ LET ok == active = {} /\ ~updating IN
        /\ life' = IF ok THEN "leaving" ELSE life
        /\ UNCHANGED config /\ Reply(r, ok) /\ Did(r, ok)
  /\ UNCHANGED <<hub, store, local, thread, wconn, active, over, doing, updating, cooling, updates>>

Leave ==
  /\ life = "leaving" /\ doing = Idle /\ life' = "gone"
  /\ Ends
  /\ UNCHANGED <<hub, inbox, files, done, updates>>

-----------------------------------------------------------------------------
Hub == Disconnect \/ Ask \/ Return \/ Erase \/ TimeOut \/ Handle

Pool == LoadSession \/ Initialize \/ MakeTask \/ Dispatch

Loop == \/ Connect \/ Lose \/ Acknowledged \/ TurnedAway \/ StartTask
        \/ Rename \/ Delete \/ SaveList \/ ReportList
        \/ ReadHistory \/ OpenPicker \/ AskUpdate \/ Uninstall

Threads == \/ RunSaves \/ RunEnds \/ RunGone \/ HistoryRead \/ ReadIndex \/ SendIndex
           \/ Pick \/ AddPicked \/ PublishPicked
           \/ AutoUpdate \/ UpdateFails \/ Install \/ Leave

Next == Hub \/ Pool \/ Loop \/ Threads

Spec == Init /\ [][Next]_vars

-----------------------------------------------------------------------------
\* The shape of the state.
TypeOK ==
  /\ conn \in 0 .. MaxConns /\ ready \in BOOLEAN /\ opened \in 0 .. MaxConns
  /\ \A r \in DOMAIN request : /\ request[r].kind \in Kinds
                               /\ request[r].told \in {"none", "completed", "failed", "late", "refused"}
  /\ known \in [Workspaces -> [name : AnyName, by : {"none", "auto", "user"}]]
  /\ title \in [Sessions -> [name : AnyName, by : {"none", "auto", "user"}]]
  /\ begun \subseteq Sessions /\ wconn \in 0 .. MaxConns
  /\ \A i \in DOMAIN making : /\ making[i].session \in Sessions /\ making[i].copy \in AnyMark
                              /\ making[i].at \in {"loaded", "ready", "made", "sent", "ended"}
  /\ store \in Lists /\ config \in Lists /\ picker.held \in Lists \cup {<<>>}
  /\ active \subseteq DOMAIN making /\ DOMAIN local \subseteq Sessions
  /\ doing.at \in {"idle", "loaded", "saved"} /\ picker.at \in {"closed", "open", "held", "added"}
  /\ updating \in BOOLEAN /\ life \in {"up", "leaving", "gone", "rejected"}

\* What a client is told was completed is what the Worker did for that very
\* request: an answer is matched by request id, and one that comes after its
\* request failed or was given up tells nobody (worker_hub.py, PendingWorkerRequest).
ToldIsDone == \A r \in DOMAIN request : request[r].told = "completed" => r \in done

\* A name a user gave stays until a user renames the entity or it goes: neither
\* a hello, nor a list of workspaces, nor a session index with the Worker's own
\* name for it takes it back (device_store.py update_presence, worker_hub.py
\* _merge_local_session_summary).  One thing does: a create_task that read the
\* session before its first request and saves what it read
\* (session_service.py initialize_from_first_request).
Given(old, new, e) ==
  \/ old.by # "user" \/ new = old \/ new = Absent
  \/ new.by = "user" /\ \E r \in DOMAIN request : request[r].subject = e /\ request[r].name = new.name
SavesStaleCopy(s) ==
  \E i \in DOMAIN making :
    making[i].session = s /\ making[i].at = "loaded" /\ making'[i].at = "ready" /\ title'[s] = making'[i].copy
NamesStay ==
  [][/\ \A w \in Workspaces : Given(known[w], known'[w], w)
     /\ \A s \in Sessions : Given(title[s], title'[s], s) \/ SavesStaleCopy(s)]_<<known, title>>

\* No run is under way while an update replaces the Worker's files: the update
\* and a task.start that arrives as it begins exclude one another
\* (client.py begin_update, _start_task).
UpdatesAreAlone == updating => active = {}

\* A Task that was active when a deletion's route looked again, after the await,
\* never loses its session record to that deletion: only a Task that create_task
\* makes on its pool thread after that look does (sessions.py delete_session,
\* session_service.py delete_sessions).
TasksKeepTheirSession ==
  [][\A i \in Tasks : LET s == making[i].session IN
       title[s] # Absent /\ title'[s] = Absent => i \notin erasing.there]_title

\* Neither of these holds: a create_task on a pool thread read the record before
\* the deletion, or before the rename (task_service.py:84, 175).
TasksHaveSessions == \A i \in Tasks : title[making[i].session] # Absent
SessionNamesStay  == [][\A s \in Sessions : Given(title[s], title'[s], s)]_title

\* A Worker is not turned away for good by what a connection that fails or an
\* answer that is late makes it send (client.py run_forever).  It does not hold.
StaysPaired == life # "rejected"
================================================================================
