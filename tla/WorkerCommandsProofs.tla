------------------------- MODULE WorkerCommandsProofs -------------------------
(***************************************************************************)
(* Theorems about WorkerCommands for every set of workspaces, sessions and *)
(* names and for every bound.                                              *)
(***************************************************************************)
EXTENDS WorkerCommands, TLAPS

-----------------------------------------------------------------------------
(* Requests, messages and the type invariant.                              *)

Requests == [kind : Kinds, subject : Entities \cup {"device"}, name : AnyName, entry : BOOLEAN,
             answer : {"none", "completed", "failed"},
             told : {"none", "completed", "failed", "late", "refused"}, of : SUBSET Sessions]

SessionLists == UNION {[S -> AnyMark] : S \in SUBSET Sessions}

\* The messages about a Task name one that a create_task made.
AnswerMsgs == [type : {"answer"}, id : Nat, ok : BOOLEAN, list : Lists]
EndedMsgs  == [type : {"ended"}, id : DOMAIN making]
UpMsgs     == [type : {"hello"}, list : Lists] \cup [type : {"sessions"}, list : SessionLists]
                \cup EndedMsgs \cup AnswerMsgs
StartMsgs  == [type : {"start"}, id : DOMAIN making]
DownMsgs   == [type : {"ack", "refused", "closed"}] \cup [type : {"command"}, id : Nat] \cup StartMsgs

Marks   == AnyMark \cup {Absent}
Calls   == [at : {"loaded", "ready", "made", "sent", "ended"}, session : Sessions, copy : AnyMark]
Pickers == [at : {"closed", "open", "held", "added"}, id : Nat, held : Lists, shared : BOOLEAN]
Doings  == [at : {"idle", "loaded", "saved"}, id : Nat]

\* The hub's side, the messages and the Worker's side.
HubTyped ==
  /\ conn \in 0 .. MaxConns /\ ready \in BOOLEAN /\ opened \in 0 .. MaxConns
  /\ request \in Seq(Requests)
  /\ known \in [Workspaces -> Marks] /\ title \in [Sessions -> Marks]
  /\ begun \in SUBSET Sessions /\ making \in Seq(Calls)
WireTyped ==
  /\ inbox \in [Conns -> Seq(UpMsgs)] /\ outbox \in [Conns -> Seq(DownMsgs)]
WorkerTyped ==
  /\ wconn \in 0 .. MaxConns
  /\ store \in Lists /\ config \in Lists /\ local \in SessionLists
  /\ active \in SUBSET DOMAIN making /\ over \in SUBSET DOMAIN making
  /\ doing \in Doings /\ picker \in Pickers
  /\ histories \in SUBSET Nat /\ indexes \in SUBSET SessionLists
  /\ updating \in BOOLEAN /\ life \in {"up", "leaving", "gone", "rejected"}

CommandType == HubTyped /\ WireTyped /\ WorkerTyped

-----------------------------------------------------------------------------
(* The parts of the inductive invariant.                                   *)

\* Whatever the Worker works on, and whatever it answers, was asked for.
WorkIsAsked ==
  /\ doing.at # "idle" => doing.id \in DOMAIN request
  /\ picker.at # "closed" => picker.id \in DOMAIN request
  /\ histories \subseteq DOMAIN request
AnswersAreAsked ==
  \A c \in Conns : \A i \in DOMAIN inbox[c] :
    inbox[c][i].type = "answer" => inbox[c][i].id \in DOMAIN request

\* An answer that reports success, on its way or taken, is that of a command the
\* Worker carried out.
AnswersAreDone ==
  /\ \A c \in Conns : \A i \in DOMAIN inbox[c] :
       inbox[c][i].type = "answer" /\ inbox[c][i].ok => inbox[c][i].id \in done
  /\ \A r \in DOMAIN request : request[r].answer = "completed" => r \in done

\* The deletion on the loop is of a command that succeeded, and the Tasks it found
\* when it looked are of other sessions.
ErasureIsClear ==
  erasing.id # 0 =>
    /\ erasing.id \in DOMAIN request /\ request[erasing.id].answer = "completed"
    /\ \A i \in erasing.there : i \in DOMAIN making /\ making[i].session \notin request[erasing.id].of

CommandInv ==
  /\ CommandType
  /\ WorkIsAsked /\ AnswersAreAsked /\ AnswersAreDone /\ ToldIsDone
  /\ UpdatesAreAlone /\ ErasureIsClear

-----------------------------------------------------------------------------
(* Lists of names and sequences of messages.                               *)

\* The lists of workspaces are the functions from some of them to names ...
LEMMA ListsAre ==
  /\ \A f \in Lists : DOMAIN f \subseteq Workspaces /\ f \in [DOMAIN f -> AnyName]
  /\ \A S \in SUBSET Workspaces : \A f \in [S -> AnyName] : f \in Lists
  BY DEF Lists

\* ... and the same of the sessions.
LEMMA SessionListsAre ==
  /\ \A f \in SessionLists : DOMAIN f \subseteq Sessions /\ f \in [DOMAIN f -> AnyMark]
  /\ \A S \in SUBSET Sessions : \A f \in [S -> AnyMark] : f \in SessionLists
  BY DEF SessionLists

\* What ConfigStore does with a list keeps it one: the empty list, a name changed,
\* an entry added or taken out.
LEMMA ListSteps ==
  ASSUME NEW f \in Lists
  PROVE  /\ <<>> \in Lists
         /\ \A w \in DOMAIN f, n \in AnyName : [f EXCEPT ![w] = n] \in Lists
         /\ \A w \in Workspaces, n \in AnyName : With(f, w, n) \in Lists
         /\ \A S : Without(f, S) \in Lists
<1>1. DOMAIN f \subseteq Workspaces /\ f \in [DOMAIN f -> AnyName]
  BY ListsAre
<1>2. <<>> \in Lists
  <2>1. <<>> \in [{} -> AnyName]
    OBVIOUS
  <2> QED
    BY <2>1, ListsAre
<1>3. ASSUME NEW w \in DOMAIN f, NEW n \in AnyName PROVE [f EXCEPT ![w] = n] \in Lists
  <2>1. [f EXCEPT ![w] = n] \in [DOMAIN f -> AnyName]
    BY <1>1
  <2> QED
    BY <1>1, <2>1, ListsAre
<1>4. ASSUME NEW w \in Workspaces, NEW n \in AnyName PROVE With(f, w, n) \in Lists
  <2>1. With(f, w, n) \in [DOMAIN f \cup {w} -> AnyName]
    BY <1>1 DEF With
  <2>2. DOMAIN f \cup {w} \in SUBSET Workspaces
    BY <1>1
  <2> QED
    BY <2>1, <2>2, ListsAre
<1>5. ASSUME NEW S PROVE Without(f, S) \in Lists
  <2>1. Without(f, S) \in [DOMAIN f \ S -> AnyName] /\ DOMAIN f \ S \in SUBSET Workspaces
    BY <1>1 DEF Without
  <2> QED
    BY <2>1, ListsAre
<1> QED
  BY <1>2, <1>3, <1>4, <1>5

\* The same of the titles of the Worker's session files.
LEMMA SessionListSteps ==
  ASSUME NEW f \in SessionLists
  PROVE  /\ \A s \in DOMAIN f, n \in AnyMark : [f EXCEPT ![s] = n] \in SessionLists
         /\ \A s \in Sessions, n \in AnyMark : With(f, s, n) \in SessionLists
         /\ \A S : Without(f, S) \in SessionLists
         /\ \A S : [s \in {x \in DOMAIN f : x \in S} |-> f[s]] \in SessionLists
<1>1. DOMAIN f \subseteq Sessions /\ f \in [DOMAIN f -> AnyMark]
  BY SessionListsAre
<1>2. ASSUME NEW s \in DOMAIN f, NEW n \in AnyMark PROVE [f EXCEPT ![s] = n] \in SessionLists
  <2>1. [f EXCEPT ![s] = n] \in [DOMAIN f -> AnyMark]
    BY <1>1
  <2> QED
    BY <1>1, <2>1, SessionListsAre
<1>3. ASSUME NEW s \in Sessions, NEW n \in AnyMark PROVE With(f, s, n) \in SessionLists
  <2>1. With(f, s, n) \in [DOMAIN f \cup {s} -> AnyMark]
    BY <1>1 DEF With
  <2>2. DOMAIN f \cup {s} \in SUBSET Sessions
    BY <1>1
  <2> QED
    BY <2>1, <2>2, SessionListsAre
<1>4. ASSUME NEW S PROVE Without(f, S) \in SessionLists
  <2>1. Without(f, S) \in [DOMAIN f \ S -> AnyMark] /\ DOMAIN f \ S \in SUBSET Sessions
    BY <1>1 DEF Without
  <2> QED
    BY <2>1, SessionListsAre
<1>5. ASSUME NEW S PROVE [s \in {x \in DOMAIN f : x \in S} |-> f[s]] \in SessionLists
  <2> DEFINE T == {x \in DOMAIN f : x \in S}
  <2>1. [s \in T |-> f[s]] \in [T -> AnyMark] /\ T \in SUBSET Sessions
    BY <1>1
  <2> QED
    BY <2>1, SessionListsAre
<1> QED
  BY <1>2, <1>3, <1>4, <1>5

\* The first message is taken off: the others move up by one.
LEMMA TailOf ==
  ASSUME NEW S, NEW s \in Seq(S), s # <<>>
  PROVE  /\ s[1] \in S /\ 1 \in DOMAIN s /\ Tail(s) \in Seq(S)
         /\ \A i \in DOMAIN Tail(s) : i + 1 \in DOMAIN s /\ Tail(s)[i] = s[i + 1]
  OBVIOUS

\* A message is put behind the others.
LEMMA AppendOf ==
  ASSUME NEW S, NEW s \in Seq(S), NEW m \in S
  PROVE  /\ Append(s, m) \in Seq(S)
         /\ DOMAIN Append(s, m) = 1 .. (Len(s) + 1) /\ DOMAIN s = 1 .. Len(s) /\ Len(s) \in Nat
         /\ Append(s, m)[Len(s) + 1] = m
         /\ \A i \in DOMAIN s : i \in DOMAIN Append(s, m) /\ Append(s, m)[i] = s[i]
         /\ \A i \in DOMAIN Append(s, m) : i = Len(s) + 1 \/ i \in DOMAIN s
<1>1. Append(s, m) \in Seq(S) /\ Len(s) \in Nat
  OBVIOUS
<1>2. DOMAIN Append(s, m) = 1 .. (Len(s) + 1) /\ DOMAIN s = 1 .. Len(s)
  OBVIOUS
<1>3. Append(s, m)[Len(s) + 1] = m
  OBVIOUS
<1>4. \A i \in 1 .. Len(s) : Append(s, m)[i] = s[i]
  OBVIOUS
<1>5. \A i \in 1 .. (Len(s) + 1) : i = Len(s) + 1 \/ i \in 1 .. Len(s)
  BY <1>1
<1>6. \A i \in 1 .. Len(s) : i \in 1 .. (Len(s) + 1)
  BY <1>1
<1> QED
  BY <1>1, <1>2, <1>3, <1>4, <1>5, <1>6

\* A function over the indices of a sequence is a sequence as long.
LEMMA MapOf ==
  ASSUME NEW S, NEW q \in Seq(S), NEW f, f = [i \in DOMAIN q |-> f[i]], \A i \in DOMAIN q : f[i] \in S
  PROVE  f \in Seq(S) /\ DOMAIN f = DOMAIN q /\ Len(f) = Len(q)
<1>1. DOMAIN q = 1 .. Len(q) /\ Len(q) \in Nat
  OBVIOUS
<1>2. f \in [1 .. Len(q) -> S]
  BY <1>1
<1>3. f \in Seq(S)
  BY <1>1, <1>2
<1>4. DOMAIN f = DOMAIN q
  BY <1>1, <1>2
<1> QED
  BY <1>1, <1>3, <1>4

-----------------------------------------------------------------------------
(* The Worker's side.                                                      *)

\* The name a request carries, the entity and the sessions it is about.
LEMMA RequestFields ==
  ASSUME CommandType, NEW r \in DOMAIN request
  PROVE  /\ request[r] \in Requests /\ request[r].name \in AnyName
         /\ request[r].of \in SUBSET Sessions /\ r \in Nat
<1>1. request \in Seq(Requests)
  BY DEF CommandType, HubTyped
<1>2. request[r] \in Requests /\ r \in Nat
  BY <1>1
<1> QED
  BY <1>2 DEF Requests

\* The first message of a connection's inbox or outbox.
LEMMA FirstMessages ==
  ASSUME CommandType, NEW c \in Conns
  PROVE  /\ inbox[c] \in Seq(UpMsgs) /\ outbox[c] \in Seq(DownMsgs)
         /\ inbox[c] # <<>> => inbox[c][1] \in UpMsgs /\ 1 \in DOMAIN inbox[c]
         /\ outbox[c] # <<>> => outbox[c][1] \in DownMsgs
  BY DEF CommandType, WireTyped

\* What a create_task call has in hand.
LEMMA CallFields ==
  ASSUME CommandType
  PROVE  \A i \in DOMAIN making : making[i] \in Calls /\ i \in Nat
<1>1. making \in Seq(Calls)
  BY DEF CommandType, HubTyped
<1> QED
  BY <1>1

LEMMA HeldIsAConn ==
  ASSUME CommandType
  PROVE  /\ wconn # 0 => wconn \in Conns
         /\ conn # 0 => conn \in Conns
  BY CommandBounds DEF CommandType, HubTyped, WorkerTyped, Conns

\* The start command names a Task.
LEMMA StartsNameTasks ==
  ASSUME CommandType, Receives("start")
  PROVE  outbox[wconn][1].id \in DOMAIN making
<1>1. wconn \in Conns /\ outbox[wconn][1] \in DownMsgs /\ outbox[wconn][1].type = "start"
  BY HeldIsAConn, FirstMessages DEF Receives
<1> QED
  BY <1>1 DEF DownMsgs, StartMsgs

\* The control plane's steps leave the Worker alone.
LEMMA HubLeavesWorker ==
  ASSUME Hub \/ Pool
  PROVE  UNCHANGED <<files, thread, worker>>
  BY DEF Hub, Disconnect, Ask, Return, Erase, TimeOut, Handle, Pool, LoadSession, Initialize, MakeTask,
         Dispatch

\* Only Connect, of the Worker's steps, changes what the hub knows.
LEMMA WorkerLeavesHub ==
  ASSUME Loop \/ Threads
  PROVE  Connect \/ UNCHANGED hub
  BY DEF Loop, Threads, Lose, Acknowledged, TurnedAway, StartTask, Rename, Delete, SaveList,
         ReportList, ReadHistory, OpenPicker, AskUpdate, Uninstall, RunSaves, RunEnds, RunGone, HistoryRead,
         ReadIndex, SendIndex, Pick, AddPicked, PublishPicked, AutoUpdate, UpdateFails, Install,
         Leave

\* Nor does a Connect touch the Worker's files and threads.
LEMMA ConnectLeavesWorker ==
  ASSUME Connect
  PROVE  UNCHANGED <<files, thread, active, over, doing, updating, cooling, life, done, updates>>
  BY DEF Connect

\* workspaces.json and the Worker's configuration stay lists of names.
LEMMA FilesStayLists ==
  ASSUME CommandType, Next
  PROVE  store' \in Lists /\ config' \in Lists
<1> USE DEF CommandType, WorkerTyped
<1>1. ASSUME Rename PROVE store' \in Lists /\ config' \in Lists
  <2>1. PICK r \in DOMAIN request : RenameSession(r) \/ RenameWorkspace(r)
    BY <1>1 DEF Rename
  <2>2. request[r].name \in AnyName
    BY <2>1, RequestFields
  <2>3. store' = store
    BY <2>1 DEF RenameSession, RenameWorkspace
  <2>4. config' = config \/ config' = store
          \/ \E w \in DOMAIN store : config' = [store EXCEPT ![w] = request[r].name]
    BY <2>1 DEF RenameSession, RenameWorkspace
  <2> QED
    BY <2>2, <2>3, <2>4, ListSteps
<1>2. ASSUME SaveList PROVE store' \in Lists /\ config' \in Lists
  <2>1. \/ store' = config /\ config' = config
        \/ config' = Without(config, {request[doing.id].subject}) /\ store' = config'
    BY <1>2 DEF SaveList
  <2> QED
    BY <2>1, ListSteps
<1>3. ASSUME AddPicked PROVE store' \in Lists /\ config' \in Lists
  <2>1. PICK w \in Workspaces :
          /\ store' \in {store, With(picker.held, w, Default)}
          /\ config' \in {config, picker.held, With(picker.held, w, Default)}
    BY <1>3 DEF AddPicked
  <2>2. picker.held \in Lists
    BY DEF Pickers
  <2>3. Default \in AnyName
    BY DEF AnyName
  <2>4. With(picker.held, w, Default) \in Lists
    BY <2>2, <2>3, ListSteps
  <2> QED
    BY <2>1, <2>2, <2>4
<1>4. ASSUME PublishPicked PROVE store' \in Lists /\ config' \in Lists
  <2>1. config' = picker.held /\ store' = store
    BY <1>4 DEF PublishPicked
  <2> QED
    BY <2>1 DEF Pickers
<1>5. ASSUME Delete \/ Install PROVE store' \in Lists /\ config' \in Lists
  BY <1>5 DEF Delete, Install
<1>6. ASSUME Hub \/ Pool PROVE store' \in Lists /\ config' \in Lists
  BY <1>6, HubLeavesWorker DEF files
<1>7. ASSUME ~Hub, ~Pool, ~Rename, ~SaveList, ~AddPicked, ~PublishPicked, ~Delete, ~Install
      PROVE  store' \in Lists /\ config' \in Lists
  <2>1. UNCHANGED <<store, config>>
    BY <1>7 DEF Next, Loop, Threads, Connect, Lose, Acknowledged, TurnedAway, StartTask, ReportList,
       ReadHistory, OpenPicker, AskUpdate, Uninstall, RunSaves, RunEnds, RunGone, HistoryRead,
       ReadIndex, SendIndex, Pick, AutoUpdate, UpdateFails, Leave, files
  <2> QED
    BY <2>1
<1> QED
  BY <1>1, <1>2, <1>3, <1>4, <1>5, <1>6, <1>7

\* The names of the Worker's session files stay names of sessions.
LEMMA LocalStaysList ==
  ASSUME CommandType, Next
  PROVE  local' \in SessionLists
<1> USE DEF CommandType, WorkerTyped
<1>1. ASSUME Rename PROVE local' \in SessionLists
  <2>1. PICK r \in DOMAIN request : RenameSession(r) \/ RenameWorkspace(r)
    BY <1>1 DEF Rename
  <2>2. request[r].name \in AnyName
    BY <2>1, RequestFields
  <2>3. local' = local
          \/ \E s \in DOMAIN local : local' = [local EXCEPT ![s].name = request[r].name]
    BY <2>1 DEF RenameSession, RenameWorkspace
  <2>4. ASSUME NEW s \in DOMAIN local, local' = [local EXCEPT ![s].name = request[r].name]
        PROVE  local' \in SessionLists
    <3> DEFINE n == [local[s] EXCEPT !.name = request[r].name]
    <3>1. local[s] \in AnyMark
      BY SessionListsAre
    <3>2. n \in AnyMark
      BY <2>2, <3>1 DEF AnyMark, AnyName
    <3>3. local' = [local EXCEPT ![s] = n]
      BY <2>4
    <3> HIDE DEF n
    <3> QED
      BY <3>2, <3>3, SessionListSteps
  <2> QED
    BY <2>3, <2>4
<1>2. ASSUME Delete PROVE local' \in SessionLists
  <2>1. local' = local \/ \E S : local' = Without(local, S)
    BY <1>2 DEF Delete
  <2> QED
    BY <2>1, SessionListSteps
<1>3. ASSUME RunSaves PROVE local' \in SessionLists
  <2>1. PICK i \in active \ over : local' = With(local, making[i].session, making[i].copy)
    BY <1>3 DEF RunSaves
  <2>2. making[i] \in Calls
    BY <2>1, CallFields
  <2>3. making[i].session \in Sessions /\ making[i].copy \in AnyMark
    BY <2>2 DEF Calls
  <2> QED
    BY <2>1, <2>3, SessionListSteps
<1>4. ASSUME ~Rename, ~Delete, ~RunSaves PROVE local' \in SessionLists
  <2>1. UNCHANGED local
    BY <1>4, HubLeavesWorker DEF Next, Loop, Threads, Connect, Lose, Acknowledged, TurnedAway, SaveList,
       StartTask, ReportList, ReadHistory, OpenPicker, AskUpdate, Uninstall, RunEnds, RunGone, HistoryRead,
       ReadIndex, SendIndex, Pick, AddPicked, PublishPicked, AutoUpdate, UpdateFails, Install,
       Leave, files
  <2> QED
    BY <2>1
<1> QED
  BY <1>1, <1>2, <1>3, <1>4

\* The runs of the Worker stay those of Tasks.
LEMMA RunsStayTasks ==
  ASSUME CommandType, Next
  PROVE  active' \in SUBSET DOMAIN making /\ over' \in SUBSET DOMAIN making
<1> USE DEF CommandType, WorkerTyped
<1>1. ASSUME StartTask PROVE active' \in SUBSET DOMAIN making /\ over' \in SUBSET DOMAIN making
  <2>1. outbox[wconn][1].id \in DOMAIN making
    BY <1>1, StartsNameTasks DEF StartTask
  <2> QED
    BY <1>1, <2>1 DEF StartTask
<1>2. ASSUME RunEnds \/ RunGone PROVE active' \in SUBSET DOMAIN making /\ over' \in SUBSET DOMAIN making
  BY <1>2 DEF RunSaves, RunEnds, RunGone
<1>3. ASSUME ~StartTask, ~RunEnds, ~RunGone
      PROVE  active' \in SUBSET DOMAIN making /\ over' \in SUBSET DOMAIN making
  <2>1. active' \in {active, {}} /\ over' \in {over, {}}
    BY <1>3, HubLeavesWorker DEF Next, Loop, Threads, Connect, Lose, Acknowledged, TurnedAway, SaveList,
       Rename, Delete, ReportList, ReadHistory, OpenPicker, AskUpdate, Uninstall, RunSaves, HistoryRead,
       ReadIndex, SendIndex, Pick, AddPicked, PublishPicked, AutoUpdate, UpdateFails, Install,
       Leave, Ends, worker
  <2> QED
    BY <2>1
<1> QED
  BY <1>1, <1>2, <1>3

\* The command in hand changes as the receive loop goes on with it: a command it
\* takes was asked for.
LEMMA DoingSteps ==
  ASSUME CommandType, WorkIsAsked, Next
  PROVE  doing' \in Doings /\ (doing'.at # "idle" => doing'.id \in DOMAIN request)
<1> USE DEF CommandType, WorkerTyped, Doings, WorkIsAsked
<1>1. ASSUME Rename \/ Delete
      PROVE  doing' \in Doings /\ (doing'.at # "idle" => doing'.id \in DOMAIN request)
  <2>1. PICK r \in DOMAIN request : doing' = doing \/ doing' = [at |-> "loaded", id |-> r]
    BY <1>1 DEF Rename, RenameSession, RenameWorkspace, Delete
  <2>2. r \in Nat
    BY RequestFields
  <2> QED
    BY <2>1, <2>2
<1>2. ASSUME SaveList
      PROVE  doing' \in Doings /\ (doing'.at # "idle" => doing'.id \in DOMAIN request)
  <2>1. doing' = [doing EXCEPT !.at = "saved"] /\ doing.at = "loaded"
    BY <1>2 DEF SaveList
  <2> QED
    BY <2>1
<1>3. ASSUME ~Rename, ~Delete, ~SaveList
      PROVE  doing' \in Doings /\ (doing'.at # "idle" => doing'.id \in DOMAIN request)
  <2>1. doing' = doing \/ doing' = Idle
    BY <1>3, HubLeavesWorker DEF Next, Loop, Threads, Connect, Lose, Acknowledged, TurnedAway, StartTask,
       ReportList, ReadHistory, OpenPicker, AskUpdate, Uninstall, RunSaves, RunEnds, RunGone, HistoryRead,
       ReadIndex, SendIndex, Pick, AddPicked, PublishPicked, AutoUpdate, UpdateFails, Install,
       Leave, Ends, worker
  <2> QED
    BY <2>1 DEF Idle
<1> QED
  BY <1>1, <1>2, <1>3

\* The picker's thread works for a select command that was asked for, and holds a list.
LEMMA PickerSteps ==
  ASSUME CommandType, WorkIsAsked, Next
  PROVE  picker' \in Pickers /\ (picker'.at # "closed" => picker'.id \in DOMAIN request)
<1> USE DEF CommandType, WorkerTyped, Pickers, WorkIsAsked
<1> DEFINE Good == picker' \in Pickers /\ (picker'.at # "closed" => picker'.id \in DOMAIN request)
<1>1. /\ <<>> \in Lists /\ config' \in Lists
      /\ \A w \in Workspaces : With(picker.held, w, Default) \in Lists
  <2>1. picker.held \in Lists
    OBVIOUS
  <2>2. Default \in AnyName
    BY DEF AnyName
  <2> QED
    BY <2>1, <2>2, ListSteps, FilesStayLists
<1>2. ASSUME Rename \/ Delete PROVE Good
  <2>1. picker' = picker \/ picker' = [picker EXCEPT !.shared = FALSE]
    BY <1>2 DEF Rename, RenameSession, RenameWorkspace, Delete, Unshare
  <2> QED
    BY <2>1
<1>3. ASSUME SaveList PROVE Good
  <2>1. picker' = picker \/ picker' = [picker EXCEPT !.held = config']
    BY <1>3 DEF SaveList
  <2> QED
    BY <1>1, <2>1
<1>4. ASSUME OpenPicker PROVE Good
  <2>1. PICK r \in DOMAIN request : picker' = picker \/ picker' = [Closed EXCEPT !.at = "open", !.id = r]
    BY <1>4 DEF OpenPicker
  <2>2. r \in Nat
    BY RequestFields
  <2>3. Closed \in Pickers
    BY <1>1 DEF Closed
  <2>4. CASE picker' = [Closed EXCEPT !.at = "open", !.id = r]
    BY <2>2, <2>3, <2>4
  <2>5. CASE picker' = picker
    BY <2>5
  <2> QED
    BY <2>1, <2>4, <2>5
<1>5. ASSUME Pick, picker' # Closed PROVE Good
  <2>1. /\ picker.at = "open" /\ config' = config
        /\ picker' = [picker EXCEPT !.at = "held", !.held = config, !.shared = TRUE]
    BY <1>5 DEF Pick, PickerEnds
  <2> QED
    BY <1>1, <2>1
<1>6. ASSUME AddPicked PROVE Good
  <2>1. PICK w \in Workspaces :
          \/ w \in DOMAIN picker.held /\ picker' = [picker EXCEPT !.at = "added", !.held = picker.held]
          \/ picker' = [picker EXCEPT !.at = "added", !.held = With(picker.held, w, Default)]
    <3>1. PICK w \in Workspaces :
            LET added == IF w \in DOMAIN picker.held THEN picker.held
                         ELSE With(picker.held, w, Default) IN
            picker' = [picker EXCEPT !.at = "added", !.held = added]
      BY <1>6, Zenon DEF AddPicked
    <3>2. CASE w \in DOMAIN picker.held
      BY <3>1, <3>2
    <3>3. CASE w \notin DOMAIN picker.held
      BY <3>1, <3>3
    <3> QED
      BY <3>2, <3>3
  <2>2. picker.at = "held"
    BY <1>6 DEF AddPicked
  <2>3. PICK added \in Lists : picker' = [picker EXCEPT !.at = "added", !.held = added]
    <3>1. picker.held \in Lists
      OBVIOUS
    <3> QED
      BY <1>1, <2>1, <3>1
  <2> QED
    BY <2>2, <2>3
<1>7. ASSUME picker' = Closed PROVE Good
  BY <1>1, <1>7 DEF Closed
<1>8. ASSUME ~Rename, ~Delete, ~SaveList, ~OpenPicker, ~Pick, ~AddPicked, picker' # Closed PROVE Good
  <2>1. picker' = picker
    BY <1>8, HubLeavesWorker DEF Next, Loop, Threads, Connect, Lose, Acknowledged, TurnedAway, StartTask,
       ReportList, ReadHistory, AskUpdate, Uninstall, RunSaves, RunEnds, RunGone, HistoryRead, PickerEnds,
       ReadIndex, SendIndex, PublishPicked, AutoUpdate, UpdateFails, Install,
       Leave, Ends, thread
  <2> QED
    BY <2>1
<1> QED
  BY <1>2, <1>3, <1>4, <1>5, <1>6, <1>7, <1>8

\* The history threads answer commands that were asked for; an index thread has a
\* list of titles.
LEMMA ThreadSteps ==
  ASSUME CommandType, WorkIsAsked, Next
  PROVE  /\ histories' \in SUBSET Nat /\ histories' \subseteq DOMAIN request
         /\ indexes' \in SUBSET SessionLists
<1> USE DEF CommandType, WorkerTyped, WorkIsAsked
<1>1. histories' \in SUBSET Nat /\ histories' \subseteq DOMAIN request
  <2>1. \/ histories' \subseteq histories
        \/ \E r \in DOMAIN request : histories' = histories \cup {r}
    BY HubLeavesWorker DEF Next, Loop, Threads, Connect, Lose, Acknowledged, TurnedAway, StartTask,
       Rename, Delete, SaveList, ReportList, ReadHistory, OpenPicker, AskUpdate, Uninstall, RunSaves, RunEnds,
       RunGone, HistoryRead, ReadIndex, SendIndex, Pick, AddPicked, PublishPicked, AutoUpdate,
       UpdateFails, Install, Leave, Ends, thread
  <2>2. \A r \in DOMAIN request : r \in Nat
    BY RequestFields
  <2> QED
    BY <2>1, <2>2
<1>2. CASE ReadIndex
  <2> DEFINE T == {x \in DOMAIN local : x \in {s \in DOMAIN local : HomeOf[s] \in DOMAIN config}}
  <2>1. indexes' = indexes \cup {[s \in T |-> local[s]]}
    BY <1>2 DEF ReadIndex
  <2>2. [s \in T |-> local[s]] \in SessionLists
    BY SessionListSteps
  <2>3. indexes' \in SUBSET SessionLists
    BY <2>1, <2>2
  <2> QED
    BY <1>1, <2>3
<1>3. CASE ~ReadIndex
  <2>1. indexes' \subseteq indexes
    BY <1>3, HubLeavesWorker DEF Next, Loop, Threads, Connect, Lose, Acknowledged, TurnedAway, StartTask,
       Rename, Delete, SaveList, ReportList, ReadHistory, OpenPicker, AskUpdate, Uninstall, RunSaves, RunEnds,
       RunGone, HistoryRead, SendIndex, Pick, AddPicked, PublishPicked, AutoUpdate,
       UpdateFails, Install, Leave, Ends, thread
  <2> QED
    BY <1>1, <2>1
<1> QED
  BY <1>2, <1>3

\* One create_task call goes on.
LEMMA OneCallChanges ==
  ASSUME making \in Seq(Calls), NEW i \in DOMAIN making, NEW v \in Calls, v.session = making[i].session,
         making' = [making EXCEPT ![i] = v]
  PROVE  /\ making' \in Seq(Calls) /\ DOMAIN making' = DOMAIN making
         /\ \A j \in DOMAIN making : making'[j].session = making[j].session
<1>1. making' \in Seq(Calls) /\ DOMAIN making' = DOMAIN making
  OBVIOUS
<1>2. ASSUME NEW j \in DOMAIN making PROVE making'[j].session = making[j].session
  <2>1. CASE j = i
    BY <2>1
  <2>2. CASE j # i
    BY <2>2
  <2> QED
    BY <2>1, <2>2
<1> QED
  BY <1>1, <1>2

\* The end of a connection ends the Tasks the Worker has.
LEMMA CutOf ==
  ASSUME CommandType
  PROVE  /\ Cut \in Seq(Calls) /\ DOMAIN Cut = DOMAIN making
         /\ \A i \in DOMAIN making : Cut[i].session = making[i].session
<1>1. making \in Seq(Calls)
  BY DEF CommandType, HubTyped
<1>2. ASSUME NEW i \in DOMAIN making PROVE Cut[i] \in Calls /\ Cut[i].session = making[i].session
  <2>1. making[i] \in Calls
    BY CallFields
  <2>2. Cut[i] = making[i] \/ Cut[i] = [making[i] EXCEPT !.at = "ended"]
    BY DEF Cut
  <2> QED
    BY <2>1, <2>2 DEF Calls
<1>3. Cut = [i \in DOMAIN making |-> Cut[i]]
  BY DEF Cut
<1>4. Cut \in Seq(Calls) /\ DOMAIN Cut = DOMAIN making
  BY <1>1, <1>2, <1>3, MapOf
<1> QED
  BY <1>2, <1>4

\* A create_task call keeps its place and its session.
LEMMA CallsStay ==
  ASSUME CommandType, Next
  PROVE  /\ making' \in Seq(Calls) /\ DOMAIN making \subseteq DOMAIN making'
         /\ \A i \in DOMAIN making : making'[i].session = making[i].session
<1> DEFINE Good == /\ making' \in Seq(Calls) /\ DOMAIN making \subseteq DOMAIN making'
                   /\ \A i \in DOMAIN making : making'[i].session = making[i].session
<1>1. making \in Seq(Calls) /\ \A i \in DOMAIN making : making[i] \in Calls
  BY CallFields DEF CommandType, HubTyped
<1>2. ASSUME making' \in {making, Cut} PROVE Good
  BY <1>1, <1>2, CutOf
<1>3. ASSUME NEW i \in DOMAIN making, NEW v \in Calls, v.session = making[i].session,
             making' = [making EXCEPT ![i] = v]
      PROVE  Good
  BY <1>1, <1>3, OneCallChanges
<1>4. ASSUME NEW i \in DOMAIN making, NEW a \in {"ready", "made", "sent", "ended"},
             making' = [making EXCEPT ![i].at = a]
      PROVE  Good
  <2> DEFINE v == [making[i] EXCEPT !.at = a]
  <2>1. v \in Calls /\ v.session = making[i].session
    BY <1>1 DEF Calls
  <2>2. making' = [making EXCEPT ![i] = v]
    BY <1>4
  <2> QED
    BY <1>3, <2>1, <2>2
<1>5. ASSUME LoadSession PROVE Good
  <2>1. PICK s \in Sessions : /\ title[s] # Absent
                              /\ making' = Append(making, [at |-> IF s \in begun THEN "ready" ELSE "loaded",
                                                           session |-> s, copy |-> title[s]])
    BY <1>5, Zenon DEF LoadSession
  <2>2. title[s] \in AnyMark
    BY <2>1 DEF CommandType, HubTyped, Marks
  <2> DEFINE a == IF s \in begun THEN "ready" ELSE "loaded"
             m == [at |-> a, session |-> s, copy |-> title[s]]
  <2>3. m \in Calls
    BY <2>2 DEF Calls
  <2>4. making' = Append(making, m)
    BY <2>1
  <2> HIDE DEF m
  <2> QED
    BY <1>1, <2>3, <2>4, AppendOf
<1>6. ASSUME Initialize PROVE Good
  <2>1. PICK i \in DOMAIN making : making' = [making EXCEPT ![i].at = "ready", ![i].copy =
                                                IF making[i].copy.by = "user" THEN making[i].copy ELSE Unnamed]
    BY <1>6, Zenon DEF Initialize
  <2> DEFINE copy == IF making[i].copy.by = "user" THEN making[i].copy ELSE Unnamed
             v    == [making[i] EXCEPT !.at = "ready", !.copy = copy]
  <2>2. making[i] \in Calls /\ Unnamed \in AnyMark
    BY <1>1 DEF Unnamed, AnyMark
  <2>3. copy \in AnyMark
    BY <2>2 DEF Calls
  <2>4. making' = [making EXCEPT ![i] = v]
    BY <2>1
  <2> HIDE DEF copy
  <2>5. v \in Calls /\ v.session = making[i].session
    BY <2>2, <2>3 DEF Calls
  <2> QED
    BY <1>3, <2>4, <2>5
<1>7. ASSUME MakeTask \/ Dispatch PROVE Good
  <2>1. PICK i \in DOMAIN making, a \in {"made", "sent", "ended"} : making' = [making EXCEPT ![i].at = a]
    BY <1>7 DEF MakeTask, Dispatch
  <2> QED
    BY <1>4, <2>1
<1>8. ASSUME Handle, making' \notin {making, Cut} PROVE Good
  <2>1. PICK c \in Conns :
          /\ inbox[c] # <<>>
          /\ Hello(c, inbox[c][1]) \/ Index(c, inbox[c][1]) \/ TaskEnded(c, inbox[c][1])
               \/ Answered(c, inbox[c][1])
    BY <1>8 DEF Handle
  <2>2. inbox[c][1].type = "ended" /\ making' = [making EXCEPT ![inbox[c][1].id].at = "ended"]
    BY <1>8, <2>1 DEF Hello, Index, TaskEnded, Answered, HangUp, Offline
  <2>3. inbox[c][1] \in UpMsgs
    BY <2>1, FirstMessages
  <2>4. inbox[c][1].id \in DOMAIN making
    BY <2>2, <2>3 DEF UpMsgs, AnswerMsgs, EndedMsgs
  <2> QED
    BY <1>4, <2>2, <2>4
<1>9. \/ making' \in {making, Cut}
      \/ Pool \/ Handle
  BY WorkerLeavesHub DEF Next, Hub, Connect, Disconnect, Offline, Ask, Return, Erase, TimeOut, hub
<1> QED
  BY <1>2, <1>5, <1>6, <1>7, <1>8, <1>9 DEF Pool

\* The Worker's side stays well typed.
LEMMA WorkerStaysTyped ==
  ASSUME CommandType, WorkIsAsked, Next
  PROVE  WorkerTyped'
<1>1. wconn' \in 0 .. MaxConns
  <2>1. \/ Connect
        \/ wconn' \in {wconn, 0}
    BY HubLeavesWorker DEF Next, Loop, Threads, Lose, Acknowledged, TurnedAway, StartTask,
       Rename, Delete, SaveList, ReportList, ReadHistory, OpenPicker, AskUpdate, Uninstall, RunSaves, RunEnds,
       RunGone, HistoryRead, ReadIndex, SendIndex, Pick, AddPicked, PublishPicked, AutoUpdate,
       UpdateFails, Install, Leave, Ends, worker
  <2>2. MaxConns \in Nat /\ opened \in 0 .. MaxConns /\ wconn \in 0 .. MaxConns
    BY CommandBounds DEF CommandType, HubTyped, WorkerTyped
  <2>3. ASSUME Connect PROVE wconn' \in 0 .. MaxConns
    BY <2>2, <2>3 DEF Connect
  <2> QED
    BY <2>1, <2>2, <2>3
<1>2. updating' \in BOOLEAN /\ life' \in {"up", "leaving", "gone", "rejected"}
  <2>1. updating' \in {updating, TRUE, FALSE} /\ life' \in {life, "leaving", "gone", "rejected"}
    BY HubLeavesWorker DEF Next, Loop, Threads, Connect, Lose, Acknowledged, TurnedAway, StartTask,
       Rename, Delete, SaveList, ReportList, ReadHistory, OpenPicker, AskUpdate, Uninstall, RunSaves, RunEnds,
       RunGone, HistoryRead, ReadIndex, SendIndex, Pick, AddPicked, PublishPicked, AutoUpdate,
       UpdateFails, Install, Leave, Ends, BeginUpdate, worker
  <2> QED
    BY <2>1 DEF CommandType, WorkerTyped
<1> QED
  BY <1>1, <1>2, FilesStayLists, LocalStaysList, RunsStayTasks, CallsStay, DoingSteps, PickerSteps,
     ThreadSteps DEF WorkerTyped

-----------------------------------------------------------------------------
(* What the Worker says.                                                   *)

\* A message the step of a Worker may send: an answer is of a command asked for, and
\* tells of a success only when the command has been carried out.
Honest(m) ==
  /\ m \in UpMsgs
  /\ m.type = "answer" => m.id \in DOMAIN request /\ (m.ok => m.id \in done')

LEMMA RepliesAreHonest ==
  ASSUME CommandType, Next, NEW r \in DOMAIN request, NEW ok \in BOOLEAN, ok => r \in done',
         Reply(r, ok)
  PROVE  \E m : Honest(m) /\ ToHub(m)
<1> DEFINE m == [type |-> "answer", id |-> r, ok |-> ok, list |-> config']
<1>1. config' \in Lists /\ r \in Nat
  BY FilesStayLists, RequestFields
<1>2. m \in AnswerMsgs
  BY <1>1 DEF AnswerMsgs
<1>3. m.id = r /\ m.ok = ok
  OBVIOUS
<1>4. Honest(m)
  BY <1>2, <1>3 DEF Honest, UpMsgs
<1>5. ToHub(m)
  BY DEF Reply
<1> QED
  BY <1>4, <1>5

\* The end of a run and a session index are honest too.
LEMMA ReportsAreHonest ==
  /\ \A i \in DOMAIN making : Honest([type |-> "ended", id |-> i])
  /\ \A l \in SessionLists : Honest([type |-> "sessions", list |-> l])
<1>1. ASSUME NEW i \in DOMAIN making PROVE Honest([type |-> "ended", id |-> i])
  BY DEF Honest, UpMsgs, EndedMsgs
<1>2. ASSUME NEW l \in SessionLists PROVE Honest([type |-> "sessions", list |-> l])
  BY DEF Honest, UpMsgs
<1> QED
  BY <1>1, <1>2

\* Whatever the Worker's steps put on the inbox, once connected, is honest.
LEMMA WorkerIsHonest ==
  ASSUME CommandType, WorkIsAsked, Next, Loop \/ Threads, ~Connect
  PROVE  UNCHANGED inbox \/ \E m : Honest(m) /\ ToHub(m)
<1> DEFINE Good == UNCHANGED inbox \/ \E m : Honest(m) /\ ToHub(m)
<1> USE DEF WorkIsAsked
<1>1. ASSUME StartTask PROVE Good
  <2>1. outbox[wconn][1].id \in DOMAIN making
    BY <1>1, StartsNameTasks DEF StartTask
  <2>2. UNCHANGED inbox \/ ToHub([type |-> "ended", id |-> outbox[wconn][1].id])
    BY <1>1, Zenon DEF StartTask
  <2> QED
    BY <2>1, <2>2, ReportsAreHonest
<1>2. ASSUME RunEnds PROVE Good
  <2>1. PICK i \in active \ over : ToHub([type |-> "ended", id |-> i])
    BY <1>2 DEF RunEnds
  <2> QED
    BY <2>1, ReportsAreHonest DEF CommandType, WorkerTyped
<1>3. ASSUME SendIndex PROVE Good
  <2>1. PICK list \in indexes : ToHub([type |-> "sessions", list |-> list])
    BY <1>3 DEF SendIndex
  <2> QED
    BY <2>1, ReportsAreHonest DEF CommandType, WorkerTyped
<1>4. ASSUME Rename PROVE Good
  <2>1. PICK r \in DOMAIN request : RenameSession(r) \/ RenameWorkspace(r)
    BY <1>4 DEF Rename
  <2>2. CASE RenameSession(r)
    <3>1. PICK ok \in BOOLEAN : Did(r, ok) /\ Reply(r, ok)
      BY <2>2 DEF RenameSession
    <3> QED
      BY <3>1, RepliesAreHonest DEF Did
  <2>3. CASE RenameWorkspace(r)
    <3>1. UNCHANGED inbox \/ Reply(r, FALSE)
      BY <2>3 DEF RenameWorkspace
    <3> QED
      BY <3>1, RepliesAreHonest
  <2> QED
    BY <2>1, <2>2, <2>3
<1>5. ASSUME Delete PROVE Good
  <2>1. PICK r \in DOMAIN request : UNCHANGED inbox \/ Reply(r, FALSE) \/ (Reply(r, TRUE) /\ Did(r, TRUE))
    BY <1>5 DEF Delete
  <2> QED
    BY <2>1, RepliesAreHonest DEF Did
<1>6. ASSUME ReportList PROVE Good
  <2>1. Reply(doing.id, TRUE) /\ Did(doing.id, TRUE) /\ doing.at = "saved"
    BY <1>6 DEF ReportList
  <2> QED
    BY <2>1, RepliesAreHonest DEF Did
<1>7. ASSUME HistoryRead PROVE Good
  <2>1. PICK r \in histories : /\ ToHub([type |-> "answer", id |-> r, ok |-> TRUE, list |-> <<>>])
                               /\ done' = done \cup {r}
    BY <1>7, Zenon DEF HistoryRead
  <2>2. r \in DOMAIN request /\ r \in Nat /\ <<>> \in Lists
    BY ListSteps DEF CommandType, WorkerTyped
  <2>3. ASSUME NEW l \in Lists PROVE Honest([type |-> "answer", id |-> r, ok |-> TRUE, list |-> l])
    BY <2>1, <2>2 DEF Honest, UpMsgs, AnswerMsgs
  <2> QED
    BY <2>1, <2>2, <2>3, Zenon
<1>8. ASSUME OpenPicker PROVE Good
  <2>1. PICK r \in DOMAIN request : UNCHANGED inbox \/ Reply(r, FALSE)
    BY <1>8 DEF OpenPicker
  <2> QED
    BY <2>1, RepliesAreHonest
<1>9. ASSUME Pick \/ PublishPicked PROVE Good
  <2>1. UNCHANGED inbox \/ \E ok \in BOOLEAN : Reply(picker.id, ok) /\ Did(picker.id, ok)
    BY <1>9 DEF Pick, PublishPicked, PickerEnds
  <2>2. picker.id \in DOMAIN request
    BY <1>9 DEF Pick, PublishPicked
  <2> QED
    BY <2>1, <2>2, RepliesAreHonest DEF Did
<1>10. ASSUME AskUpdate \/ Uninstall PROVE Good
  <2>1. PICK r \in DOMAIN request, ok \in BOOLEAN : Reply(r, ok) /\ (Did(r, ok) \/ ~ok)
    BY <1>10 DEF AskUpdate, Uninstall
  <2> QED
    BY <2>1, RepliesAreHonest DEF Did
<1>11. ASSUME ~StartTask, ~RunEnds, ~SendIndex, ~Rename, ~Delete, ~ReportList, ~HistoryRead, ~OpenPicker,
              ~Pick, ~PublishPicked, ~AskUpdate, ~Uninstall
       PROVE  Good
  BY <1>11 DEF Loop, Threads, Lose, Acknowledged, TurnedAway, SaveList, ReadHistory, RunSaves, RunGone, ReadIndex,
     AddPicked, AutoUpdate, UpdateFails, Install, Leave, wire
<1> QED
  BY <1>1, <1>2, <1>3, <1>4, <1>5, <1>6, <1>7, <1>8, <1>9, <1>10, <1>11

-----------------------------------------------------------------------------
(* The requests.                                                           *)

\* A disconnection fails what waits and completes nothing.
LEMMA FailedOf ==
  ASSUME request \in Seq(Requests)
  PROVE  /\ Failed(request) \in Seq(Requests)
         /\ DOMAIN Failed(request) = DOMAIN request
         /\ \A r \in DOMAIN request :
              /\ Failed(request)[r].answer = "completed" => request[r].answer = "completed"
              /\ Failed(request)[r].told = "completed" => request[r].told = "completed"
<1>1. ASSUME NEW r \in DOMAIN request
      PROVE  /\ Failed(request)[r] \in Requests
             /\ Failed(request)[r].answer = "completed" => request[r].answer = "completed"
             /\ Failed(request)[r].told = "completed" => request[r].told = "completed"
  <2>1. request[r] \in Requests
    OBVIOUS
  <2>2. \/ Failed(request)[r] = request[r]
        \/ Failed(request)[r] = [request[r] EXCEPT !.told = "failed"]
        \/ Failed(request)[r] = [request[r] EXCEPT !.answer = "failed"]
    BY DEF Failed
  <2> QED
    BY <2>1, <2>2 DEF Requests
<1>2. Failed(request) = [r \in DOMAIN request |-> Failed(request)[r]]
  BY DEF Failed
<1>3. Failed(request) \in Seq(Requests) /\ DOMAIN Failed(request) = DOMAIN request
  BY <1>1, <1>2, MapOf
<1> QED
  BY <1>1, <1>3

\* The hub is handling an answer that tells of the success of r.
HeardDone(r) ==
  \E c \in Conns : inbox[c] # <<>> /\ inbox[c][1].type = "answer" /\ inbox[c][1].ok /\ inbox[c][1].id = r

\* A step's request r is well typed, and was answered, or told, "completed" only
\* after the answer that says so.
Follows(q, r) ==
  /\ q[r] \in Requests
  /\ q[r].answer = "completed" => r \in DOMAIN request /\ (request[r].answer = "completed" \/ HeardDone(r))
  /\ q[r].told = "completed" =>
       r \in DOMAIN request /\ (request[r].told = "completed" \/ request[r].answer = "completed" \/ HeardDone(r))

\* One request of the sequence changes.
LEMMA OneChanges ==
  ASSUME request \in Seq(Requests), NEW r \in DOMAIN request, NEW v,
         request' = [request EXCEPT ![r] = v], Follows(request', r)
  PROVE  /\ request' \in Seq(Requests) /\ DOMAIN request' = DOMAIN request
         /\ \A x \in DOMAIN request' : Follows(request', x)
<1>1. DOMAIN request' = DOMAIN request /\ request'[r] = v
  OBVIOUS
<1>2. ASSUME NEW x \in DOMAIN request, x # r PROVE request'[x] = request[x] /\ request[x] \in Requests
  BY <1>2
<1>3. v \in Requests
  BY <1>1 DEF Follows
<1>4. request' \in Seq(Requests)
  BY <1>3
<1>5. ASSUME NEW x \in DOMAIN request' PROVE Follows(request', x)
  BY <1>1, <1>2, <1>5 DEF Follows
<1> QED
  BY <1>1, <1>4, <1>5

LEMMA RequestSteps ==
  ASSUME CommandType, AnswersAreAsked, ErasureIsClear, Next
  PROVE  /\ request' \in Seq(Requests)
         /\ DOMAIN request \subseteq DOMAIN request'
         /\ \A r \in DOMAIN request' : Follows(request', r)
<1> DEFINE Good == /\ request' \in Seq(Requests)
                   /\ DOMAIN request \subseteq DOMAIN request'
                   /\ \A r \in DOMAIN request' : Follows(request', r)
<1>1. request \in Seq(Requests) /\ \A r \in DOMAIN request : request[r] \in Requests /\ r \in Nat
  <2>1. request \in Seq(Requests)
    BY DEF CommandType, HubTyped
  <2> QED
    BY <2>1, RequestFields
<1>2. ASSUME request' = request PROVE Good
  BY <1>1, <1>2 DEF Follows
<1>3. ASSUME request' = Failed(request) PROVE Good
  <2>1. /\ request' \in Seq(Requests) /\ DOMAIN request' = DOMAIN request
        /\ \A r \in DOMAIN request :
             /\ request'[r].answer = "completed" => request[r].answer = "completed"
             /\ request'[r].told = "completed" => request[r].told = "completed"
    BY <1>1, <1>3, FailedOf
  <2>2. \A r \in DOMAIN request' : request'[r] \in Requests
    BY <2>1
  <2> QED
    BY <2>1, <2>2 DEF Follows
<1>4. ASSUME Ask PROVE Good
  <2>1. PICK kind \in Kinds :
          \E e \in Subjects(kind), n \in (IF kind = "rename" THEN Names ELSE {Default}),
             old \in SUBSET {r \in DOMAIN request : request[r].kind = "history" /\ request[r].told = "late"} :
          request' = Append([r \in DOMAIN request |->
                               IF r \in old THEN [request[r] EXCEPT !.entry = FALSE] ELSE request[r]],
                            [kind |-> kind, subject |-> e, name |-> n, entry |-> TRUE,
                             answer |-> "none", told |-> "none", of |-> SessionsOf(e)])
    BY <1>4, Zenon DEF Ask
  <2>2. PICK e \in Subjects(kind), n \in (IF kind = "rename" THEN Names ELSE {Default}),
             old \in SUBSET {r \in DOMAIN request : request[r].kind = "history" /\ request[r].told = "late"} :
          request' = Append([r \in DOMAIN request |->
                               IF r \in old THEN [request[r] EXCEPT !.entry = FALSE] ELSE request[r]],
                            [kind |-> kind, subject |-> e, name |-> n, entry |-> TRUE,
                             answer |-> "none", told |-> "none", of |-> SessionsOf(e)])
    BY <2>1, Zenon
  <2> DEFINE q == [r \in DOMAIN request |->
                     IF r \in old THEN [request[r] EXCEPT !.entry = FALSE] ELSE request[r]]
             m == [kind |-> kind, subject |-> e, name |-> n, entry |-> TRUE,
                   answer |-> "none", told |-> "none", of |-> SessionsOf(e)]
  <2>3. m \in Requests
    <3>1. e \in Entities \cup {"device"}
      BY DEF Subjects, Entities
    <3>2. n \in AnyName
      BY DEF AnyName
    <3>3. SessionsOf(e) \in SUBSET Sessions
      BY DEF SessionsOf
    <3> QED
      BY <3>1, <3>2, <3>3 DEF Requests
  <2>4. ASSUME NEW r \in DOMAIN request
        PROVE  q[r] \in Requests /\ q[r].answer = request[r].answer /\ q[r].told = request[r].told
    BY <1>1 DEF Requests
  <2>5. q \in Seq(Requests) /\ DOMAIN q = DOMAIN request
    BY <1>1, <2>4, MapOf
  <2> HIDE DEF q
  <2>6. m.answer = "none" /\ m.told = "none"
    OBVIOUS
  <2> HIDE DEF m
  <2>7. request' = Append(q, m)
    BY <2>2 DEF q, m
  <2>8. /\ request' \in Seq(Requests)
        /\ request'[Len(q) + 1] = m
        /\ \A i \in DOMAIN q : i \in DOMAIN request' /\ request'[i] = q[i]
        /\ \A i \in DOMAIN request' : i = Len(q) + 1 \/ i \in DOMAIN q
    BY <2>3, <2>5, <2>7, AppendOf
  <2>9. ASSUME NEW r \in DOMAIN request' PROVE Follows(request', r)
    <3>1. CASE r = Len(q) + 1
      BY <2>3, <2>6, <2>8, <3>1 DEF Follows
    <3>2. CASE r \in DOMAIN q
      BY <2>4, <2>5, <2>8, <3>2 DEF Follows
    <3> QED
      BY <2>8, <3>1, <3>2
  <2> QED
    BY <2>5, <2>8, <2>9
<1>9. ASSUME NEW r \in DOMAIN request, NEW told \in {"refused", request[r].answer},
             request[r].answer # "none", Told(r, told)
      PROVE  Good
  <2>1. request' = [request EXCEPT ![r] = [request[r] EXCEPT !.told = told, !.entry = FALSE]]
    BY <1>9 DEF Told
  <2>2. request'[r] = [request[r] EXCEPT !.told = told, !.entry = FALSE]
    BY <1>1, <2>1
  <2>3. Follows(request', r)
    BY <1>1, <1>9, <2>2 DEF Follows, Requests
  <2> QED
    BY <1>1, <2>1, <2>3, OneChanges
<1>5. ASSUME Return PROVE Good
  <2>1. CASE request' = request
    BY <1>2, <2>1
  <2>2. CASE request' # request
    <3>1. PICK r \in Waiting : /\ request[r].answer # "none"
                               /\ Told(r, "refused") \/ Told(r, request[r].answer)
      BY <1>5, <2>2 DEF Return, ReturnRenamed
    <3> QED
      BY <1>9, <3>1 DEF Waiting
  <2> QED
    BY <2>1, <2>2
<1>10. ASSUME Erase PROVE Good
  BY <1>9, <1>10 DEF Erase, ErasureIsClear
<1>6. ASSUME TimeOut PROVE Good
  <2>1. PICK r \in DOMAIN request, kept \in BOOLEAN :
          request' = [request EXCEPT ![r].told = "late", ![r].entry = kept]
    <3>1. PICK r \in DOMAIN request :
            request' = [request EXCEPT ![r].told = "late",
                                       ![r].entry = request[r].kind \in {"history", "select"}]
      BY <1>6, Zenon DEF TimeOut, Waiting
    <3>2. (request[r].kind \in {"history", "select"}) \in BOOLEAN
      OBVIOUS
    <3> QED
      BY <3>1, <3>2, Zenon
  <2>2. request' = [request EXCEPT ![r] = [request[r] EXCEPT !.told = "late", !.entry = kept]]
    BY <2>1
  <2>3. Follows(request', r)
    <3>1. request'[r] = [request[r] EXCEPT !.told = "late", !.entry = kept]
      BY <1>1, <2>2
    <3> QED
      BY <1>1, <3>1 DEF Follows, Requests
  <2> QED
    BY <1>1, <2>2, <2>3, OneChanges

<1>7. ASSUME Handle, request' # request, request' # Failed(request) PROVE Good
  <2>1. PICK c \in Conns :
          /\ inbox[c] # <<>>
          /\ Hello(c, inbox[c][1]) \/ Index(c, inbox[c][1]) \/ TaskEnded(c, inbox[c][1])
               \/ Answered(c, inbox[c][1])
    BY <1>7 DEF Handle
  <2> DEFINE m == inbox[c][1]
  <2>2. /\ m.type = "answer"
        /\ \E r \in Matching(m) : Resolve(r, m.ok)
    BY <1>7, <2>1 DEF Hello, Index, TaskEnded, Answered, HangUp, Offline
  <2>3. m.id \in DOMAIN request /\ m \in UpMsgs
    BY <2>1, <2>2, FirstMessages DEF AnswersAreAsked
  <2>4. m.ok \in BOOLEAN
    BY <2>2, <2>3 DEF UpMsgs, AnswerMsgs, EndedMsgs
  <2>5. Resolve(m.id, m.ok)
    BY <2>2 DEF Matching
  <2>6. m.ok => HeardDone(m.id)
    BY <2>1, <2>2 DEF HeardDone
  <2> DEFINE r == m.id
             q == request[r]
             result == IF m.ok THEN "completed" ELSE "failed"
  <2>7. PICK v \in {[q EXCEPT !.entry = q.kind = "select"], [q EXCEPT !.told = result],
                    [q EXCEPT !.answer = IF @ = "none" THEN result ELSE @]} :
          request' = [request EXCEPT ![r] = v]
    <3>1. CASE q.told # "none"
      BY <2>5, <3>1 DEF Resolve
    <3>2. CASE q.told = "none" /\ q.kind = "select"
      BY <2>5, <3>2 DEF Resolve
    <3>3. CASE q.told = "none" /\ q.kind # "select"
      BY <2>5, <3>3 DEF Resolve
    <3> QED
      BY <3>1, <3>2, <3>3
  <2>8. Follows(request', r)
    <3>1. request'[r] = v /\ q \in Requests
      BY <1>1, <2>3, <2>7
    <3>2. v \in Requests
      BY <2>7, <3>1 DEF Requests
    <3>3. v.answer = "completed" => q.answer = "completed" \/ m.ok
      BY <2>7, <3>1 DEF Requests
    <3>4. v.told = "completed" => q.told = "completed" \/ m.ok
      BY <2>7, <3>1 DEF Requests
    <3> QED
      BY <2>3, <2>6, <3>1, <3>2, <3>3, <3>4 DEF Follows
  <2> QED
    BY <1>1, <2>3, <2>7, <2>8, OneChanges
<1>8. Good
  <2>1. \/ request' = request \/ request' = Failed(request)
        \/ Ask \/ Return \/ Erase \/ TimeOut \/ Handle
    BY WorkerLeavesHub DEF Next, Hub, Connect, Disconnect, Offline, Pool, LoadSession, Initialize, MakeTask,
       Dispatch, hub
  <2> QED
    BY <1>2, <1>3, <1>4, <1>5, <1>6, <1>7, <1>10, <2>1
<1> QED
  BY <1>8

-----------------------------------------------------------------------------
(* The names.                                                              *)

\* What the hub handles: a hello and an answer bring a list of workspaces, an index
\* one of sessions, an answer the id of a command that was asked for.
LEMMA HandledMessages ==
  ASSUME CommandType, AnswersAreAsked, NEW c \in Conns, inbox[c] # <<>>
  PROVE  /\ inbox[c][1].type \in {"hello", "answer"} => inbox[c][1].list \in Lists
         /\ inbox[c][1].type = "sessions" => inbox[c][1].list \in SessionLists
         /\ inbox[c][1].type = "answer" => inbox[c][1].id \in DOMAIN request
<1>1. inbox[c][1] \in UpMsgs /\ 1 \in DOMAIN inbox[c]
  BY FirstMessages
<1> QED
  BY <1>1 DEF UpMsgs, AnswerMsgs, EndedMsgs, AnswersAreAsked

\* DeviceStore.update_presence takes a list and keeps the names users gave.
LEMMA MergedOf ==
  ASSUME CommandType, NEW l \in Lists
  PROVE  /\ Merged(l) \in [Workspaces -> Marks]
         /\ \A w \in Workspaces : Given(known[w], Merged(l)[w], w)
<1>1. known \in [Workspaces -> Marks] /\ \A w \in DOMAIN l : l[w] \in AnyName
  BY ListsAre DEF CommandType, HubTyped
<1>2. Absent \in Marks
  BY DEF Marks
<1>3. ASSUME NEW w \in Workspaces
      PROVE  Merged(l)[w] \in Marks /\ Given(known[w], Merged(l)[w], w)
  <2>1. CASE w \notin DOMAIN l
    <3>1. Merged(l)[w] = Absent
      BY <2>1 DEF Merged
    <3> QED
      BY <1>2, <3>1 DEF Given
  <2>2. CASE w \in DOMAIN l /\ known[w].by = "user"
    <3>1. Merged(l)[w] = known[w]
      BY <2>2 DEF Merged
    <3> QED
      BY <1>1, <3>1 DEF Given
  <2>3. CASE w \in DOMAIN l /\ known[w].by # "user"
    <3>1. Merged(l)[w] = [name |-> l[w], by |-> "auto"]
      BY <2>3 DEF Merged
    <3> QED
      BY <1>1, <2>3, <3>1 DEF Given, Marks, AnyMark, AnyName
  <2> QED
    BY <2>1, <2>2, <2>3
<1>4. Merged(l) = [w \in Workspaces |-> Merged(l)[w]]
  BY DEF Merged
<1> QED
  BY <1>3, <1>4

\* _merge_local_session_summary keeps the titles users gave, and deletes no session.
LEMMA IndexedOf ==
  ASSUME CommandType, NEW l \in SessionLists
  PROVE  /\ Indexed(l) \in [Sessions -> Marks]
         /\ \A s \in Sessions : /\ Given(title[s], Indexed(l)[s], s)
                                /\ Indexed(l)[s] = Absent => title[s] = Absent
<1>1. title \in [Sessions -> Marks] /\ \A s \in DOMAIN l : l[s] \in AnyMark
  BY SessionListsAre DEF CommandType, HubTyped
<1>2. ASSUME NEW s \in Sessions
      PROVE  /\ Indexed(l)[s] \in Marks /\ Given(title[s], Indexed(l)[s], s)
             /\ Indexed(l)[s] = Absent => title[s] = Absent
  <2>1. CASE s \notin DOMAIN l \/ known[HomeOf[s]] = Absent \/ title[s].by = "user"
    <3>1. Indexed(l)[s] = title[s]
      BY <2>1 DEF Indexed
    <3> QED
      BY <1>1, <3>1 DEF Given
  <2>2. CASE ~(s \notin DOMAIN l \/ known[HomeOf[s]] = Absent \/ title[s].by = "user")
    <3>1. Indexed(l)[s] = l[s]
      BY <2>2 DEF Indexed
    <3>2. l[s] \in AnyMark /\ l[s] # Absent
      BY <1>1, <2>2 DEF AnyMark, Absent
    <3> QED
      BY <2>2, <3>1, <3>2 DEF Given, Marks
  <2> QED
    BY <2>1, <2>2
<1>3. Indexed(l) = [s \in Sessions |-> Indexed(l)[s]]
  BY DEF Indexed
<1> QED
  BY <1>2, <1>3

\* The answer to a rename gives the entity the name its user asked for.
LEMMA RenamedOf ==
  ASSUME CommandType, NEW l \in Lists, NEW r \in DOMAIN request, Renamed(l, r)
  PROVE  /\ known' \in [Workspaces -> Marks] /\ title' \in [Sessions -> Marks]
         /\ \A w \in Workspaces : Given(known[w], known'[w], w)
         /\ \A s \in Sessions : /\ Given(title[s], title'[s], s)
                                /\ title'[s] = Absent => title[s] = Absent
<1> DEFINE e == request[r].subject
           mark == [name |-> request[r].name, by |-> "user"]
<1>1. known \in [Workspaces -> Marks] /\ title \in [Sessions -> Marks] /\ request[r].name \in AnyName
  BY RequestFields DEF CommandType, HubTyped
<1>2. mark \in Marks /\ mark # Absent /\ mark.by = "user" /\ mark.name = request[r].name
  BY <1>1 DEF Marks, Absent, AnyMark, AnyName
<1>3. \A old : Given(old, mark, e)
  BY <1>2 DEF Given
<1> HIDE DEF mark
<1>4. CASE e \in Workspaces
  <2>1. known' = [Merged(l) EXCEPT ![e] = mark] /\ title' = title
    BY <1>4 DEF Renamed, mark
  <2>2. /\ Merged(l) \in [Workspaces -> Marks]
        /\ \A w \in Workspaces : Given(known[w], Merged(l)[w], w)
    BY MergedOf
  <2>3. known' \in [Workspaces -> Marks]
    BY <1>2, <2>1, <2>2
  <2>4. ASSUME NEW w \in Workspaces PROVE Given(known[w], known'[w], w)
    <3>1. CASE w = e
      BY <1>3, <2>1, <2>2, <3>1
    <3>2. CASE w # e
      <4>1. known'[w] = Merged(l)[w]
        BY <2>1, <2>2, <3>2
      <4> QED
        BY <2>2, <4>1
    <3> QED
      BY <3>1, <3>2
  <2> QED
    BY <1>1, <2>1, <2>3, <2>4 DEF Given
<1>5. CASE e \notin Workspaces
  <2>1. title' = [title EXCEPT ![e] = mark] /\ known' = known
    BY <1>5 DEF Renamed, mark
  <2>2. title' \in [Sessions -> Marks]
    BY <1>1, <1>2, <2>1
  <2>3. ASSUME NEW s \in Sessions
        PROVE  Given(title[s], title'[s], s) /\ (title'[s] = Absent => title[s] = Absent)
    <3>1. CASE s = e
      <4>1. title'[s] = mark
        BY <1>1, <2>1, <3>1
      <4> QED
        BY <1>2, <1>3, <3>1, <4>1
    <3>2. CASE s # e
      <4>1. title'[s] = title[s]
        BY <1>1, <2>1, <3>2
      <4> QED
        BY <4>1 DEF Given
    <3> QED
      BY <3>1, <3>2
  <2> QED
    BY <1>1, <2>1, <2>2, <2>3 DEF Given
<1> QED
  BY <1>4, <1>5

\* Names change by what Given allows, or by a stale copy that is saved; a record goes
\* when the deletion on the loop is of its session.
NamesFollow ==
  /\ \A w \in Workspaces : Given(known[w], known'[w], w)
  /\ \A s \in Sessions :
       /\ Given(title[s], title'[s], s) \/ SavesStaleCopy(s)
       /\ title[s] # Absent /\ title'[s] = Absent => erasing.id # 0 /\ s \in request[erasing.id].of

LEMMA NameSteps ==
  ASSUME CommandType, AnswersAreAsked, ErasureIsClear, Next
  PROVE  known' \in [Workspaces -> Marks] /\ title' \in [Sessions -> Marks] /\ NamesFollow
<1> DEFINE Good == known' \in [Workspaces -> Marks] /\ title' \in [Sessions -> Marks] /\ NamesFollow
<1>1. known \in [Workspaces -> Marks] /\ title \in [Sessions -> Marks]
  BY DEF CommandType, HubTyped
<1>2. ASSUME known' = known, title' = title PROVE Good
  BY <1>1, <1>2 DEF Given, NamesFollow
<1>7. ASSUME known' \in [Workspaces -> Marks], title' \in [Sessions -> Marks],
             \A w \in Workspaces : Given(known[w], known'[w], w),
             \A s \in Sessions : /\ Given(title[s], title'[s], s)
                                 /\ title'[s] = Absent => title[s] = Absent
      PROVE  Good
  BY <1>7 DEF NamesFollow
<1>3. ASSUME Return PROVE Good
  <2>1. CASE title' = title
    BY <1>2, <1>3, <2>1 DEF Return
  <2>2. CASE title' # title
    <3>1. PICK r \in DOMAIN request :
            title' = [title EXCEPT ![request[r].subject] = [name |-> request[r].name, by |-> "user"]]
      BY <1>3, <2>2 DEF Return, ReturnRenamed, Waiting
    <3> DEFINE mark == [name |-> request[r].name, by |-> "user"]
    <3>2. mark \in Marks /\ mark # Absent /\ \A old : Given(old, mark, request[r].subject)
      BY RequestFields DEF Marks, AnyMark, AnyName, Absent, Given
    <3>3. known' = known /\ title' = [title EXCEPT ![request[r].subject] = mark]
      BY <1>3, <3>1 DEF Return
    <3> HIDE DEF mark
    <3>4. title' \in [Sessions -> Marks]
      BY <1>1, <3>2, <3>3
    <3>5. ASSUME NEW s \in Sessions
          PROVE  Given(title[s], title'[s], s) /\ (title'[s] = Absent => title[s] = Absent)
      <4>1. CASE s = request[r].subject
        BY <1>1, <3>2, <3>3, <4>1
      <4>2. CASE s # request[r].subject
        <5>1. title'[s] = title[s]
          BY <1>1, <3>3, <4>2
        <5> QED
          BY <5>1 DEF Given
      <4> QED
        BY <4>1, <4>2
    <3>6. \A w \in Workspaces : Given(known[w], known'[w], w)
      BY <3>3 DEF Given
    <3> QED
      BY <1>1, <1>7, <3>3, <3>4, <3>5, <3>6
  <2> QED
    BY <2>1, <2>2
<1>8. ASSUME Erase PROVE Good
  <2> DEFINE gone == request[erasing.id].of
  <2>1. /\ known' = known /\ erasing.id # 0
        /\ title' = [s \in Sessions |-> IF s \in gone THEN Absent ELSE title[s]]
    BY <1>8 DEF Erase
  <2>2. Absent \in Marks
    BY DEF Marks
  <2>3. title' \in [Sessions -> Marks]
    BY <1>1, <2>1, <2>2
  <2>4. \A w \in Workspaces : Given(known[w], known'[w], w)
    BY <2>1 DEF Given
  <2>5. \A s \in Sessions : Given(title[s], title'[s], s)
    BY <2>1 DEF Given
  <2>6. \A s \in Sessions : title[s] # Absent /\ title'[s] = Absent => s \in gone
    BY <2>1
  <2> QED
    BY <1>1, <2>1, <2>3, <2>4, <2>5, <2>6 DEF NamesFollow
<1>9. ASSUME Initialize PROVE Good
  <2>1. PICK i \in DOMAIN making :
          LET copy == IF making[i].copy.by = "user" THEN making[i].copy ELSE Unnamed IN
          /\ making[i].at = "loaded"
          /\ making' = [making EXCEPT ![i].at = "ready", ![i].copy = copy]
          /\ title' = [title EXCEPT ![making[i].session] = copy]
    BY <1>9, Zenon DEF Initialize
  <2> DEFINE copy == IF making[i].copy.by = "user" THEN making[i].copy ELSE Unnamed
             S == making[i].session
  <2>2. making[i] \in Calls /\ i \in Nat
    BY CallFields
  <2>3. Unnamed \in AnyMark
    BY DEF Unnamed, AnyMark
  <2>4. copy \in Marks /\ copy # Absent /\ S \in Sessions
    BY <2>2, <2>3 DEF Calls, Marks, AnyMark, Absent
  <2>5. /\ making[i].at = "loaded"
        /\ making' = [making EXCEPT ![i] = [making[i] EXCEPT !.at = "ready", !.copy = copy]]
        /\ title' = [title EXCEPT ![S] = copy]
    BY <2>1
  <2>6. making'[i] = [making[i] EXCEPT !.at = "ready", !.copy = copy]
    BY <2>5
  <2>7. making'[i].at = "ready" /\ making'[i].copy = copy
    BY <2>2, <2>6 DEF Calls
  <2> HIDE DEF copy
  <2>8. title' \in [Sessions -> Marks] /\ title'[S] = copy
    BY <1>1, <2>4, <2>5
  <2>9. SavesStaleCopy(S)
    BY <2>5, <2>7, <2>8 DEF SavesStaleCopy
  <2> HIDE DEF S
  <2>10. ASSUME NEW s \in Sessions
         PROVE  /\ Given(title[s], title'[s], s) \/ SavesStaleCopy(s)
                /\ title'[s] = Absent => title[s] = Absent
    <3>1. CASE s = S
      BY <2>4, <2>8, <2>9, <3>1
    <3>2. CASE s # S
      <4>1. title'[s] = title[s]
        BY <1>1, <2>5, <3>2
      <4> QED
        BY <4>1 DEF Given
    <3> QED
      BY <3>1, <3>2
  <2>11. known' = known
    BY <1>9 DEF Initialize
  <2> QED
    BY <1>1, <2>8, <2>10, <2>11 DEF NamesFollow, Given
<1>4. ASSUME Handle PROVE Good
  <2>1. PICK c \in Conns :
          /\ inbox[c] # <<>>
          /\ Hello(c, inbox[c][1]) \/ Index(c, inbox[c][1]) \/ TaskEnded(c, inbox[c][1])
               \/ Answered(c, inbox[c][1])
    BY <1>4 DEF Handle
  <2> DEFINE m == inbox[c][1]
  <2>2. /\ m.type \in {"hello", "answer"} => m.list \in Lists
        /\ m.type = "sessions" => m.list \in SessionLists
        /\ m.type = "answer" => m.id \in DOMAIN request
    BY <2>1, HandledMessages
  <2>3. ASSUME title' = title, m.list \in Lists, known' = Merged(m.list) PROVE Good
    BY <1>1, <1>7, <2>3, MergedOf DEF Given
  <2>4. CASE Hello(c, m)
    BY <2>2, <2>3, <2>4 DEF Hello
  <2>5. CASE Index(c, m)
    <3>1. title' = Indexed(m.list) /\ known' = known /\ m.list \in SessionLists
      BY <2>2, <2>5 DEF Index
    <3> QED
      BY <1>1, <1>7, <3>1, IndexedOf DEF Given
  <2>6. CASE TaskEnded(c, m)
    BY <1>2, <2>6 DEF TaskEnded
  <2>7. CASE Answered(c, m)
    <3>1. \/ known' = known /\ title' = title
          \/ known' = Merged(m.list) /\ title' = title
          \/ \E r \in Matching(m) : Renamed(m.list, r)
      BY <2>7 DEF Answered
    <3>2. m.list \in Lists /\ \A r \in Matching(m) : r \in DOMAIN request
      BY <2>2, <2>7 DEF Answered, Matching
    <3>3. ASSUME NEW r \in Matching(m), Renamed(m.list, r) PROVE Good
      BY <1>7, <3>2, <3>3, RenamedOf
    <3> QED
      BY <1>2, <2>3, <3>1, <3>2, <3>3
  <2> QED
    BY <2>1, <2>4, <2>5, <2>6, <2>7
<1>5. ASSUME ~Return, ~Erase, ~Initialize, ~Handle PROVE known' = known /\ title' = title
  BY <1>5, WorkerLeavesHub DEF Next, Hub, Connect, Disconnect, Ask, TimeOut, Pool, LoadSession, MakeTask,
     Dispatch, hub
<1> QED
  BY <1>2, <1>3, <1>4, <1>5, <1>8, <1>9

-----------------------------------------------------------------------------
(* The connections.                                                        *)

\* A message on an inbox was there before the step, or is one the Worker may send.
LEMMA InboxSteps ==
  ASSUME CommandType, WorkIsAsked, Next
  PROVE  /\ inbox' \in [Conns -> Seq(UpMsgs)]
         /\ \A c \in Conns : \A i \in DOMAIN inbox'[c] :
              (\E j \in DOMAIN inbox[c] : inbox'[c][i] = inbox[c][j]) \/ Honest(inbox'[c][i])
<1> DEFINE Fine(c, q) == /\ q \in Seq(UpMsgs)
                         /\ \A i \in DOMAIN q : (\E j \in DOMAIN inbox[c] : q[i] = inbox[c][j]) \/ Honest(q[i])
           Good == inbox' \in [Conns -> Seq(UpMsgs)] /\ \A c \in Conns : Fine(c, inbox'[c])
<1>1. inbox \in [Conns -> Seq(UpMsgs)] /\ \A c \in Conns : Fine(c, inbox[c])
  BY DEF CommandType, WireTyped
<1>2. ASSUME NEW c \in Conns, NEW q, Fine(c, q), inbox' = [inbox EXCEPT ![c] = q] PROVE Good
  <2>1. inbox' \in [Conns -> Seq(UpMsgs)]
    BY <1>1, <1>2
  <2>2. inbox'[c] = q /\ \A d \in Conns : d # c => inbox'[d] = inbox[d]
    BY <1>1, <1>2
  <2>3. ASSUME NEW d \in Conns PROVE Fine(d, inbox'[d])
    <3>1. CASE d = c
      BY <1>2, <2>2, <3>1
    <3>2. CASE d # c
      BY <1>1, <2>2, <3>2
    <3> QED
      BY <3>1, <3>2
  <2> QED
    BY <2>1, <2>3
<1>3. ASSUME inbox' = inbox PROVE Good
  BY <1>1, <1>3
<1>4. \A c \in Conns : Fine(c, <<>>)
  <2>1. <<>> \in Seq(UpMsgs) /\ DOMAIN <<>> = {}
    OBVIOUS
  <2> QED
    BY <2>1
<1>5. ASSUME NEW m, Honest(m), ToHub(m) PROVE Good
  <2>1. CASE wconn = 0 \/ HungUp(wconn)
    BY <1>3, <1>5, <2>1 DEF ToHub
  <2>2. CASE wconn # 0 /\ ~HungUp(wconn)
    <3>1. wconn \in Conns /\ m \in UpMsgs /\ inbox[wconn] \in Seq(UpMsgs)
      BY <1>1, <1>5, <2>2, HeldIsAConn DEF Honest
    <3> DEFINE q == Append(inbox[wconn], m)
    <3>2. inbox' = [inbox EXCEPT ![wconn] = q]
      BY <1>5, <2>2 DEF ToHub
    <3>3. /\ q \in Seq(UpMsgs) /\ q[Len(inbox[wconn]) + 1] = m
          /\ \A i \in DOMAIN inbox[wconn] : q[i] = inbox[wconn][i]
          /\ \A i \in DOMAIN q : i = Len(inbox[wconn]) + 1 \/ i \in DOMAIN inbox[wconn]
      BY <3>1, AppendOf
    <3> HIDE DEF q
    <3>4. Fine(wconn, q)
      BY <1>5, <3>3
    <3> QED
      BY <1>2, <3>1, <3>2, <3>4
  <2> QED
    BY <2>1, <2>2
<1>6. ASSUME Connect PROVE Good
  <2>1. opened' \in Conns
    BY <1>6, CommandBounds DEF Connect, Conns, CommandType, HubTyped
  <2>2. PICK m \in [type : {"hello"}, list : Lists] : inbox' = [inbox EXCEPT ![opened'] = <<m>>]
    BY <1>6 DEF Connect, CommandType, WorkerTyped
  <2>3. m \in UpMsgs /\ m.type = "hello"
    BY DEF UpMsgs
  <2>4. <<m>> \in Seq(UpMsgs) /\ \A i \in DOMAIN <<m>> : <<m>>[i] = m
    BY <2>3
  <2>5. Fine(opened', <<m>>)
    BY <2>3, <2>4 DEF Honest
  <2> QED
    BY <1>2, <2>1, <2>2, <2>5
<1>7. ASSUME Disconnect PROVE Good
  <2>1. conn \in Conns /\ inbox' = [inbox EXCEPT ![conn] = <<>>]
    BY <1>7, HeldIsAConn DEF Disconnect
  <2> QED
    BY <1>2, <1>4, <2>1
<1>8. ASSUME Handle PROVE Good
  <2>1. PICK c \in Conns : /\ inbox[c] # <<>>
                           /\ \/ inbox' = [inbox EXCEPT ![c] = <<>>]
                              \/ inbox' = [inbox EXCEPT ![c] = Tail(inbox[c])]
    BY <1>8 DEF Handle, Hello, Index, TaskEnded, Answered, HangUp
  <2>2. inbox[c] \in Seq(UpMsgs)
    BY <1>1
  <2>3. /\ Tail(inbox[c]) \in Seq(UpMsgs)
        /\ \A i \in DOMAIN Tail(inbox[c]) : i + 1 \in DOMAIN inbox[c] /\ Tail(inbox[c])[i] = inbox[c][i + 1]
    BY <2>1, <2>2, TailOf
  <2>4. Fine(c, Tail(inbox[c]))
    BY <2>3
  <2> QED
    BY <1>2, <1>4, <2>1, <2>4
<1>9. ASSUME Ask \/ Return \/ Erase \/ TimeOut \/ Pool PROVE Good
  BY <1>3, <1>9 DEF Ask, Return, Erase, TimeOut, Pool, LoadSession, Initialize, MakeTask, Dispatch, wire
<1>10. ASSUME Loop \/ Threads, ~Connect PROVE Good
  BY <1>3, <1>5, <1>10, WorkerIsHonest
<1> QED
  BY <1>6, <1>7, <1>8, <1>9, <1>10 DEF Next, Hub

\* What is sent to the Worker keeps the form of a command, a start or an acknowledgement.
LEMMA OutboxSteps ==
  ASSUME CommandType, Next
  PROVE  outbox' \in [Conns -> Seq(DownMsgs)]
<1> DEFINE Good == outbox' \in [Conns -> Seq(DownMsgs)]
<1>1. outbox \in [Conns -> Seq(DownMsgs)] /\ <<>> \in Seq(DownMsgs)
  BY DEF CommandType, WireTyped
<1>2. ASSUME NEW c, NEW q \in Seq(DownMsgs), outbox' = [outbox EXCEPT ![c] = q] PROVE Good
  BY <1>1, <1>2
<1>3. ASSUME outbox' = outbox PROVE Good
  BY <1>1, <1>3
<1>4. ASSUME NEW m \in DownMsgs, ToWorker(m) PROVE Good
  <2>1. CASE conn = 0
    BY <1>3, <1>4, <2>1 DEF ToWorker
  <2>2. CASE conn # 0
    <3>1. conn \in Conns /\ outbox[conn] \in Seq(DownMsgs)
      BY <1>1, <2>2, HeldIsAConn
    <3>2. outbox' = [outbox EXCEPT ![conn] = Append(outbox[conn], m)]
      BY <1>4, <2>2 DEF ToWorker
    <3>3. Append(outbox[conn], m) \in Seq(DownMsgs)
      BY <3>1, AppendOf
    <3> QED
      BY <1>2, <3>2, <3>3
  <2> QED
    BY <2>1, <2>2
<1>5. ASSUME Take, wconn # 0, outbox[wconn] # <<>> PROVE Good
  <2>1. wconn \in Conns /\ outbox[wconn] \in Seq(DownMsgs)
    BY <1>1, <1>5, HeldIsAConn
  <2>2. Tail(outbox[wconn]) \in Seq(DownMsgs)
    BY <1>5, <2>1, TailOf
  <2>3. outbox' = [outbox EXCEPT ![wconn] = Tail(outbox[wconn])]
    BY <1>5 DEF Take
  <2> QED
    BY <1>2, <2>2, <2>3
<1>6. ASSUME Lose \/ TurnedAway \/ Install \/ Leave PROVE Good
  <2>1. outbox' = outbox \/ outbox' = [outbox EXCEPT ![wconn] = <<>>]
    BY <1>6 DEF Lose, TurnedAway, Install, Leave, Ends
  <2> QED
    BY <1>1, <1>2, <1>3, <2>1
<1>7. ASSUME Ask PROVE Good
  <2>1. ToWorker([type |-> "command", id |-> Len(request) + 1])
    BY <1>7, Zenon DEF Ask
  <2>2. Len(request) + 1 \in Nat
    BY DEF CommandType, HubTyped
  <2>3. [type |-> "command", id |-> Len(request) + 1] \in DownMsgs
    BY <2>2 DEF DownMsgs
  <2> QED
    BY <1>4, <2>1, <2>3
<1>8. ASSUME Dispatch PROVE Good
  <2>1. PICK i \in DOMAIN making : outbox' = outbox \/ ToWorker([type |-> "start", id |-> i])
    BY <1>8 DEF Dispatch
  <2>2. [type |-> "start", id |-> i] \in DownMsgs
    BY DEF DownMsgs, StartMsgs
  <2> QED
    BY <1>3, <1>4, <2>1, <2>2
<1>9. ASSUME Handle PROVE Good
  <2>1. PICK c \in Conns : Hello(c, inbox[c][1]) \/ Index(c, inbox[c][1]) \/ TaskEnded(c, inbox[c][1])
                             \/ Answered(c, inbox[c][1])
    BY <1>9 DEF Handle
  <2>2. CASE Hello(c, inbox[c][1])
    <3>1. ToWorker([type |-> "ack"])
      BY <2>2, Zenon DEF Hello
    <3>2. [type |-> "ack"] \in DownMsgs
      BY DEF DownMsgs
    <3> QED
      BY <1>4, <3>1, <3>2
  <2>3. ASSUME NEW how \in {"refused", "closed"}, HangUp(c, how) PROVE Good
    <3>1. PICK k \in 0 .. Len(outbox[c]) :
            outbox' = [outbox EXCEPT ![c] = SubSeq(outbox[c], 1, k) \o <<[type |-> how]>>]
      BY <2>3 DEF HangUp
    <3>2. outbox[c] \in Seq(DownMsgs) /\ [type |-> how] \in DownMsgs
      BY <1>1 DEF DownMsgs
    <3>3. SubSeq(outbox[c], 1, k) \in Seq(DownMsgs)
      BY <3>2
    <3>4. <<[type |-> how]>> \in Seq(DownMsgs)
      BY <3>2
    <3>5. SubSeq(outbox[c], 1, k) \o <<[type |-> how]>> \in Seq(DownMsgs)
      BY <3>3, <3>4
    <3> QED
      BY <1>2, <3>1, <3>5
  <2>4. CASE outbox' = outbox
    BY <1>3, <2>4, Zenon
  <2> QED
    BY <2>1, <2>2, <2>3, <2>4 DEF Index, TaskEnded, Answered
<1>10. ASSUME Next, ~Lose, ~TurnedAway, ~Install, ~Leave, ~Ask, ~Dispatch, ~Handle
      PROVE  outbox' = outbox \/ (Take /\ wconn # 0 /\ outbox[wconn] # <<>>)
  <2>1. CASE Hub
    BY <1>10, <2>1 DEF Hub, Disconnect, Return, Erase, TimeOut, wire
  <2>2. CASE Loop
    BY <1>10, <2>2 DEF Loop, Connect, Acknowledged, StartTask, Rename, Delete, SaveList, ReportList,
       ReadHistory, OpenPicker, AskUpdate, Uninstall, Command, Receives, wire
  <2>3. CASE Threads
    BY <1>10, <2>3 DEF Threads, RunSaves, RunEnds, RunGone, HistoryRead, ReadIndex, SendIndex, Pick, AddPicked,
       PublishPicked, AutoUpdate, UpdateFails, wire
  <2>4. CASE Pool
    BY <1>10, <2>4 DEF Pool, LoadSession, Initialize, MakeTask, wire
  <2> QED
    BY <1>10, <2>1, <2>2, <2>3, <2>4 DEF Next
<1> QED
  BY <1>3, <1>5, <1>6, <1>7, <1>8, <1>9, <1>10

-----------------------------------------------------------------------------
(* The invariant and what it says.                                         *)

\* A deletion begins with a look that finds none of the sessions' Tasks; then the
\* loop does nothing else until the records are gone.
LEMMA ErasureStaysClear ==
  ASSUME CommandType, ErasureIsClear, Next
  PROVE  ErasureIsClear'
<1>1. /\ DOMAIN making \subseteq DOMAIN making'
      /\ \A i \in DOMAIN making : making'[i].session = making[i].session
  BY CallsStay
<1>2. ASSUME erasing' = erasing, request' = request PROVE ErasureIsClear'
  BY <1>1, <1>2 DEF ErasureIsClear
<1>3. ASSUME erasing'.id = 0 PROVE ErasureIsClear'
  BY <1>3 DEF ErasureIsClear
<1>4. ASSUME Return, erasing' # erasing PROVE ErasureIsClear'
  <2>1. PICK r \in DOMAIN request :
          /\ request[r].answer = "completed" /\ request' = request
          /\ ~ \E s \in request[r].of : title[s] = Absent \/ s \in SessionsOfTasks(Tasks)
          /\ erasing' = [id |-> r, there |-> Tasks]
    BY <1>4 DEF Return, ReturnRenamed, Erases, Waiting
  <2>2. \A i \in Tasks : i \in DOMAIN making /\ making[i].session \notin request[r].of
    BY <2>1 DEF Tasks, SessionsOfTasks
  <2> QED
    BY <1>1, <2>1, <2>2 DEF ErasureIsClear
<1>5. \/ erasing' = erasing /\ (request' = request \/ erasing.id = 0)
      \/ erasing'.id = 0
      \/ Return
  <2>1. CASE Hub
    BY <2>1 DEF Hub, Disconnect, Ask, Erase, TimeOut, Handle, OnLoop, Nothing
  <2>2. CASE Pool
    BY <2>2 DEF Pool, LoadSession, Initialize, MakeTask, Dispatch
  <2>3. CASE Loop \/ Threads
    BY <2>3, WorkerLeavesHub DEF Connect, OnLoop, hub
  <2> QED
    BY <2>1, <2>2, <2>3 DEF Next
<1>6. CASE Return /\ erasing' = erasing
  <2>1. erasing'.id = 0
    BY <1>6 DEF Return, OnLoop
  <2> QED
    BY <1>3, <2>1
<1> QED
  BY <1>2, <1>3, <1>4, <1>5, <1>6

\* The hub's side stays well typed.
LEMMA HubStaysTyped ==
  ASSUME CommandType, AnswersAreAsked, ErasureIsClear, Next
  PROVE  HubTyped'
<1>1. /\ opened' \in 0 .. MaxConns /\ ready' \in BOOLEAN /\ conn' \in 0 .. MaxConns
  <2>1. \/ Connect
        \/ opened' = opened /\ conn' \in {conn, 0} /\ ready' \in {ready, TRUE, FALSE}
    <3>1. CASE Hub
      BY <3>1 DEF Hub, Disconnect, Offline, Ask, Return, Erase, TimeOut, Handle, Hello, Index, TaskEnded,
         Answered, HangUp
    <3>3. CASE Pool
      BY <3>3 DEF Pool, LoadSession, Initialize, MakeTask, Dispatch
    <3>2. CASE Loop \/ Threads
      BY <3>2, WorkerLeavesHub DEF hub
    <3> QED
      BY <3>1, <3>2, <3>3 DEF Next
  <2>2. MaxConns \in Nat /\ opened \in 0 .. MaxConns /\ conn \in 0 .. MaxConns /\ ready \in BOOLEAN
    BY CommandBounds DEF CommandType, HubTyped
  <2>3. ASSUME Connect PROVE opened' \in 0 .. MaxConns /\ ready' \in BOOLEAN /\ conn' \in 0 .. MaxConns
    <3>1. opened < MaxConns /\ opened' = opened + 1 /\ conn' = opened' /\ ready' = FALSE
      BY <2>3 DEF Connect
    <3>2. opened' \in 0 .. MaxConns
      BY <2>2, <3>1
    <3> QED
      BY <3>1, <3>2
  <2>4. 0 \in 0 .. MaxConns
    BY <2>2
  <2>5. ASSUME opened' = opened, conn' \in {conn, 0}, ready' \in {ready, TRUE, FALSE}
        PROVE  opened' \in 0 .. MaxConns /\ ready' \in BOOLEAN /\ conn' \in 0 .. MaxConns
    <3>1. ready' \in BOOLEAN
      BY <2>2, <2>5, Zenon
    <3>2. opened' \in 0 .. MaxConns /\ conn' \in 0 .. MaxConns
      BY <2>2, <2>4, <2>5, Zenon
    <3> QED
      BY <3>1, <3>2
  <2> QED
    BY <2>1, <2>3, <2>5, Zenon
<1>2. begun' \in SUBSET Sessions
  <2>1. ASSUME Handle PROVE begun' \subseteq begun \cup Sessions
    <3>1. PICK c \in Conns :
            /\ inbox[c] # <<>>
            /\ \/ begun' = begun
               \/ Index(c, inbox[c][1])
      BY <2>1 DEF Handle, Hello, TaskEnded, Answered
    <3>2. inbox[c][1].type = "sessions" => DOMAIN inbox[c][1].list \subseteq Sessions
      BY <3>1, HandledMessages, SessionListsAre
    <3> QED
      BY <3>1, <3>2 DEF Index
  <2>2. ASSUME Initialize PROVE begun' \subseteq begun \cup Sessions
    <3>1. PICK i \in DOMAIN making : begun' = begun \cup {making[i].session}
      BY <2>2 DEF Initialize
    <3>2. making[i] \in Calls
      BY CallFields
    <3> QED
      BY <3>1, <3>2 DEF Calls
  <2>3. ASSUME ~Handle, ~Initialize PROVE begun' \subseteq begun
    BY <2>3, WorkerLeavesHub DEF Next, Hub, Connect, Disconnect, Ask, Return, Erase, TimeOut, Pool, LoadSession,
       MakeTask, Dispatch, hub
  <2> QED
    BY <2>1, <2>2, <2>3 DEF CommandType, HubTyped
<1> QED
  BY <1>1, <1>2, NameSteps, RequestSteps, CallsStay DEF HubTyped

\* What the Worker carried out stays carried out.
LEMMA DoneStaysDone ==
  ASSUME Next
  PROVE  done \subseteq done'
  BY HubLeavesWorker DEF Next, Loop, Threads, Connect, Lose, Acknowledged, TurnedAway, StartTask, Rename,
     RenameSession, RenameWorkspace, Delete, SaveList, ReportList, ReadHistory, OpenPicker, AskUpdate,
     Uninstall, RunSaves, RunEnds, RunGone, HistoryRead, ReadIndex, SendIndex, Pick, PickerEnds, AddPicked,
     PublishPicked, AutoUpdate, UpdateFails, Install, Leave, Did, worker

\* While the update flag is set no run starts, and it is not set while one is active.
LEMMA UpdatesStayAlone ==
  ASSUME UpdatesAreAlone, Next
  PROVE  UpdatesAreAlone'
<1>1. ASSUME StartTask PROVE UpdatesAreAlone'
  BY <1>1 DEF StartTask, UpdatesAreAlone
<1>2. ASSUME AskUpdate \/ AutoUpdate PROVE UpdatesAreAlone'
  BY <1>2 DEF AskUpdate, AutoUpdate, BeginUpdate, UpdatesAreAlone
<1>3. ASSUME ~StartTask, ~AskUpdate, ~AutoUpdate PROVE updating' \in {updating, FALSE} /\ active' \subseteq active
  BY <1>3, HubLeavesWorker DEF Next, Loop, Threads, Connect, Lose, Acknowledged, TurnedAway, Rename,
     Delete, SaveList, ReportList, ReadHistory, OpenPicker,
     Uninstall, RunSaves, RunEnds, RunGone, HistoryRead, ReadIndex, SendIndex, Pick, AddPicked,
     PublishPicked, UpdateFails, Install, Leave, Ends, worker
<1> QED
  BY <1>1, <1>2, <1>3 DEF UpdatesAreAlone

\* A message about a Task stays one: calls are never forgotten.
LEMMA MessagesStay ==
  ASSUME CommandType, Next
  PROVE  /\ [Conns -> Seq(UpMsgs)] \subseteq [Conns -> Seq(UpMsgs')]
         /\ [Conns -> Seq(DownMsgs)] \subseteq [Conns -> Seq(DownMsgs')]
<1>1. DOMAIN making \subseteq DOMAIN making'
  BY CallsStay
<1>2. UpMsgs \subseteq UpMsgs' /\ DownMsgs \subseteq DownMsgs'
  BY <1>1 DEF UpMsgs, EndedMsgs, DownMsgs, StartMsgs
<1>3. \A A, B : A \subseteq B => [Conns -> Seq(A)] \subseteq [Conns -> Seq(B)]
  OBVIOUS
<1> QED
  BY <1>2, <1>3

\* The initial states satisfy the invariant.
LEMMA InitHolds == Init => CommandInv
<1> SUFFICES ASSUME Init PROVE CommandInv
  OBVIOUS
<1>1. Default \in AnyName /\ Initial \in SUBSET Workspaces
  BY CommandHomes DEF AnyName
<1>2. store \in Lists /\ config \in Lists
  <2>1. [w \in Initial |-> Default] \in [Initial -> AnyName]
    BY <1>1
  <2> QED
    BY <1>1, <2>1, ListsAre DEF Init
<1>3. local \in SessionLists
  <2>1. <<>> \in [{} -> AnyMark] /\ {} \in SUBSET Sessions
    OBVIOUS
  <2> QED
    BY <2>1, SessionListsAre DEF Init
<1>4. /\ Absent \in Marks /\ Unnamed \in Marks
      /\ [name : Names, by : {"user"}] \subseteq Marks
  BY DEF Unnamed, Marks, AnyMark
<1>5. known \in [Workspaces -> Marks] /\ title \in [Sessions -> Marks]
  <2>1. known \in [Workspaces -> Marks]
    BY <1>4 DEF Init
  <2>2. title \in [Sessions -> {Unnamed} \cup [name : Names, by : {"user"}]]
    BY DEF Init
  <2> QED
    BY <1>4, <2>1, <2>2
<1>6. request = <<>> /\ request \in Seq(Requests) /\ DOMAIN request = {}
  BY DEF Init
<1>7. HubTyped /\ 0 \in 0 .. MaxConns
  <2>1. 0 \in 0 .. MaxConns
    BY CommandBounds
  <2>2. begun \in SUBSET Sessions /\ making \in Seq(Calls) /\ ready \in BOOLEAN
    <3>1. begun = {} /\ making = <<>> /\ ready = FALSE
      BY DEF Init
    <3>2. {} \in SUBSET Sessions /\ FALSE \in BOOLEAN
      OBVIOUS
    <3>3. <<>> \in Seq(Calls)
      OBVIOUS
    <3> QED
      BY <3>1, <3>2, <3>3, Zenon
  <2> QED
    BY <1>5, <1>6, <2>1, <2>2 DEF Init, HubTyped
<1>8. WireTyped /\ \A c \in Conns : inbox[c] = <<>> /\ DOMAIN inbox[c] = {}
  <2>1. <<>> \in Seq(UpMsgs) /\ <<>> \in Seq(DownMsgs)
    OBVIOUS
  <2>2. \A c \in Conns : inbox[c] = <<>> /\ DOMAIN inbox[c] = {}
    BY DEF Init
  <2> QED
    BY <2>1, <2>2 DEF Init, WireTyped
<1>9. WorkerTyped
  <2>1. picker \in Pickers
    <3>1. <<>> \in Lists
      BY <1>2, ListSteps
    <3> QED
      BY <3>1 DEF Init, Closed, Pickers
  <2>2. doing \in Doings
    BY DEF Init, Idle, Doings
  <2>3. updating \in BOOLEAN /\ life \in {"up", "leaving", "gone", "rejected"}
    BY DEF Init
  <2>4. /\ active \in SUBSET DOMAIN making /\ over \in SUBSET DOMAIN making /\ histories \in SUBSET Nat
        /\ indexes \in SUBSET SessionLists
    BY DEF Init
  <2> QED
    BY <1>2, <1>3, <1>7, <2>1, <2>2, <2>3, <2>4 DEF Init, WorkerTyped
<1>10. WorkIsAsked
  BY DEF Init, WorkIsAsked, Idle, Closed
<1>11. AnswersAreAsked /\ AnswersAreDone /\ ToldIsDone
  BY <1>6, <1>8 DEF AnswersAreAsked, AnswersAreDone, ToldIsDone
<1>12. UpdatesAreAlone /\ ErasureIsClear
  BY DEF Init, UpdatesAreAlone, ErasureIsClear, Nothing
<1> QED
  BY <1>7, <1>8, <1>9, <1>10, <1>11, <1>12 DEF CommandInv, CommandType

\* Every step keeps the invariant.
LEMMA StepHolds == CommandInv /\ [Next]_vars => CommandInv'
<1> SUFFICES ASSUME CommandInv, [Next]_vars PROVE CommandInv'
  OBVIOUS
<1>1. CASE UNCHANGED vars
  BY <1>1 DEF CommandInv, CommandType, HubTyped, WireTyped, WorkerTyped, WorkIsAsked, AnswersAreAsked,
     AnswersAreDone, ToldIsDone, UpdatesAreAlone, ErasureIsClear, UpMsgs, EndedMsgs, DownMsgs, StartMsgs,
     vars, hub, wire, files, thread, worker
<1>2. CASE Next
  <2>1. /\ CommandType /\ WorkIsAsked /\ AnswersAreAsked /\ AnswersAreDone /\ ToldIsDone
        /\ UpdatesAreAlone /\ ErasureIsClear
    BY DEF CommandInv
  <2>2. /\ inbox' \in [Conns -> Seq(UpMsgs)]
        /\ \A c \in Conns : \A i \in DOMAIN inbox'[c] :
             (\E j \in DOMAIN inbox[c] : inbox'[c][i] = inbox[c][j]) \/ Honest(inbox'[c][i])
    BY <1>2, <2>1, InboxSteps
  <2>3. /\ DOMAIN request \subseteq DOMAIN request'
        /\ \A r \in DOMAIN request' : Follows(request', r)
    BY <1>2, <2>1, RequestSteps
  <2>4. CommandType'
    <3>1. WireTyped'
      BY <1>2, <2>1, <2>2, OutboxSteps, MessagesStay DEF WireTyped
    <3> QED
      BY <1>2, <2>1, <3>1, HubStaysTyped, WorkerStaysTyped DEF CommandType
  <2>5. WorkIsAsked'
    BY <1>2, <2>1, <2>3, DoingSteps, PickerSteps, ThreadSteps DEF WorkIsAsked
  <2>6. AnswersAreAsked'
    BY <2>1, <2>2, <2>3 DEF AnswersAreAsked, Honest
  <2>7. done \subseteq done'
    BY <1>2, DoneStaysDone
  <2>8. \A r \in DOMAIN request : HeardDone(r) => r \in done
    BY <2>1, FirstMessages DEF HeardDone, AnswersAreDone
  <2>9. AnswersAreDone'
    <3>1. ASSUME NEW c \in Conns, NEW i \in DOMAIN inbox'[c], inbox'[c][i].type = "answer", inbox'[c][i].ok
          PROVE  inbox'[c][i].id \in done'
      BY <2>1, <2>2, <2>7, <3>1 DEF AnswersAreDone, Honest
    <3>2. ASSUME NEW r \in DOMAIN request', request'[r].answer = "completed" PROVE r \in done'
      BY <2>1, <2>3, <2>7, <2>8, <3>2 DEF AnswersAreDone, Follows
    <3> QED
      BY <3>1, <3>2 DEF AnswersAreDone
  <2>10. ToldIsDone'
    <3>1. ASSUME NEW r \in DOMAIN request', request'[r].told = "completed" PROVE r \in done'
      BY <2>1, <2>3, <2>7, <2>8, <3>1 DEF AnswersAreDone, ToldIsDone, Follows
    <3> QED
      BY <3>1 DEF ToldIsDone
  <2>11. UpdatesAreAlone'
    BY <1>2, <2>1, UpdatesStayAlone
  <2>12. ErasureIsClear'
    BY <1>2, <2>1, ErasureStaysClear
  <2> QED
    BY <2>4, <2>5, <2>6, <2>9, <2>10, <2>11, <2>12 DEF CommandInv
<1> QED
  BY <1>1, <1>2

\* The invariant holds of every behaviour: among others, whatever the Worker works on
\* was asked for, and an answer that reports success is of a command it carried out.
THEOREM CommandInvariant == Spec => []CommandInv
<1>1. Init => CommandInv
  BY InitHolds
<1>2. CommandInv /\ [Next]_vars => CommandInv'
  BY StepHolds
<1> QED
  BY <1>1, <1>2, PTL DEF Spec

\* The state keeps its shape.
THEOREM CommandsAreTyped == Spec => []TypeOK
<1>1. CommandInv => TypeOK
  <2> SUFFICES ASSUME CommandInv PROVE TypeOK
    OBVIOUS
  <2>1. HubTyped /\ WorkerTyped
    BY DEF CommandInv, CommandType
  <2>2. \A r \in DOMAIN request : request[r] \in Requests
    BY <2>1 DEF HubTyped
  <2>3. \A r \in DOMAIN request :
          /\ request[r].kind \in Kinds
          /\ request[r].told \in {"none", "completed", "failed", "late", "refused"}
    BY <2>2 DEF Requests
  <2>4. DOMAIN local \subseteq Sessions
    BY <2>1, SessionListsAre DEF WorkerTyped
  <2>5. Marks \subseteq [name : AnyName, by : {"none", "auto", "user"}]
    BY DEF Marks, AnyMark, AnyName, Absent
  <2>6. /\ known \in [Workspaces -> [name : AnyName, by : {"none", "auto", "user"}]]
        /\ title \in [Sessions -> [name : AnyName, by : {"none", "auto", "user"}]]
    BY <2>1, <2>5 DEF HubTyped
  <2>7. \A i \in DOMAIN making : /\ making[i].session \in Sessions /\ making[i].copy \in AnyMark
                                 /\ making[i].at \in {"loaded", "ready", "made", "sent", "ended"}
    BY CallFields DEF CommandInv, Calls
  <2> QED
    BY <2>1, <2>3, <2>4, <2>5, <2>6, <2>7 DEF HubTyped, WorkerTyped, Pickers, Doings, TypeOK
<1> QED
  BY <1>1, CommandInvariant, PTL

\* A client is told that its command was completed only when the Worker carried out
\* that very command, whatever was lost, late or answered over another connection.
THEOREM CompletionsAreTrue == Spec => []ToldIsDone
<1>1. CommandInv => ToldIsDone
  BY DEF CommandInv
<1> QED
  BY <1>1, CommandInvariant, PTL

\* No run is active while an update is under way (begin_update, _start_task).
THEOREM UpdatesRunAlone == Spec => []UpdatesAreAlone
<1>1. CommandInv => UpdatesAreAlone
  BY DEF CommandInv
<1> QED
  BY <1>1, CommandInvariant, PTL

\* A Task that was active when a deletion looked, after the await, keeps its session's
\* record: what is deleted is of sessions that had none then (delete_session and
\* delete_workspace, ensure_sessions_deletable).
THEOREM ActiveTasksKeepSessions == Spec => TasksKeepTheirSession
<1> DEFINE A == \A i \in Tasks : LET s == making[i].session IN
                  title[s] # Absent /\ title'[s] = Absent => i \notin erasing.there
<1>1. CommandInv /\ [Next]_vars => [A]_title
  <2> SUFFICES ASSUME CommandInv, Next, NEW i \in Tasks, title[making[i].session] # Absent,
                      title'[making[i].session] = Absent
               PROVE  i \notin erasing.there
    BY DEF vars, hub
  <2>1. NamesFollow
    BY NameSteps DEF CommandInv
  <2>2. making[i] \in Calls
    BY CallFields DEF CommandInv, Tasks
  <2>3. erasing.id # 0 /\ making[i].session \in request[erasing.id].of
    BY <2>1, <2>2 DEF NamesFollow, Calls
  <2> QED
    BY <2>3 DEF CommandInv, ErasureIsClear
<1>2. Spec => [][A]_title
  BY <1>1, CommandInvariant, PTL DEF Spec
<1> QED
  BY <1>2 DEF TasksKeepTheirSession

\* No step takes back a name a user gave, but that of a create_task that saves the
\* copy it read before the session's first request: otherwise only a rename a user
\* asked for, or the end of the entity, replaces it (update_presence,
\* _merge_local_session_summary, initialize_from_first_request).
THEOREM GivenNamesStay == Spec => NamesStay
<1> DEFINE A == /\ \A w \in Workspaces : Given(known[w], known'[w], w)
                /\ \A s \in Sessions : Given(title[s], title'[s], s) \/ SavesStaleCopy(s)
<1>1. CommandInv /\ [Next]_vars => [A]_<<known, title>>
  <2> SUFFICES ASSUME CommandInv, Next PROVE A
    BY DEF vars, hub
  <2> QED
    BY NameSteps DEF CommandInv, NamesFollow
<1>2. Spec => [][A]_<<known, title>>
  BY <1>1, CommandInvariant, PTL DEF Spec
<1> QED
  BY <1>2 DEF NamesStay
=============================================================================
