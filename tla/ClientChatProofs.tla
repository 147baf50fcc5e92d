--------------------------- MODULE ClientChatProofs ---------------------------
(***************************************************************************)
(* Proofs about the chat store of the browser client (ClientChat).         *)
(***************************************************************************)
EXTENDS ClientChat, TLAPS, NaturalsInduction, WellFoundedInduction, SequenceTheorems

-----------------------------------------------------------------------------
(* Types.  L is the set of the jobs that the canister has begun: whatever   *)
(* the client remembers of a job is of one of them.                         *)

Statuses == {"none", "running", "done", "failed", "gone"}
Texts == {Empty, Full}
Messages == [here : BOOLEAN, content : 0..2, complete : BOOLEAN, error : BOOLEAN]
Read == [here : BOOLEAN, content : Texts, complete : BOOLEAN, error : BOOLEAN]
Fetched == Read \cup {Garbled}
Packets == [text : 0..2, final : BOOLEAN, error : BOOLEAN]
States == {"none", "connecting", "open", "closing", "closed"}
OpKinds == {"send", "edit", "connect", "reconnect", "getChat", "getMessages", "getChatJobs",
            "merge", "listChats", "chats", "delete", "deleted"}

JobMaps == [Jobs -> [chat : Keys, status : Statuses, text : Texts]]
Begun(js) == {j \in Jobs : js[j].status # "none"}

Actives(L) == [job : L \cup {NoJob}, errored : BOOLEAN]
Stores(L) ==
    [chats : SUBSET Chats, current : Keys, messages : [Jobs -> Messages],
     flags : [Keys -> SUBSET Flags], active : [Chats -> Actives(L)], webSockets : [Jobs -> Sockets \cup {0}]]
SocketMaps(L) ==
    [Sockets -> [job : L \cup {NoJob}, state : States, greeting : BOOLEAN,
                 handler : Handlers \cup {0}, sent : Packets]]
HandlerRecords ==
    [sock : Sockets \cup {0}, decrypting : Seq(Packets), latest : Packets, some : BOOLEAN,
     frame : {"none", "scheduled", "cancelled"}, final : BOOLEAN]
HandlerMaps == [Handlers -> HandlerRecords]
Ops(L) ==
    [kind : OpKinds, key : Keys, job : L \cup {NoJob}, active : L \cup {NoJob}, ids : SUBSET Jobs,
     seen : [Jobs -> Fetched], details : [Jobs -> Statuses], chats : SUBSET Chats]

JobsAreTyped(js) == js \in JobMaps /\ \A j \in Begun(js) : js[j].chat \in Chats

\* A function that waits for a reply about a chat or a job names one.
OpIsTyped(L, o) ==
    /\ o \in Ops(L)
    /\ o.kind \notin {"send", "listChats", "chats"} => o.key \in Chats
    /\ o.kind \in {"connect", "reconnect"} => o.job \in L
OpsAreTyped(L, os) == \A o \in os : OpIsTyped(L, o)

\* A socket that was made has a job and handlers, which belong to a socket; one
\* that waits for its handshake was made.
SocketsAreBound(L, so, ha) ==
    /\ so \in SocketMaps(L) /\ ha \in HandlerMaps
    /\ \A s \in Sockets : so[s].greeting => so[s].state # "none"
    /\ \A s \in Sockets : so[s].state # "none" =>
         so[s].job \in L /\ so[s].handler \in Handlers /\ ha[so[s].handler].sock # 0
    /\ \A h \in Handlers :
         IF ha[h].sock = 0 THEN ha[h] = NoHandler ELSE so[ha[h].sock].state # "none"

\* DeadSocketsAreForgotten, and no entry for a socket that was never made.
EntriesAreAlive(st, so) ==
    \A j \in Jobs : st.webSockets[j] # 0 =>
        so[st.webSockets[j]].job = j /\ so[st.webSockets[j]].state \notin {"none", "closed"}

\* NewChatIsAskedFor.
AskedFor(st, os, gv) == st.flags[New] # {} => New \in gv \/ \E o \in os : o.kind = "send" /\ o.key = New

Sound ==
    /\ JobsAreTyped(jobs)
    /\ store \in Stores(Begun(jobs))
    /\ OpsAreTyped(Begun(jobs), ops)
    /\ SocketsAreBound(Begun(jobs), sockets, handlers)
    /\ EntriesAreAlive(store, sockets)
    /\ AskedFor(store, ops, given)

LEMMA Constants == /\ NoPacket \in Packets /\ NoMessage \in Fetched /\ NoMessage \in Messages
                   /\ \A L : NoActive \in Actives(L)
                   /\ NoHandler \in HandlerRecords /\ NoHandler.sock = 0
                   /\ Empty = 0 /\ Part = 1 /\ Full = 2
                   /\ Flags \in SUBSET Flags /\ {} \in SUBSET Flags
BY DEF NoPacket, Packet, Packets, NoMessage, Fetched, Read, Messages, NoActive, Actives, NoHandler, HandlerRecords,
       Empty, Part, Full, Texts

LEMMA NewIsNoChat == New \in Keys /\ New \notin Chats /\ Chats \subseteq Keys
BY ChatAssumption DEF New, Keys

-----------------------------------------------------------------------------
(* What a change of the store keeps.                                        *)

ErrorsKept(st, new) ==
    \A j \in Jobs : st.messages[j].here =>
        new.messages[j].here /\ (st.messages[j].error => new.messages[j].error)

AnswersKept(st, new) ==
    \A j \in Jobs : st.messages[j].here =>
        /\ new.messages[j].content >= st.messages[j].content
        /\ st.messages[j].complete => new.messages[j].complete

\* A change that leaves the sockets and the flags of a new chat alone ...
Mild(L, st, new) ==
    /\ st \in Stores(L) /\ new \in Stores(L)
    /\ new.webSockets = st.webSockets
    /\ new.flags[New] = st.flags[New]

\* ... takes no error back ...
Quiet(L, st, new) == Mild(L, st, new) /\ ErrorsKept(st, new)

\* ... and shortens no answer.
Gentle(L, st, new) == Quiet(L, st, new) /\ AnswersKept(st, new)

LEMMA GentleSame == ASSUME NEW L, NEW st \in Stores(L) PROVE Gentle(L, st, st)
BY DEF Gentle, Quiet, Mild, ErrorsKept, AnswersKept, Stores, Messages

LEMMA QuietTransitive ==
    ASSUME NEW L, NEW a, NEW b, NEW c, Quiet(L, a, b), Quiet(L, b, c)
    PROVE  Quiet(L, a, c)
BY DEF Quiet, Mild, ErrorsKept

LEMMA GentleTransitive ==
    ASSUME NEW L, NEW a, NEW b, NEW c, Gentle(L, a, b), Gentle(L, b, c)
    PROVE  Gentle(L, a, c)
<1>1. Quiet(L, a, c)
  BY QuietTransitive DEF Gentle
<1>2. ASSUME NEW j \in Jobs
      PROVE  /\ a.messages[j].content \in Nat /\ b.messages[j].content \in Nat /\ c.messages[j].content \in Nat
  BY SMTT(30) DEF Gentle, Quiet, Mild, Stores, Messages
<1> QED
  BY <1>1, <1>2 DEF Gentle, Quiet, Mild, AnswersKept, ErrorsKept

LEMMA FlagsSet ==
    ASSUME NEW L, NEW st \in Stores(L), NEW c \in Chats, NEW f \in SUBSET Flags
    PROVE  Gentle(L, st, SetFlags(st, c, f))
<1>1. PICK flags : flags = [st.flags EXCEPT ![c] = f]
  OBVIOUS
<1>2. flags \in [Keys -> SUBSET Flags] /\ flags[New] = st.flags[New]
  BY <1>1, NewIsNoChat DEF Stores
<1>3. SetFlags(st, c, f) = [st EXCEPT !.flags = flags]
  BY <1>1 DEF SetFlags
<1>4. PICK new : new = [st EXCEPT !.flags = flags]
  OBVIOUS
<1>5. /\ new \in Stores(L) /\ new.messages = st.messages /\ new.webSockets = st.webSockets
      /\ new.flags = flags
  BY <1>2, <1>4 DEF Stores
<1>6. Gentle(L, st, st)
  BY GentleSame
<1> QED
  BY <1>2, <1>3, <1>4, <1>5, <1>6 DEF Gentle, Quiet, Mild, ErrorsKept, AnswersKept

LEMMA ActiveSet ==
    ASSUME NEW L, NEW st \in Stores(L), NEW c \in Chats, NEW a \in Actives(L), NEW f \in SUBSET Flags
    PROVE  Gentle(L, st, [st EXCEPT !.active[c] = a, !.flags[c] = f])
<1>1. PICK active : active = [st.active EXCEPT ![c] = a]
  OBVIOUS
<1>2. active \in [Chats -> Actives(L)]
  BY <1>1 DEF Stores
<1>3. PICK mid : mid = [st EXCEPT !.active = active]
  OBVIOUS
<1>4. /\ mid \in Stores(L) /\ mid.messages = st.messages /\ mid.webSockets = st.webSockets
      /\ mid.flags = st.flags
  BY <1>2, <1>3 DEF Stores
<1>5. Gentle(L, st, mid)
  BY <1>4, GentleSame DEF Gentle, Quiet, Mild, ErrorsKept, AnswersKept
<1>6. [st EXCEPT !.active[c] = a, !.flags[c] = f] = [mid EXCEPT !.flags[c] = f]
  BY <1>1, <1>3
<1>7. Gentle(L, mid, SetFlags(mid, c, f))
  BY <1>4, FlagsSet
<1> QED
  BY <1>5, <1>6, <1>7, GentleTransitive DEF SetFlags


LEMMA ActiveChatJobSet ==
    ASSUME NEW L, NEW st \in Stores(L), NEW c \in Chats, NEW j \in L \cup {NoJob}, NEW errored \in BOOLEAN
    PROVE  /\ Gentle(L, st, SetActiveChatJob(st, c, j, errored))
           /\ Gentle(L, st, ClearActiveChatJob(st, c))
<1>1. [job |-> j, errored |-> errored] \in Actives(L) /\ NoActive \in Actives(L)
  BY Constants DEF Actives
<1>2. (IF errored THEN {} ELSE Flags) \in SUBSET Flags /\ {} \in SUBSET Flags
  OBVIOUS
<1> QED
  BY <1>1, <1>2, ActiveSet DEF SetActiveChatJob, ClearActiveChatJob

\* One message is replaced by one that keeps its error.
LEMMA MessageSet ==
    ASSUME NEW L, NEW st \in Stores(L), NEW j \in Jobs, NEW m \in Messages, m.here,
           st.messages[j].error => m.error
    PROVE  /\ Quiet(L, st, [st EXCEPT !.messages[j] = m])
           /\ m.content >= st.messages[j].content /\ (st.messages[j].complete => m.complete)
                => Gentle(L, st, [st EXCEPT !.messages[j] = m])
<1>1. PICK ms : ms = [st.messages EXCEPT ![j] = m]
  OBVIOUS
<1>2. ms \in [Jobs -> Messages] /\ ms[j] = m /\ \A i \in Jobs \ {j} : ms[i] = st.messages[i]
  BY <1>1 DEF Stores
<1>3. PICK new : new = [st EXCEPT !.messages = ms]
  OBVIOUS
<1>4. /\ new \in Stores(L) /\ new.messages = ms /\ new.webSockets = st.webSockets
      /\ new.flags = st.flags
  BY <1>2, <1>3 DEF Stores
<1>5. new = [st EXCEPT !.messages[j] = m]
  BY <1>1, <1>3
<1>6. Gentle(L, st, st)
  BY GentleSame
<1>7. Quiet(L, st, new)
  BY <1>2, <1>4, <1>6 DEF Gentle, Quiet, Mild, ErrorsKept
<1>8. ASSUME m.content >= st.messages[j].content, st.messages[j].complete => m.complete
      PROVE  AnswersKept(st, new)
  BY <1>2, <1>4, <1>6, <1>8 DEF Gentle, AnswersKept
<1> QED
  BY <1>5, <1>7, <1>8 DEF Gentle

LEMMA ErrorHandled ==
    ASSUME NEW L \in SUBSET Jobs, NEW st \in Stores(L), NEW c \in Chats, NEW j \in L
    PROVE  Gentle(L, st, HandleWebSocketError(st, c, j))
<1>1. PICK marked : marked = SetActiveChatJob(st, c, j, TRUE)
  OBVIOUS
<1>2. Gentle(L, st, marked) /\ marked \in Stores(L)
  <2>1. j \in L \cup {NoJob} /\ TRUE \in BOOLEAN
    OBVIOUS
  <2>2. Gentle(L, st, marked)
    BY <2>1, <1>1, ActiveChatJobSet
  <2> QED
    BY <2>2 DEF Gentle, Quiet, Mild
<1>3. CASE ~st.messages[j].here
  BY <1>1, <1>2, <1>3 DEF HandleWebSocketError
<1>4. CASE st.messages[j].here
  <2>1. PICK old : old = marked.messages[j]
    OBVIOUS
  <2>2. old \in Messages /\ old.here
    BY <1>2, <1>4, <2>1 DEF Stores, Gentle, Quiet, Mild, ErrorsKept
  <2>3. PICK m : m = [[old EXCEPT !.error = TRUE] EXCEPT !.complete = TRUE]
    OBVIOUS
  <2>4. m \in Messages /\ m.here /\ m.error /\ m.complete /\ m.content = old.content
    BY <2>2, <2>3 DEF Messages
  <2>5. m.content >= old.content
    BY <2>2, <2>4 DEF Messages
  <2>6. Gentle(L, marked, [marked EXCEPT !.messages[j] = m])
    BY <1>2, <2>1, <2>4, <2>5, MessageSet
  <2>7. HandleWebSocketError(st, c, j) = [marked EXCEPT !.messages[j].error = TRUE, !.messages[j].complete = TRUE]
    BY <1>1, <1>4 DEF HandleWebSocketError
  <2>8. [marked EXCEPT !.messages[j].error = TRUE, !.messages[j].complete = TRUE]
          = [marked EXCEPT !.messages[j] = m]
    <3>1. PICK ms : ms = marked.messages
      OBVIOUS
    <3>2. ms \in [Jobs -> Messages]
      BY <3>1, <1>2 DEF Stores
    <3>3. PICK mid : mid = [ms EXCEPT ![j] = [old EXCEPT !.error = TRUE]]
      OBVIOUS
    <3>4. [mid EXCEPT ![j].complete = TRUE] = [ms EXCEPT ![j] = m]
      BY <3>2, <3>3, <2>3
    <3>5. [marked EXCEPT !.messages[j].error = TRUE, !.messages[j].complete = TRUE]
            = [[marked EXCEPT !.messages = mid] EXCEPT !.messages = [mid EXCEPT ![j].complete = TRUE]]
      BY <3>1, <3>3, <2>1, <1>2 DEF Stores
    <3> QED
      BY <3>1, <3>4, <3>5, <1>2 DEF Stores
  <2> QED
    BY <1>2, <2>6, <2>7, <2>8, GentleTransitive
<1> QED
  BY <1>3, <1>4


LEMMA PacketProcessed ==
    ASSUME NEW L \in SUBSET Jobs, NEW st \in Stores(L), NEW c \in Chats, NEW j \in L, NEW p \in Packets
    PROVE  Quiet(L, st, Finish(Update(st, c, j, p), c, j, p))
<1>1. PICK old : old = st.messages[j]
  OBVIOUS
<1>2. old \in Messages
  BY <1>1 DEF Stores
<1>3. PICK complete : complete = ((p.final /\ ~IsLikelyToolCall(p)) \/ p.error)
  OBVIOUS
<1>4. PICK error : error = (p.error \/ old.error)
  OBVIOUS
<1>5. PICK m : m = Message(p.text, complete, error)
  OBVIOUS
<1>6. complete \in BOOLEAN /\ error \in BOOLEAN /\ p.text \in 0..2
  BY <1>2, <1>3, <1>4 DEF Packets, Messages
<1>7. m \in Messages /\ m.here /\ (old.error => m.error)
  BY <1>4, <1>5, <1>6 DEF Message, Messages
<1>8. PICK mid : mid = Update(st, c, j, p)
  OBVIOUS
<1>9. Quiet(L, st, mid)
  <2>1. CASE ~old.here
    <3>1. mid = st
      BY <2>1, <1>1, <1>8 DEF Update
    <3> QED
      BY <3>1, GentleSame DEF Gentle
  <2>2. CASE old.here /\ m = old
    <3>1. mid = SetFlags(st, c, st.flags[c] \ {"waiting"})
      BY <2>2, <1>1, <1>3, <1>4, <1>5, <1>8 DEF Update
    <3>2. st.flags[c] \ {"waiting"} \in SUBSET Flags
      BY NewIsNoChat DEF Stores
    <3> QED
      BY <3>1, <3>2, FlagsSet DEF Gentle
  <2>3. CASE old.here /\ m # old
    <3>1. PICK busy : busy = IF Terminal(m) THEN {} ELSE {"generating", "typing"}
      OBVIOUS
    <3>2. mid = [st EXCEPT !.messages[j] = m, !.flags[c] = busy]
      BY <2>3, <3>1, <1>1, <1>3, <1>4, <1>5, <1>8 DEF Update
    <3>3. PICK put : put = [st EXCEPT !.messages[j] = m]
      OBVIOUS
    <3>4. Quiet(L, st, put) /\ put \in Stores(L)
      <4>1. Quiet(L, st, put)
        BY <3>3, <1>1, <1>7, MessageSet
      <4> QED
        BY <4>1 DEF Quiet, Mild
    <3>5. mid = SetFlags(put, c, busy)
      BY <3>2, <3>3 DEF SetFlags
    <3>6. Quiet(L, put, mid)
      BY <3>1, <3>4, <3>5, FlagsSet DEF Gentle, Flags
    <3> QED
      BY <3>4, <3>6, QuietTransitive
  <2> QED
    BY <2>1, <2>2, <2>3
<1>10. mid \in Stores(L)
  BY <1>9 DEF Quiet, Mild
<1>11. Quiet(L, mid, Finish(mid, c, j, p))
  <2>1. j \in L \cup {NoJob} /\ TRUE \in BOOLEAN
    OBVIOUS
  <2> QED
    BY <2>1, <1>10, ActiveChatJobSet, GentleSame DEF Finish, Gentle
<1> QED
  BY <1>8, <1>9, <1>11, QuietTransitive

-----------------------------------------------------------------------------
(* Merging what was fetched: mergeFetchedWithLocalMap and                   *)
(* mergeJobDetailsIntoMap, for one message.                                 *)

LEMMA MergedKeeps ==
    ASSUME NEW f \in Fetched, NEW l \in Messages, NEW status
    PROVE  LET m == MergeJobDetails(MergeFetchedWithLocal(f, l), status)
           IN  /\ m \in Messages
               /\ l.here => /\ m.here /\ (l.error => m.error) /\ (l.complete => m.complete)
                            /\ f # Garbled => m.content >= l.content
<1> USE Constants
<1>a. /\ f.here \in BOOLEAN /\ f.content \in 0..2 /\ f.complete \in BOOLEAN /\ f.error \in BOOLEAN
      /\ f # Garbled => f.content \in Texts
  <2>1. CASE f \in Read
    <3>1. f.content \in Texts
      BY <2>1 DEF Read
    <3> QED
      BY <2>1, <3>1 DEF Read, Texts
  <2>2. CASE f = Garbled
    BY <2>2 DEF Garbled, Message
  <2> QED
    BY <2>1, <2>2 DEF Fetched
<1>1. PICK g : g = MergeFetchedWithLocal(f, l)
  OBVIOUS
<1>2. /\ g \in Messages
      /\ l.here => /\ g.here /\ (l.error => g.error) /\ (l.complete => g.complete)
                   /\ f # Garbled => g.content >= l.content
  <2>1. CASE ~f.here
    BY <2>1, <1>1 DEF MergeFetchedWithLocal, Messages
  <2>2. CASE f.here /\ ~l.here
    <3>1. g = f
      BY <2>2, <1>1 DEF MergeFetchedWithLocal
    <3>2. f \in Messages
      <4>1. CASE f \in Read
        BY <4>1 DEF Read, Texts, Messages
      <4>2. CASE f = Garbled
        BY <4>2 DEF Garbled, Message, Messages
      <4> QED
        BY <4>1, <4>2 DEF Fetched
    <3> QED
      BY <2>2, <3>1, <3>2
  <2>3. CASE f.here /\ l.here
    <3>1. PICK error : error = (l.error \/ f.error)
      OBVIOUS
    <3>2. PICK local : local = (l.content # Empty /\ (f.content = Empty \/ (l.complete /\ ~f.complete)))
      OBVIOUS
    <3>3. PICK content : content = IF local \/ f.content = Empty THEN l.content ELSE f.content
      OBVIOUS
    <3>4. PICK complete : complete = (f.complete \/ l.complete \/ error)
      OBVIOUS
    <3>5. g = Message(content, complete, error)
      BY <2>3, <3>1, <3>2, <3>3, <3>4, <1>1 DEF MergeFetchedWithLocal
    <3>6. content \in 0..2 /\ (f # Garbled => content >= l.content)
      BY <1>a, <3>2, <3>3 DEF Messages, Texts
    <3>7. complete \in BOOLEAN /\ error \in BOOLEAN
      BY <1>a, <3>1, <3>4 DEF Messages
    <3> QED
      BY <3>1, <3>4, <3>5, <3>6, <3>7 DEF Message, Messages
  <2> QED
    BY <2>1, <2>2, <2>3
<1>3. PICK m : m = MergeJobDetails(g, status)
  OBVIOUS
<1>4. /\ m \in Messages
      /\ g.here => /\ m.here /\ (g.error => m.error) /\ (g.complete => m.complete)
                   /\ m.content = g.content
  <2>1. PICK error : error = (g.error \/ status = "failed")
    OBVIOUS
  <2>2. PICK complete : complete = (g.complete \/ status \in {"done", "failed"} \/ error)
    OBVIOUS
  <2>3. error \in BOOLEAN /\ complete \in BOOLEAN
    BY <2>1, <2>2, <1>2 DEF Messages
  <2>4. m = g \/ m = [g EXCEPT !.error = error, !.complete = complete]
    BY <2>1, <2>2, <1>3 DEF MergeJobDetails
  <2>5. CASE m = g
    BY <2>5, <1>2 DEF Messages
  <2>6. CASE m = [g EXCEPT !.error = error, !.complete = complete]
    BY <2>1, <2>2, <2>3, <2>6, <1>2 DEF Messages
  <2> QED
    BY <2>4, <2>5, <2>6
<1> QED
  BY <1>1, <1>2, <1>3, <1>4


-----------------------------------------------------------------------------
(* Steps that leave the canister's jobs and the entries of webSockets alone. *)

SocketsMove(L, so, new) ==
    /\ new \in SocketMaps(L)
    /\ \A s \in Sockets :
         /\ new[s].job = so[s].job /\ new[s].handler = so[s].handler
         /\ new[s].state = "none" <=> so[s].state = "none"
         /\ new[s].greeting => (so[s].greeting \/ so[s].state # "none")

SocketsAdvance(L, so, new) ==
    SocketsMove(L, so, new) /\ \A s \in Sockets : new[s].state = "closed" => so[s].state = "closed"

HandlersAdvance(ha, new) ==
    /\ new \in HandlerMaps
    /\ \A h \in Handlers : new[h].sock = ha[h].sock /\ (ha[h].sock = 0 => new[h] = ha[h])

SendsKept(os, new) ==
    \A o \in os : o.kind = "send" /\ o.key = New => \E n \in new : n.kind = "send" /\ n.key = New

GivenKept(gv, new, st) == New \in gv /\ st.flags[New] # {} => New \in new

LEMMA BoundStays ==
    ASSUME NEW L, NEW so, NEW so2, NEW ha, NEW ha2, SocketsAreBound(L, so, ha),
           SocketsMove(L, so, so2), HandlersAdvance(ha, ha2)
    PROVE  SocketsAreBound(L, so2, ha2)
<1>1. so2 \in SocketMaps(L) /\ ha2 \in HandlerMaps
  BY DEF SocketsMove, HandlersAdvance
<1>2. ASSUME NEW s \in Sockets, so2[s].state # "none"
      PROVE  so2[s].job \in L /\ so2[s].handler \in Handlers /\ ha2[so2[s].handler].sock # 0
  BY <1>2 DEF SocketsMove, HandlersAdvance, SocketsAreBound
<1>3. ASSUME NEW h \in Handlers
      PROVE  IF ha2[h].sock = 0 THEN ha2[h] = NoHandler ELSE so2[ha2[h].sock].state # "none"
  <2>1. ha[h].sock \in Sockets \cup {0}
    BY DEF SocketsAreBound, HandlerMaps, HandlerRecords
  <2> QED
    BY <2>1 DEF SocketsMove, HandlersAdvance, SocketsAreBound
<1>4. ASSUME NEW s \in Sockets, so2[s].greeting PROVE so2[s].state # "none"
  BY <1>4 DEF SocketsMove, SocketsAreBound
<1> QED
  BY <1>1, <1>2, <1>3, <1>4 DEF SocketsAreBound

LEMMA MildStep ==
    ASSUME Sound, jobs' = jobs, Mild(Begun(jobs), store, store'),
           SocketsAdvance(Begun(jobs), sockets, sockets'), HandlersAdvance(handlers, handlers'),
           OpsAreTyped(Begun(jobs), ops'), SendsKept(ops, ops'), GivenKept(given, given', store')
    PROVE  Sound'
<1>1. PICK L : L = Begun(jobs)
  OBVIOUS
<1>2. JobsAreTyped(jobs') /\ store' \in Stores(Begun(jobs')) /\ OpsAreTyped(Begun(jobs'), ops')
  BY DEF Sound, Mild
<1>3. SocketsAreBound(Begun(jobs'), sockets', handlers')
  <2>1. SocketsAreBound(L, sockets, handlers) /\ SocketsAdvance(L, sockets, sockets')
    BY <1>1 DEF Sound
  <2>2. SocketsAreBound(L, sockets', handlers')
    BY <2>1, BoundStays DEF SocketsAdvance
  <2> QED
    BY <2>2, <1>1
<1>4. EntriesAreAlive(store', sockets')
  <2>1. store \in Stores(L) /\ store'.webSockets = store.webSockets
    BY <1>1 DEF Sound, Mild
  <2>2. \A j \in Jobs : store.webSockets[j] \in Sockets \cup {0}
    BY <2>1 DEF Stores
  <2> QED
    BY <2>1, <2>2 DEF Sound, EntriesAreAlive, SocketsAdvance, SocketsMove
<1>5. AskedFor(store', ops', given')
  BY DEF Sound, AskedFor, Mild, SendsKept, GivenKept
<1> QED
  BY <1>2, <1>3, <1>4, <1>5 DEF Sound

\* The usual case: no socket and no handlers move.
LEMMA Untouched ==
    ASSUME NEW L, SocketsAreBound(L, sockets, handlers)
    PROVE  /\ sockets' = sockets => SocketsAdvance(L, sockets, sockets')
           /\ handlers' = handlers => HandlersAdvance(handlers, handlers')
BY DEF SocketsAreBound, SocketsAdvance, SocketsMove, HandlersAdvance

LEMMA GivenStays == ASSUME StillGiven PROVE GivenKept(given, given', store')
BY DEF GivenKept, StillGiven

LEMMA SendsStay ==
    ASSUME NEW os, NEW new
    PROVE  /\ os \subseteq new => SendsKept(os, new)
           /\ \A o : o.kind # "send" /\ os \ {o} \subseteq new => SendsKept(os, new)
           /\ \A o : o.key # New /\ os \ {o} \subseteq new => SendsKept(os, new)
BY DEF SendsKept

\* The fields of a function that waits.
LEMMA OpMade ==
    ASSUME NEW L, NEW kind \in OpKinds, NEW key \in Keys, NEW job \in L \cup {NoJob}
    PROVE  /\ Op(kind, key, job) \in Ops(L)
           /\ Op(kind, key, job).kind = kind /\ Op(kind, key, job).key = key /\ Op(kind, key, job).job = job
<1>1. [j \in Jobs |-> NoMessage] \in [Jobs -> Fetched] /\ [j \in Jobs |-> "none"] \in [Jobs -> Statuses]
  BY Constants DEF Statuses
<1> QED
  BY <1>1 DEF Op, Ops


\* The step that AnswersAreKept allows.
Kept ==
    (\A o \in ops \ ops' : o.kind \notin {"send", "edit"}) =>
    \A j \in Jobs : store.messages[j].here /\ store'.messages[j].here =>
      LET m == store.messages[j]
          n == store'.messages[j]
      IN  /\ m.error => n.error
          /\ m.complete /\ handlers' = handlers => n.complete
          /\ handlers' = handlers /\ (\A o \in ops \ ops' : o.seen[j] # Garbled) =>
               n.content >= m.content

Goes == Sound' /\ Kept

LEMMA GentleStep ==
    ASSUME Sound, jobs' = jobs, Gentle(Begun(jobs), store, store'), UNCHANGED <<sockets, handlers>>,
           OpsAreTyped(Begun(jobs), ops'), SendsKept(ops, ops'), StillGiven
    PROVE  Goes
<1>1. PICK L : L = Begun(jobs)
  OBVIOUS
<1>2. SocketsAdvance(L, sockets, sockets') /\ HandlersAdvance(handlers, handlers')
  BY <1>1, Untouched DEF Sound
<1>3. GivenKept(given, given', store')
  BY GivenStays
<1>4. Sound'
  BY <1>1, <1>2, <1>3, MildStep DEF Gentle, Quiet
<1>5. Kept
  BY DEF Kept, Gentle, Quiet, Mild, ErrorsKept, AnswersKept
<1> QED
  BY <1>4, <1>5 DEF Goes

\* Only the functions that wait change.
LEMMA OnlyOpsStep ==
    ASSUME Sound, UNCHANGED <<jobs, store, sockets, handlers>>,
           OpsAreTyped(Begun(jobs), ops'), SendsKept(ops, ops'), StillGiven
    PROVE  Goes
<1>1. store \in Stores(Begun(jobs))
  BY DEF Sound
<1>2. Gentle(Begun(jobs), store, store')
  BY <1>1, GentleSame
<1> QED
  BY <1>2, GentleStep

LEMMA OpsFacts ==
    ASSUME Sound
    PROVE  \A o \in ops : OpIsTyped(Begun(jobs), o)
BY DEF Sound, OpsAreTyped

\* A function starts to wait.
LEMMA OpAdded ==
    ASSUME NEW L, NEW os, OpsAreTyped(L, os), NEW kind \in OpKinds \ {"connect", "reconnect"}, NEW key \in Keys,
           kind \notin {"send", "listChats", "chats"} => key \in Chats
    PROVE  /\ OpsAreTyped(L, os \cup {Op(kind, key, NoJob)})
           /\ SendsKept(os, os \cup {Op(kind, key, NoJob)})
<1>1. PICK o : o = Op(kind, key, NoJob)
  OBVIOUS
<1>2. o \in Ops(L) /\ o.kind = kind /\ o.key = key
  BY <1>1, OpMade
<1>3. OpIsTyped(L, o)
  BY <1>2 DEF OpIsTyped
<1>4. SendsKept(os, os \cup {o})
  BY SendsStay
<1> QED
  BY <1>1, <1>3, <1>4 DEF OpsAreTyped

\* A function that waits for the reply about a job of a chat.
LEMMA JobOpAdded ==
    ASSUME NEW L, NEW os, OpsAreTyped(L, os), NEW kind \in {"connect", "reconnect"}, NEW key \in Chats, NEW j \in L
    PROVE  OpsAreTyped(L, os \cup {Op(kind, key, j)})
<1>1. PICK o : o = Op(kind, key, j)
  OBVIOUS
<1>2. kind \in OpKinds /\ key \in Keys /\ j \in L \cup {NoJob}
  BY NewIsNoChat DEF OpKinds
<1>3. o \in Ops(L) /\ o.kind = kind /\ o.key = key /\ o.job = j
  BY <1>1, <1>2, OpMade
<1>4. OpIsTyped(L, o)
  BY <1>3 DEF OpIsTyped
<1> QED
  BY <1>1, <1>4 DEF OpsAreTyped

LEMMA FewerOps ==
    ASSUME NEW L, NEW os, OpsAreTyped(L, os), NEW o
    PROVE  OpsAreTyped(L, os \ {o})
BY DEF OpsAreTyped

LEMMA EditSteps ==
    ASSUME Sound, NEW c \in Chats, EditUserMessage(c) \/ RetryAiMessage(c)
    PROVE  Goes
<1>1. /\ store' = [store EXCEPT !.flags[c] = @ \cup {"generating"}]
      /\ ops' = ops \cup {Op("edit", c, NoJob)} /\ UNCHANGED <<jobs, sockets, handlers>> /\ StillGiven
  BY DEF EditUserMessage, RetryAiMessage
<1>2. PICK f : f = store.flags[c] \cup {"generating"}
  OBVIOUS
<1>3. store \in Stores(Begun(jobs)) /\ f \in SUBSET Flags
  BY <1>2, NewIsNoChat DEF Sound, Stores, Flags
<1>4. store' = SetFlags(store, c, f)
  BY <1>1, <1>2 DEF SetFlags
<1>5. Gentle(Begun(jobs), store, store')
  BY <1>3, <1>4, FlagsSet
<1>6. OpsAreTyped(Begun(jobs), ops') /\ SendsKept(ops, ops')
  BY <1>1, OpAdded, NewIsNoChat DEF Sound, OpKinds
<1> QED
  BY <1>1, <1>5, <1>6, GentleStep

LEMMA TimerStep == ASSUME Sound, NEW c \in Chats, TimerFires(c) PROVE Goes
<1>1. OpsAreTyped(Begun(jobs), ops') /\ SendsKept(ops, ops')
  BY OpAdded, NewIsNoChat DEF Sound, OpKinds, TimerFires
<1> QED
  BY <1>1, OnlyOpsStep DEF TimerFires

LEMMA UpdateChatStep == ASSUME Sound, NEW c \in Chats, UpdateChat(c) PROVE Goes
<1>1. OpsAreTyped(Begun(jobs), ops') /\ SendsKept(ops, ops')
  BY OpAdded, NewIsNoChat DEF Sound, OpKinds, UpdateChat
<1> QED
  BY <1>1, OnlyOpsStep DEF UpdateChat

LEMMA CurrentSet ==
    ASSUME NEW L, NEW st \in Stores(L), NEW k \in Keys
    PROVE  Gentle(L, st, [st EXCEPT !.current = k])
<1>1. PICK new : new = [st EXCEPT !.current = k]
  OBVIOUS
<1>2. new \in Stores(L) /\ new.messages = st.messages /\ new.flags = st.flags /\ new.webSockets = st.webSockets
  BY <1>1 DEF Stores
<1> QED
  BY <1>1, <1>2, GentleSame DEF Gentle, Quiet, Mild, ErrorsKept, AnswersKept

LEMMA SetCurrentStep == ASSUME Sound, NEW c \in Chats, SetCurrentChatId(c) PROVE Goes
<1>1. Gentle(Begun(jobs), store, store')
  BY CurrentSet, NewIsNoChat DEF Sound, SetCurrentChatId
<1>2. OpsAreTyped(Begun(jobs), ops') /\ SendsKept(ops, ops')
  <2>1. CASE ops' = ops
    BY <2>1, SendsStay DEF Sound
  <2>2. CASE ops' = ops \cup {Op("getChat", c, NoJob)}
    BY <2>2, OpAdded, NewIsNoChat DEF Sound, OpKinds
  <2> QED
    BY <2>1, <2>2 DEF SetCurrentChatId
<1> QED
  BY <1>1, <1>2, GentleStep DEF SetCurrentChatId

LEMMA UrlStep == ASSUME Sound, UrlClears PROVE Goes
<1>1. Gentle(Begun(jobs), store, store')
  BY CurrentSet, NewIsNoChat DEF Sound, UrlClears
<1>2. OpsAreTyped(Begun(jobs), ops') /\ SendsKept(ops, ops')
  BY SendsStay DEF Sound, UrlClears
<1> QED
  BY <1>1, <1>2, GentleStep DEF UrlClears


LEMMA MildTransitive ==
    ASSUME NEW L, NEW a, NEW b, NEW c, Mild(L, a, b), Mild(L, b, c)
    PROVE  Mild(L, a, c)
BY DEF Mild

\* connectToChainWebSocket, of a function that has had its reply.
LEMMA ConnectToStep ==
    ASSUME NEW L \in SUBSET Jobs, NEW st \in Stores(L), NEW c \in Chats, NEW j \in L, NEW rest,
           OpsAreTyped(L, rest), ConnectTo(st, c, j, rest)
    PROVE  /\ Gentle(L, st, store') /\ OpsAreTyped(L, ops')
           /\ rest \subseteq ops' /\ \A o \in ops' \ rest : o.kind = "connect"
<1>1. CASE c \in st.chats
  <2>1. store' = st /\ ops' = rest \cup {Op("connect", c, j)}
    BY <1>1 DEF ConnectTo
  <2>2. Op("connect", c, j).kind = "connect"
    BY DEF Op
  <2> QED
    BY <2>1, <2>2, JobOpAdded, GentleSame
<1>2. CASE c \notin st.chats
  <2>1. store' = HandleWebSocketError(st, c, j) /\ ops' = rest
    BY <1>2 DEF ConnectTo
  <2> QED
    BY <2>1, ErrorHandled
<1> QED
  BY <1>1, <1>2

LEMMA BegunFacts ==
    ASSUME Sound
    PROVE  /\ Begun(jobs) \subseteq Jobs /\ store \in Stores(Begun(jobs)) /\ OpsAreTyped(Begun(jobs), ops)
           /\ \A j \in Begun(jobs) : jobs[j].chat \in Chats
BY DEF Sound, JobsAreTyped, Begun

LEMMA ReconnectReturnsStep == ASSUME Sound, NEW o \in ops, ReconnectReturns(o) PROVE Goes
<1>1. PICK L : L = Begun(jobs)
  OBVIOUS
<1>2. L \in SUBSET Jobs /\ store \in Stores(L) /\ OpsAreTyped(L, ops \ {o}) /\ o.key \in Chats /\ o.job \in L
  BY <1>1, BegunFacts, FewerOps, OpsFacts DEF OpIsTyped, ReconnectReturns
<1>3. Gentle(L, store, store') /\ OpsAreTyped(L, ops') /\ ops \ {o} \subseteq ops'
  BY <1>2, ConnectToStep DEF ReconnectReturns
<1>4. SendsKept(ops, ops')
  BY <1>3, SendsStay DEF ReconnectReturns
<1> QED
  BY <1>1, <1>3, <1>4, GentleStep DEF ReconnectReturns

LEMMA ConnectFailsStep == ASSUME Sound, NEW o \in ops, ConnectFails(o) PROVE Goes
<1>1. PICK L : L = Begun(jobs)
  OBVIOUS
<1>2. L \in SUBSET Jobs /\ store \in Stores(L) /\ OpsAreTyped(L, ops \ {o}) /\ o.key \in Chats /\ o.job \in L
  BY <1>1, BegunFacts, FewerOps, OpsFacts DEF OpIsTyped, ConnectFails
<1>3. Gentle(L, store, store')
  BY <1>2, ErrorHandled DEF ConnectFails
<1>4. OpsAreTyped(L, ops') /\ SendsKept(ops, ops')
  BY <1>2, SendsStay DEF ConnectFails
<1> QED
  BY <1>1, <1>3, <1>4, GentleStep DEF ConnectFails

LEMMA ReconnectFailsStep == ASSUME Sound, NEW o \in ops, ReconnectFails(o) PROVE Goes
<1>1. PICK L : L = Begun(jobs)
  OBVIOUS
<1>2. L \in SUBSET Jobs /\ store \in Stores(L) /\ OpsAreTyped(L, ops \ {o}) /\ o.key \in Chats
  BY <1>1, BegunFacts, FewerOps, OpsFacts DEF OpIsTyped, ReconnectFails
<1>3. Gentle(L, store, store')
  BY <1>2, FlagsSet DEF ReconnectFails
<1>4. OpsAreTyped(L, ops') /\ SendsKept(ops, ops')
  BY <1>2, SendsStay DEF ReconnectFails
<1> QED
  BY <1>1, <1>3, <1>4, GentleStep DEF ReconnectFails

LEMMA FetchFailsStep == ASSUME Sound, NEW o \in ops, FetchFails(o) PROVE Goes
<1>1. PICK L : L = Begun(jobs)
  OBVIOUS
<1>2. L \in SUBSET Jobs /\ store \in Stores(L) /\ OpsAreTyped(L, ops \ {o}) /\ o.key \in Chats
  BY <1>1, BegunFacts, FewerOps, OpsFacts DEF OpIsTyped, FetchFails
<1>3. Gentle(L, store, store')
  <2>1. NoJob \in L \cup {NoJob} /\ TRUE \in BOOLEAN
    OBVIOUS
  <2> QED
    BY <1>2, <2>1, ActiveChatJobSet DEF FetchFails
<1>4. OpsAreTyped(L, ops') /\ SendsKept(ops, ops')
  BY <1>2, SendsStay DEF FetchFails
<1> QED
  BY <1>1, <1>3, <1>4, GentleStep DEF FetchFails

LEMMA ReconnectEffectStep == ASSUME Sound, NEW c \in Chats, ReconnectEffect(c) PROVE Goes
<1>1. PICK L : L = Begun(jobs)
  OBVIOUS
<1>2. PICK a : a = store.active[c]
  OBVIOUS
<1>3. L \in SUBSET Jobs /\ store \in Stores(L) /\ OpsAreTyped(L, ops) /\ a \in Actives(L)
  BY <1>1, <1>2, BegunFacts DEF Stores
<1>4. \/ UNCHANGED <<store, ops>>
      \/ Wanted(a) /\ store' = SetFlags(store, c, Flags) /\ ops' = ops \cup {Op("reconnect", c, a.job)}
  BY <1>2 DEF ReconnectEffect
<1>5. Gentle(L, store, store')
  BY <1>3, <1>4, FlagsSet, GentleSame
<1>6. OpsAreTyped(L, ops') /\ SendsKept(ops, ops')
  <2>1. CASE ops' = ops
    BY <2>1, <1>3, SendsStay
  <2>2. CASE Wanted(a) /\ ops' = ops \cup {Op("reconnect", c, a.job)}
    <3>1. a.job \in L
      BY <2>2, <1>3 DEF Wanted, Actives
    <3> QED
      BY <2>2, <3>1, <1>3, JobOpAdded, SendsStay
  <2> QED
    BY <2>1, <2>2, <1>4
<1> QED
  BY <1>1, <1>5, <1>6, GentleStep DEF ReconnectEffect


-----------------------------------------------------------------------------
(* fetchMessages and fetchChats.                                            *)

LEMMA OpReplaced ==
    ASSUME NEW L, NEW os, OpsAreTyped(L, os), NEW o \in os, o.kind # "send", NEW n, OpIsTyped(L, n)
    PROVE  OpsAreTyped(L, (os \ {o}) \cup {n}) /\ SendsKept(os, (os \ {o}) \cup {n})
<1>1. OpsAreTyped(L, (os \ {o}) \cup {n})
  BY DEF OpsAreTyped
<1> QED
  BY <1>1, SendsStay

LEMMA StoredTyped == ASSUME jobs \in JobMaps, NEW j \in Jobs PROVE Stored(j) \in Fetched
<1>1. jobs[j].status \in Statuses /\ jobs[j].text \in Texts
  BY DEF JobMaps
<1>2. Empty \in Texts /\ NoMessage \in Fetched
  BY Constants DEF Texts
<1>3. \A t \in Texts, b \in BOOLEAN, e \in BOOLEAN : Message(t, b, e) \in Fetched
  BY DEF Message, Fetched, Read
<1> QED
  BY <1>1, <1>2, <1>3 DEF Stored

LEMMA ActiveJobTyped == ASSUME NEW c PROVE ActiveJob(c) \in Begun(jobs) \cup {NoJob}
<1>1. PICK running : running = {j \in Jobs : jobs[j].chat = c /\ jobs[j].status = "running"}
  OBVIOUS
<1>2. running \subseteq Begun(jobs)
  BY <1>1 DEF Begun
<1>3. ActiveJob(c) = IF running = {} THEN NoJob ELSE CHOOSE j \in running : TRUE
  BY <1>1 DEF ActiveJob
<1> QED
  BY <1>2, <1>3

LEMMA GetChatStep == ASSUME Sound, NEW o \in ops, GetChat(o) PROVE Goes
<1>1. PICK L : L = Begun(jobs)
  OBVIOUS
<1>2. PICK a : a = ActiveJob(o.key)
  OBVIOUS
<1>3. PICK ids : ids = JobsOf(o.key)
  OBVIOUS
<1>4. PICK n : n = [o EXCEPT !.kind = "getMessages", !.ids = ids, !.active = a]
  OBVIOUS
<1>5. a \in L \cup {NoJob} /\ ids \in SUBSET Jobs /\ OpIsTyped(L, o) /\ OpsAreTyped(L, ops)
  BY <1>1, <1>2, <1>3, ActiveJobTyped, BegunFacts, OpsFacts DEF JobsOf
<1>6. n \in Ops(L) /\ n.kind = "getMessages" /\ n.key = o.key
  BY <1>4, <1>5 DEF OpIsTyped, Ops, OpKinds
<1>7. OpIsTyped(L, n)
  BY <1>5, <1>6 DEF OpIsTyped, GetChat
<1>8. OpsAreTyped(L, ops') /\ SendsKept(ops, ops')
  BY <1>2, <1>3, <1>4, <1>5, <1>7, OpReplaced DEF GetChat
<1> QED
  BY <1>1, <1>8, OnlyOpsStep DEF GetChat

LEMMA GetMessagesStep == ASSUME Sound, NEW o \in ops, NEW lost, NEW garbled, GetMessages(o, lost, garbled) PROVE Goes
<1>1. PICK L : L = Begun(jobs)
  OBVIOUS
<1>2. PICK seen : seen = [j \in Jobs |->
                      IF j \in o.ids \ lost
                      THEN IF Stored(j).content # Empty /\ j \in garbled THEN Garbled ELSE Stored(j)
                      ELSE NoMessage]
  OBVIOUS
<1>3. PICK n : n = [o EXCEPT !.kind = "getChatJobs", !.ids = {}, !.seen = seen]
  OBVIOUS
<1>4. seen \in [Jobs -> Fetched]
  BY <1>2, StoredTyped, Constants DEF Sound, JobsAreTyped, Fetched
<1>5. OpIsTyped(L, o) /\ OpsAreTyped(L, ops)
  BY <1>1, BegunFacts, OpsFacts
<1>6. n \in Ops(L) /\ n.kind = "getChatJobs" /\ n.key = o.key
  BY <1>3, <1>4, <1>5 DEF OpIsTyped, Ops, OpKinds
<1>7. OpIsTyped(L, n)
  BY <1>5, <1>6 DEF OpIsTyped, GetMessages
<1>8. OpsAreTyped(L, ops') /\ SendsKept(ops, ops')
  BY <1>2, <1>3, <1>5, <1>7, OpReplaced DEF GetMessages
<1> QED
  BY <1>1, <1>8, OnlyOpsStep DEF GetMessages

LEMMA GetChatJobsStep == ASSUME Sound, NEW o \in ops, GetChatJobs(o) PROVE Goes
<1>1. PICK L : L = Begun(jobs)
  OBVIOUS
<1>2. PICK details : details = [j \in Jobs |-> IF j \in JobsOf(o.key) THEN jobs[j].status ELSE "none"]
  OBVIOUS
<1>3. PICK n : n = [o EXCEPT !.kind = "merge", !.details = details]
  OBVIOUS
<1>4. details \in [Jobs -> Statuses]
  BY <1>2 DEF Sound, JobsAreTyped, JobMaps, Statuses
<1>5. OpIsTyped(L, o) /\ OpsAreTyped(L, ops)
  BY <1>1, BegunFacts, OpsFacts
<1>6. n \in Ops(L) /\ n.kind = "merge" /\ n.key = o.key
  BY <1>3, <1>4, <1>5 DEF OpIsTyped, Ops, OpKinds
<1>7. OpIsTyped(L, n)
  BY <1>5, <1>6 DEF OpIsTyped, GetChatJobs
<1>8. OpsAreTyped(L, ops') /\ SendsKept(ops, ops')
  BY <1>2, <1>3, <1>5, <1>7, OpReplaced DEF GetChatJobs
<1> QED
  BY <1>1, <1>8, OnlyOpsStep DEF GetChatJobs

LEMMA ListChatsStep == ASSUME Sound, NEW o \in ops, ListChats(o) PROVE Goes
<1>1. PICK L : L = Begun(jobs)
  OBVIOUS
<1>2. PICK chats : chats = {c \in Chats : JobsOf(c) # {}}
  OBVIOUS
<1>3. PICK ids : ids = {j \in Jobs : jobs[j].status = "running"}
  OBVIOUS
<1>4. PICK n : n = [o EXCEPT !.kind = "chats", !.chats = chats, !.ids = ids]
  OBVIOUS
<1>5. OpIsTyped(L, o) /\ OpsAreTyped(L, ops) /\ chats \in SUBSET Chats /\ ids \in SUBSET Jobs
  BY <1>1, <1>2, <1>3, BegunFacts, OpsFacts
<1>6. n \in Ops(L) /\ n.kind = "chats" /\ n.key = o.key
  BY <1>4, <1>5 DEF OpIsTyped, Ops, OpKinds
<1>7. OpIsTyped(L, n)
  BY <1>5, <1>6 DEF OpIsTyped, ListChats
<1>8. OpsAreTyped(L, ops') /\ SendsKept(ops, ops')
  BY <1>2, <1>3, <1>4, <1>5, <1>7, OpReplaced DEF ListChats
<1> QED
  BY <1>1, <1>8, OnlyOpsStep DEF ListChats

LEMMA FetchChatsStep == ASSUME Sound, NEW o \in ops, FetchChatsReturns(o) PROVE Goes
<1>1. PICK L : L = Begun(jobs)
  OBVIOUS
<1>2. PICK idle : idle = {c \in o.chats : \A j \in o.ids : jobs[j].chat # c}
  OBVIOUS
<1>3. PICK flags : flags = [k \in Keys |-> IF k \in idle THEN {} ELSE store.flags[k]]
  OBVIOUS
<1>4. store \in Stores(L) /\ OpIsTyped(L, o) /\ OpsAreTyped(L, ops)
  BY <1>1, BegunFacts, OpsFacts
<1>5. o.chats \in SUBSET Chats
  BY <1>4 DEF OpIsTyped, Ops
<1>6. flags \in [Keys -> SUBSET Flags] /\ flags[New] = store.flags[New]
  BY <1>2, <1>3, <1>4, <1>5, NewIsNoChat DEF Stores
<1>7. store' = [store EXCEPT !.chats = o.chats, !.flags = flags]
  BY <1>2, <1>3 DEF FetchChatsReturns
<1>8. /\ store' \in Stores(L) /\ store'.messages = store.messages /\ store'.webSockets = store.webSockets
      /\ store'.flags = flags
  BY <1>4, <1>5, <1>6, <1>7 DEF Stores
<1>9. Gentle(L, store, store')
  BY <1>4, <1>6, <1>8, GentleSame DEF Gentle, Quiet, Mild, ErrorsKept, AnswersKept
<1>10. OpsAreTyped(L, ops') /\ SendsKept(ops, ops')
  BY <1>4, FewerOps, SendsStay DEF FetchChatsReturns
<1> QED
  BY <1>1, <1>9, <1>10, GentleStep DEF FetchChatsReturns

\* The end of fetchMessages: what was read is merged with what the store holds
\* by now.
LEMMA MergesStep == ASSUME Sound, NEW o \in ops, MergesMessages(o) PROVE Goes
<1>1. PICK L : L = Begun(jobs)
  OBVIOUS
<1>2. /\ L \in SUBSET Jobs /\ store \in Stores(L) /\ OpsAreTyped(L, ops) /\ o.key \in Chats
      /\ o.active \in L \cup {NoJob} /\ o.seen \in [Jobs -> Fetched] /\ jobs \in JobMaps
  BY <1>1, BegunFacts, OpsFacts DEF OpIsTyped, Ops, MergesMessages, Sound, JobsAreTyped
<1>3. PICK merged : merged = [j \in Jobs |->
                        IF jobs[j].chat = o.key
                        THEN MergeJobDetails(MergeFetchedWithLocal(o.seen[j], store.messages[j]), o.details[j])
                        ELSE store.messages[j]]
  OBVIOUS
<1>4. ASSUME NEW j \in Jobs
      PROVE  /\ merged[j] \in Messages
             /\ store.messages[j].here =>
                  /\ merged[j].here /\ (store.messages[j].error => merged[j].error)
                  /\ (store.messages[j].complete => merged[j].complete)
                  /\ o.seen[j] # Garbled => merged[j].content >= store.messages[j].content
  <2>1. o.seen[j] \in Fetched /\ store.messages[j] \in Messages
    BY <1>2 DEF Stores
  <2>2. CASE jobs[j].chat = o.key
    <3>1. merged[j] = MergeJobDetails(MergeFetchedWithLocal(o.seen[j], store.messages[j]), o.details[j])
      BY <1>3, <2>2
    <3> QED
      BY <2>1, <3>1, MergedKeeps
  <2>3. CASE jobs[j].chat # o.key
    <3>1. merged[j] = store.messages[j]
      BY <1>3, <2>3
    <3> QED
      BY <2>1, <3>1 DEF Messages
  <2> QED
    BY <2>2, <2>3
<1>5. merged \in [Jobs -> Messages]
  BY <1>3, <1>4
<1>6. PICK st : st = [store EXCEPT !.messages = merged]
  OBVIOUS
<1>7. st \in Stores(L) /\ st.messages = merged /\ st.flags = store.flags /\ st.webSockets = store.webSockets
  BY <1>2, <1>5, <1>6 DEF Stores
<1>8. Quiet(L, store, st)
  BY <1>2, <1>4, <1>7 DEF Quiet, Mild, ErrorsKept
<1>9. PICK errored : errored = (store.active[o.key].job = o.active /\ store.active[o.key].errored)
  OBVIOUS
<1>10. errored \in BOOLEAN
  BY <1>2, <1>9 DEF Stores, Actives
<1>11. \/ store' = SetActiveChatJob(st, o.key, o.active, errored)
       \/ store' = ClearActiveChatJob(st, o.key)
  BY <1>3, <1>6, <1>9 DEF MergesMessages
<1>12. Gentle(L, st, store')
  BY <1>2, <1>7, <1>10, <1>11, ActiveChatJobSet
<1>13. Quiet(L, store, store')
  BY <1>8, <1>12, QuietTransitive DEF Gentle
<1>14. ops' = ops \ {o} /\ o.kind # "send" /\ UNCHANGED <<jobs, sockets, handlers>> /\ StillGiven
  BY DEF MergesMessages
<1>15. OpsAreTyped(L, ops') /\ SendsKept(ops, ops')
  BY <1>2, <1>14, FewerOps, SendsStay
<1>16. Sound'
  <2>1. SocketsAdvance(L, sockets, sockets') /\ HandlersAdvance(handlers, handlers')
    BY <1>1, <1>14, Untouched DEF Sound
  <2> QED
    BY <1>1, <1>13, <1>14, <1>15, <2>1, GivenStays, MildStep DEF Quiet
<1>17. Kept
  <2>1. o \in ops \ ops'
    BY <1>14
  <2>2. ASSUME NEW j \in Jobs, store.messages[j].here
        PROVE  /\ store.messages[j].error => store'.messages[j].error
               /\ store.messages[j].complete => store'.messages[j].complete
               /\ o.seen[j] # Garbled => store'.messages[j].content >= store.messages[j].content
    <3>1. /\ merged[j].here /\ (store.messages[j].error => merged[j].error)
          /\ (store.messages[j].complete => merged[j].complete)
          /\ o.seen[j] # Garbled => merged[j].content >= store.messages[j].content
      BY <1>4, <2>2
    <3>2. /\ store'.messages[j].content >= merged[j].content
          /\ merged[j].complete => store'.messages[j].complete
          /\ merged[j].error => store'.messages[j].error
      BY <1>7, <1>12, <3>1 DEF Gentle, Quiet, ErrorsKept, AnswersKept
    <3>3. store'.messages[j].content \in Nat /\ merged[j].content \in Nat
          /\ store.messages[j].content \in Nat
      BY <1>2, <1>5, <1>13 DEF Quiet, Mild, Stores, Messages
    <3> QED
      BY <3>1, <3>2, <3>3
  <2> QED
    BY <2>1, <2>2 DEF Kept
<1> QED
  BY <1>16, <1>17 DEF Goes


-----------------------------------------------------------------------------
(* Asking for an answer.                                                    *)

\* A step that changes the flags of a new chat, or what waits for one.
LEMMA AskingStep ==
    ASSUME Sound, UNCHANGED <<jobs, sockets, handlers>>, store' \in Stores(Begun(jobs)),
           store'.webSockets = store.webSockets, store'.messages = store.messages,
           OpsAreTyped(Begun(jobs), ops'), AskedFor(store', ops', given')
    PROVE  Goes
<1>1. EntriesAreAlive(store', sockets')
  BY DEF Sound, EntriesAreAlive
<1>2. Sound'
  BY <1>1 DEF Sound
<1>3. AnswersKept(store, store)
  BY GentleSame DEF Sound, Gentle
<1>4. Kept
  BY <1>3 DEF Kept, AnswersKept
<1> QED
  BY <1>2, <1>4 DEF Goes

LEMMA KeyFlagsSet ==
    ASSUME NEW L, NEW st \in Stores(L), NEW k \in Keys, NEW f \in SUBSET Flags
    PROVE  LET new == SetFlags(st, k, f)
           IN  /\ new \in Stores(L) /\ new.webSockets = st.webSockets /\ new.messages = st.messages
               /\ new.flags[New] = IF k = New THEN f ELSE st.flags[New]
<1>1. PICK flags : flags = [st.flags EXCEPT ![k] = f]
  OBVIOUS
<1>2. flags \in [Keys -> SUBSET Flags] /\ flags[New] = IF k = New THEN f ELSE st.flags[New]
  BY <1>1, NewIsNoChat DEF Stores
<1>3. SetFlags(st, k, f) = [st EXCEPT !.flags = flags]
  BY <1>1 DEF SetFlags
<1>4. PICK new : new = [st EXCEPT !.flags = flags]
  OBVIOUS
<1>5. /\ new \in Stores(L) /\ new.messages = st.messages /\ new.webSockets = st.webSockets
      /\ new.flags = flags
  BY <1>2, <1>4 DEF Stores
<1> QED
  BY <1>2, <1>3, <1>4, <1>5

LEMMA SendStep == ASSUME Sound, SendMessage PROVE Goes
<1>1. PICK L : L = Begun(jobs)
  OBVIOUS
<1>2. PICK k : k = store.current
  OBVIOUS
<1>3. store \in Stores(L) /\ OpsAreTyped(L, ops) /\ k \in Keys /\ Flags \in SUBSET Flags
  BY <1>1, <1>2, BegunFacts DEF Stores
<1>4. /\ store' = SetFlags(store, k, Flags) /\ ops' = ops \cup {Op("send", k, NoJob)}
      /\ UNCHANGED <<jobs, sockets, handlers>> /\ StillGiven
  BY <1>2 DEF SendMessage
<1>5. /\ store' \in Stores(L) /\ store'.webSockets = store.webSockets /\ store'.messages = store.messages
      /\ store'.flags[New] = IF k = New THEN Flags ELSE store.flags[New]
  BY <1>3, <1>4, KeyFlagsSet
<1>6. OpsAreTyped(L, ops') /\ SendsKept(ops, ops')
  BY <1>3, <1>4, OpAdded DEF OpKinds
<1>7. AskedFor(store', ops', given')
  <2>1. CASE k = New
    <3>1. Op("send", k, NoJob).kind = "send" /\ Op("send", k, NoJob).key = k
      BY DEF Op
    <3> QED
      BY <2>1, <3>1, <1>4 DEF AskedFor
  <2>2. CASE k # New
    <3>1. GivenKept(given, given', store')
      BY <1>4, GivenStays
    <3> QED
      BY <2>2, <3>1, <1>5, <1>6 DEF Sound, AskedFor, SendsKept, GivenKept
  <2> QED
    BY <2>1, <2>2
<1> QED
  BY <1>1, <1>4, <1>5, <1>6, <1>7, AskingStep

LEMMA NewChatStep == ASSUME Sound, CreateNewChat PROVE Goes
<1>1. PICK L : L = Begun(jobs)
  OBVIOUS
<1>2. store \in Stores(L) /\ OpsAreTyped(L, ops) /\ New \in Keys /\ {} \in SUBSET Flags
  BY <1>1, BegunFacts, NewIsNoChat
<1>3. PICK st : st = [store EXCEPT !.current = New]
  OBVIOUS
<1>4. st \in Stores(L) /\ st.webSockets = store.webSockets /\ st.messages = store.messages
  BY <1>2, <1>3 DEF Stores
<1>5. store' = SetFlags(st, New, {})
  BY <1>3 DEF CreateNewChat, SetFlags
<1>6. /\ store' \in Stores(L) /\ store'.webSockets = store.webSockets /\ store'.messages = store.messages
      /\ store'.flags[New] = {}
  BY <1>2, <1>4, <1>5, KeyFlagsSet
<1>7. UNCHANGED <<jobs, sockets, handlers, ops>>
  BY DEF CreateNewChat
<1>8. AskedFor(store', ops', given')
  BY <1>6 DEF AskedFor
<1> QED
  BY <1>1, <1>2, <1>6, <1>7, <1>8, AskingStep

\* The flags that a send has raised stay, but the chat is given up.
LEMMA PickNodeStep == ASSUME Sound, NEW o \in ops, PickNodeFails(o) PROVE Goes
<1>1. store \in Stores(Begun(jobs)) /\ OpsAreTyped(Begun(jobs), ops \ {o})
  BY BegunFacts, FewerOps
<1>2. AskedFor(store', ops', given')
  BY DEF Sound, AskedFor, PickNodeFails
<1> QED
  BY <1>1, <1>2, AskingStep DEF PickNodeFails

LEMMA CallFailsStep == ASSUME Sound, NEW o \in ops, CallFails(o) PROVE Goes
<1>1. PICK L : L = Begun(jobs)
  OBVIOUS
<1>2. PICK f : f = IF o.kind = "send" THEN {} ELSE store.flags[o.key] \ {"generating"}
  OBVIOUS
<1>3. store \in Stores(L) /\ OpsAreTyped(L, ops \ {o}) /\ o.key \in Keys /\ (o.kind # "send" => o.key # New)
  BY <1>1, BegunFacts, FewerOps, OpsFacts, NewIsNoChat DEF OpIsTyped, Ops, CallFails
<1>4. f \in SUBSET Flags
  BY <1>2, <1>3 DEF Stores
<1>5. /\ store' = SetFlags(store, o.key, f) /\ ops' = ops \ {o}
      /\ UNCHANGED <<jobs, sockets, handlers>> /\ StillGiven
  BY <1>2 DEF CallFails
<1>6. /\ store' \in Stores(L) /\ store'.webSockets = store.webSockets /\ store'.messages = store.messages
      /\ store'.flags[New] = IF o.key = New THEN f ELSE store.flags[New]
  BY <1>3, <1>4, <1>5, KeyFlagsSet
<1>7. AskedFor(store', ops', given')
  <2>1. CASE o.key = New
    BY <2>1, <1>2, <1>3, <1>6 DEF AskedFor
  <2>2. CASE o.key # New
    <3>1. GivenKept(given, given', store') /\ SendsKept(ops, ops')
      BY <2>2, <1>5, GivenStays, SendsStay
    <3> QED
      BY <2>2, <3>1, <1>6 DEF Sound, AskedFor, SendsKept, GivenKept
  <2> QED
    BY <2>1, <2>2
<1> QED
  BY <1>1, <1>3, <1>5, <1>6, <1>7, AskingStep


\* The reply to a call that has made a job: AnswersAreKept leaves it out.
LEMMA ReplyStep ==
    ASSUME Sound, UNCHANGED <<jobs, sockets, handlers>>, store' \in Stores(Begun(jobs)),
           store'.webSockets = store.webSockets,
           NEW o \in ops, o.kind \in {"send", "edit"}, o \notin ops',
           OpsAreTyped(Begun(jobs), ops'), AskedFor(store', ops', given')
    PROVE  Goes
<1>1. EntriesAreAlive(store', sockets')
  BY DEF Sound, EntriesAreAlive
<1>2. Sound'
  BY <1>1 DEF Sound
<1>3. Kept
  BY DEF Kept
<1> QED
  BY <1>2, <1>3 DEF Goes

LEMMA MessagePut ==
    ASSUME NEW L, NEW st \in Stores(L), NEW j \in Jobs
    PROVE  Mild(L, st, [st EXCEPT !.messages[j] = Message(Empty, FALSE, FALSE)])
<1>1. PICK m : m = Message(Empty, FALSE, FALSE)
  OBVIOUS
<1>2. m \in Messages
  BY <1>1, Constants DEF Message, Messages
<1>3. PICK ms : ms = [st.messages EXCEPT ![j] = m]
  OBVIOUS
<1>4. ms \in [Jobs -> Messages]
  BY <1>2, <1>3 DEF Stores
<1>5. PICK new : new = [st EXCEPT !.messages = ms]
  OBVIOUS
<1>6. new \in Stores(L) /\ new.flags = st.flags /\ new.webSockets = st.webSockets
  BY <1>4, <1>5 DEF Stores
<1>7. new = [st EXCEPT !.messages[j] = Message(Empty, FALSE, FALSE)]
  BY <1>1, <1>3, <1>5
<1> QED
  BY <1>6, <1>7 DEF Mild

LEMMA ReplySteps == ASSUME Sound, NEW o \in ops, AddReturns(o) \/ EditReturns(o) PROVE Goes
<1>1. PICK L : L = Begun(jobs)
  OBVIOUS
<1>2. PICK j : j = o.job
  OBVIOUS
<1>3. o.kind \in {"send", "edit"} /\ j # NoJob /\ (o.kind = "send" => o.key # New)
  BY <1>2 DEF AddReturns, EditReturns
<1>4. /\ L \in SUBSET Jobs /\ store \in Stores(L) /\ OpsAreTyped(L, ops \ {o})
      /\ o.key \in Chats /\ j \in L /\ j \in Jobs
  BY <1>1, <1>2, <1>3, BegunFacts, FewerOps, OpsFacts DEF OpIsTyped, Ops, Keys
<1>5. PICK put : put = [store EXCEPT !.messages[j] = Message(Empty, FALSE, FALSE)]
  OBVIOUS
<1>6. Mild(L, store, put) /\ put \in Stores(L)
  <2>1. Mild(L, store, put)
    BY <1>4, <1>5, MessagePut
  <2> QED
    BY <2>1 DEF Mild
<1>7. PICK st : st = IF o.kind = "send" THEN SetActiveChatJob(put, o.key, j, FALSE) ELSE put
  OBVIOUS
<1>8. Mild(L, store, st) /\ st \in Stores(L)
  <2>1. j \in L \cup {NoJob} /\ FALSE \in BOOLEAN
    BY <1>4
  <2>2. Mild(L, put, SetActiveChatJob(put, o.key, j, FALSE))
    BY <2>1, <1>4, <1>6, ActiveChatJobSet DEF Gentle, Quiet
  <2>3. Mild(L, store, st)
    BY <2>2, <1>6, <1>7, MildTransitive
  <2> QED
    BY <2>3 DEF Mild
<1>9. ConnectTo(st, o.key, j, ops \ {o}) /\ UNCHANGED <<jobs, sockets, handlers>> /\ StillGiven
  BY <1>2, <1>5, <1>7 DEF AddReturns, EditReturns
<1>10. /\ Gentle(L, st, store') /\ OpsAreTyped(L, ops')
       /\ ops \ {o} \subseteq ops' /\ \A n \in ops' \ (ops \ {o}) : n.kind = "connect"
  BY <1>4, <1>8, <1>9, ConnectToStep
<1>11. Mild(L, store, store')
  BY <1>8, <1>10, MildTransitive DEF Gentle, Quiet
<1>12. o \notin ops'
  BY <1>3, <1>10
<1>13. AskedFor(store', ops', given')
  <2>1. GivenKept(given, given', store') /\ SendsKept(ops, ops')
    BY <1>4, <1>9, <1>10, GivenStays, SendsStay, NewIsNoChat
  <2> QED
    BY <2>1, <1>11 DEF Sound, AskedFor, SendsKept, GivenKept, Mild
<1>14. store' \in Stores(L) /\ store'.webSockets = store.webSockets
  BY <1>11 DEF Mild
<1> QED
  BY <1>1, <1>3, <1>9, <1>10, <1>12, <1>13, <1>14, ReplyStep

LEMMA CreateReturnsStep == ASSUME Sound, NEW o \in ops, CreateReturns(o) PROVE Goes
<1>1. PICK L : L = Begun(jobs)
  OBVIOUS
<1>2. PICK j : j = o.job
  OBVIOUS
<1>3. PICK c : c = jobs[j].chat
  OBVIOUS
<1>4. o.kind = "send" /\ o.key = New /\ j # NoJob
  BY <1>2 DEF CreateReturns
<1>5. /\ L \in SUBSET Jobs /\ store \in Stores(L) /\ OpsAreTyped(L, ops \ {o})
      /\ j \in L /\ j \in Jobs /\ c \in Chats
  BY <1>1, <1>2, <1>3, <1>4, BegunFacts, FewerOps, OpsFacts DEF OpIsTyped, Ops
<1>6. PICK known : known = store.chats \cup {c}
  OBVIOUS
<1>7. PICK opened : opened = [[store EXCEPT !.chats = known] EXCEPT !.current = c]
  OBVIOUS
<1>8. opened \in Stores(L) /\ opened.webSockets = store.webSockets
  <2>1. known \in SUBSET Chats /\ c \in Keys
    BY <1>5, <1>6, NewIsNoChat DEF Stores
  <2> QED
    BY <2>1, <1>5, <1>7 DEF Stores
<1>9. PICK put : put = [opened EXCEPT !.messages[j] = Message(Empty, FALSE, FALSE)]
  OBVIOUS
<1>10. put \in Stores(L) /\ put.webSockets = store.webSockets
  BY <1>5, <1>8, <1>9, MessagePut DEF Mild
<1>11. PICK added : added = SetFlags(put, New, {})
  OBVIOUS
<1>12. added \in Stores(L) /\ added.webSockets = store.webSockets /\ added.flags[New] = {}
  <2>1. New \in Keys /\ {} \in SUBSET Flags
    BY NewIsNoChat
  <2> QED
    BY <2>1, <1>10, <1>11, KeyFlagsSet
<1>13. PICK st : st = SetActiveChatJob(added, c, j, FALSE)
  OBVIOUS
<1>14. Mild(L, added, st) /\ st \in Stores(L)
  <2>1. j \in L \cup {NoJob} /\ FALSE \in BOOLEAN
    BY <1>5
  <2>2. Gentle(L, added, st)
    BY <2>1, <1>5, <1>12, <1>13, ActiveChatJobSet
  <2> QED
    BY <2>2 DEF Gentle, Quiet, Mild
<1>15. added = [store EXCEPT !.chats = @ \cup {c}, !.current = c,
                             !.messages[j] = Message(Empty, FALSE, FALSE), !.flags[New] = {}]
  BY <1>5, <1>6, <1>7, <1>9, <1>11 DEF SetFlags, Stores
<1>16. ConnectTo(st, c, j, ops \ {o}) /\ UNCHANGED <<jobs, sockets, handlers>>
  BY <1>2, <1>3, <1>13, <1>15 DEF CreateReturns
<1>17. /\ Gentle(L, st, store') /\ OpsAreTyped(L, ops')
       /\ ops \ {o} \subseteq ops' /\ \A n \in ops' \ (ops \ {o}) : n.kind = "connect"
  BY <1>5, <1>14, <1>16, ConnectToStep
<1>18. Mild(L, added, store')
  BY <1>14, <1>17, MildTransitive DEF Gentle, Quiet
<1>19. store' \in Stores(L) /\ store'.webSockets = store.webSockets /\ store'.flags[New] = {}
  BY <1>12, <1>18 DEF Mild
<1>20. AskedFor(store', ops', given')
  BY <1>19 DEF AskedFor
<1>21. o \notin ops'
  BY <1>4, <1>17
<1> QED
  BY <1>1, <1>4, <1>16, <1>17, <1>19, <1>20, <1>21, ReplyStep


-----------------------------------------------------------------------------
(* The canister's jobs: once begun, a job is never taken back.              *)

LEMMA MoreJobs ==
    ASSUME NEW L, NEW M, L \subseteq M
    PROVE  /\ \A st \in Stores(L) : st \in Stores(M)
           /\ \A o : OpIsTyped(L, o) => OpIsTyped(M, o)
           /\ \A os : OpsAreTyped(L, os) => OpsAreTyped(M, os)
           /\ \A so, ha : SocketsAreBound(L, so, ha) => SocketsAreBound(M, so, ha)
<1>1. \A st \in Stores(L) : st \in Stores(M)
  <2>1. Actives(L) \subseteq Actives(M)
    BY DEF Actives
  <2>2. [Chats -> Actives(L)] \subseteq [Chats -> Actives(M)]
    BY <2>1
  <2> QED
    BY <2>2 DEF Stores
<1>2. \A o : OpIsTyped(L, o) => OpIsTyped(M, o)
  BY DEF OpIsTyped, Ops
<1>3. \A os : OpsAreTyped(L, os) => OpsAreTyped(M, os)
  BY <1>2 DEF OpsAreTyped
<1>4. ASSUME NEW so, NEW ha, SocketsAreBound(L, so, ha) PROVE SocketsAreBound(M, so, ha)
  <2>1. so \in SocketMaps(M)
    BY <1>4 DEF SocketsAreBound, SocketMaps
  <2> QED
    BY <1>4, <2>1 DEF SocketsAreBound
<1> QED
  BY <1>1, <1>2, <1>3, <1>4

LEMMA JobEndsStep ==
    ASSUME Sound, NEW j \in Jobs, NEW status \in {"done", "failed"}, JobEnds(j, status)
    PROVE  Goes
<1>1. JobsAreTyped(jobs) /\ UNCHANGED <<store, sockets, handlers, ops>> /\ StillGiven
  BY DEF Sound, JobEnds
<1>2. jobs[j].status = "running" /\ jobs' = [jobs EXCEPT ![j].status = status]
  BY DEF JobEnds
<1>3. PICK old : old = jobs[j]
  OBVIOUS
<1>4. PICK new : new = [old EXCEPT !.status = status]
  OBVIOUS
<1>5. old \in [chat : Keys, status : Statuses, text : Texts] /\ old.chat \in Chats
  BY <1>1, <1>2, <1>3 DEF JobsAreTyped, JobMaps, Begun
<1>6. /\ new \in [chat : Keys, status : Statuses, text : Texts] /\ new.chat = old.chat /\ new.status = status
  BY <1>4, <1>5 DEF Statuses
<1>7. jobs' = [jobs EXCEPT ![j] = new] /\ jobs \in JobMaps
  BY <1>1, <1>2, <1>3, <1>4 DEF JobsAreTyped
<1>8. jobs' \in JobMaps /\ Begun(jobs') = Begun(jobs)
  BY <1>2, <1>6, <1>7 DEF JobMaps, Begun
<1>9. JobsAreTyped(jobs')
  BY <1>1, <1>5, <1>6, <1>7, <1>8 DEF JobsAreTyped, JobMaps, Begun
<1>10. AskedFor(store', ops', given')
  BY <1>1, GivenStays DEF Sound, AskedFor, GivenKept
<1>11. Sound'
  BY <1>1, <1>8, <1>9, <1>10 DEF Sound
<1>12. AnswersKept(store, store)
  BY GentleSame DEF Sound, Gentle
<1>13. Kept
  BY <1>1, <1>12 DEF Kept, AnswersKept
<1> QED
  BY <1>11, <1>13 DEF Goes

LEMMA CanisterStartsStep ==
    ASSUME Sound, NEW o \in ops, NEW c \in Chats, CanisterStarts(o, c)
    PROVE  Goes
<1>1. JobsAreTyped(jobs) /\ UNCHANGED <<store, sockets, handlers>> /\ StillGiven
  BY DEF Sound, CanisterStarts
<1>2. PICK j \in Jobs, text \in {Full, Empty} :
        /\ jobs[j].status = "none"
        /\ jobs' = [jobs EXCEPT ![j] = [chat |-> c, status |-> "running", text |-> text]]
        /\ ops' = (ops \ {o}) \cup {[o EXCEPT !.job = j]}
  BY DEF CanisterStarts
<1>3. PICK new : new = [chat |-> c, status |-> "running", text |-> text]
  OBVIOUS
<1>4. new \in [chat : Keys, status : Statuses, text : Texts] /\ new.chat = c /\ new.status # "none"
  BY <1>3, NewIsNoChat DEF Statuses, Texts
<1>5. PICK L : L = Begun(jobs)
  OBVIOUS
<1>6. PICK M : M = Begun(jobs')
  OBVIOUS
<1>7. jobs \in JobMaps /\ jobs' = [jobs EXCEPT ![j] = new]
  BY <1>1, <1>2, <1>3 DEF JobsAreTyped
<1>8. jobs' \in JobMaps /\ L \subseteq M /\ j \in M /\ \A i \in M : i \in L \/ i = j
  BY <1>4, <1>5, <1>6, <1>7 DEF JobMaps, Begun
<1>9. JobsAreTyped(jobs')
  BY <1>1, <1>4, <1>5, <1>6, <1>7, <1>8 DEF JobsAreTyped, JobMaps, Begun
<1>10. /\ store' \in Stores(M) /\ OpsAreTyped(M, ops) /\ SocketsAreBound(M, sockets', handlers')
  BY <1>1, <1>5, <1>8, MoreJobs DEF Sound
<1>11. PICK n : n = [o EXCEPT !.job = j]
  OBVIOUS
<1>12. OpIsTyped(M, o) /\ o.kind \in {"send", "edit"}
  BY <1>10 DEF OpsAreTyped, CanisterStarts
<1>13. n \in Ops(M) /\ n.kind = o.kind /\ n.key = o.key
  BY <1>8, <1>11, <1>12 DEF OpIsTyped, Ops
<1>14. OpsAreTyped(M, ops')
  <2>1. OpIsTyped(M, n)
    BY <1>12, <1>13 DEF OpIsTyped
  <2> QED
    BY <2>1, <1>2, <1>10, <1>11 DEF OpsAreTyped
<1>15. AskedFor(store', ops', given')
  <2>1. SendsKept(ops, ops')
    BY <1>2, <1>11, <1>13 DEF SendsKept
  <2> QED
    BY <2>1, <1>1, GivenStays DEF Sound, AskedFor, GivenKept, SendsKept
<1>16. Sound'
  BY <1>1, <1>6, <1>9, <1>10, <1>14, <1>15 DEF Sound
<1>17. AnswersKept(store, store)
  BY GentleSame DEF Sound, Gentle
<1>18. Kept
  BY <1>1, <1>17 DEF Kept, AnswersKept
<1> QED
  BY <1>16, <1>18 DEF Goes

LEMMA DeleteChatStep == ASSUME Sound, NEW c \in Chats, DeleteChat(c) PROVE Goes
<1>1. OpsAreTyped(Begun(jobs), ops') /\ SendsKept(ops, ops')
  BY OpAdded, NewIsNoChat DEF Sound, OpKinds, DeleteChat
<1> QED
  BY <1>1, OnlyOpsStep DEF DeleteChat

LEMMA DeleteFailsStep == ASSUME Sound, NEW o \in ops, DeleteFails(o) PROVE Goes
<1>1. OpsAreTyped(Begun(jobs), ops') /\ SendsKept(ops, ops')
  BY FewerOps, SendsStay DEF Sound, DeleteFails
<1> QED
  BY <1>1, OnlyOpsStep DEF DeleteFails

LEMMA CanisterDeletesStep == ASSUME Sound, NEW o \in ops, CanisterDeletes(o) PROVE Goes
<1>1. PICK L : L = Begun(jobs)
  OBVIOUS
<1>2. PICK M : M = Begun(jobs')
  OBVIOUS
<1>3. JobsAreTyped(jobs) /\ store \in Stores(L) /\ OpsAreTyped(L, ops) /\ SocketsAreBound(L, sockets, handlers)
  BY <1>1 DEF Sound
<1>4. /\ jobs' = [j \in Jobs |-> IF jobs[j].chat = o.key THEN [jobs[j] EXCEPT !.status = "gone"] ELSE jobs[j]]
      /\ UNCHANGED <<store, sockets, handlers>> /\ StillGiven /\ o.kind = "delete"
  BY DEF CanisterDeletes
<1>5. OpIsTyped(L, o) /\ o.key \in Chats
  BY <1>1, <1>4, OpsFacts DEF OpIsTyped
<1>6. ASSUME NEW j \in Jobs
      PROVE  /\ jobs'[j] \in [chat : Keys, status : Statuses, text : Texts]
             /\ jobs'[j].chat = jobs[j].chat
             /\ jobs[j].status # "none" => jobs'[j].status # "none"
             /\ jobs'[j].status # "none" => jobs[j].status # "none" \/ jobs[j].chat = o.key
  <2>1. PICK old : old = jobs[j]
    OBVIOUS
  <2>2. old \in [chat : Keys, status : Statuses, text : Texts]
    BY <2>1, <1>3 DEF JobsAreTyped, JobMaps
  <2>3. jobs'[j] = IF old.chat = o.key THEN [old EXCEPT !.status = "gone"] ELSE old
    BY <2>1, <1>4
  <2> QED
    BY <2>1, <2>2, <2>3 DEF Statuses
<1>7. jobs' \in JobMaps
  BY <1>4, <1>6 DEF JobMaps
<1>8. L \subseteq M
  BY <1>1, <1>2, <1>6 DEF Begun
<1>9. JobsAreTyped(jobs')
  BY <1>3, <1>5, <1>6, <1>7 DEF JobsAreTyped, Begun
<1>10. PICK n : n = [o EXCEPT !.kind = "deleted"]
  OBVIOUS
<1>11. n \in Ops(L) /\ n.kind = "deleted" /\ n.key = o.key
  BY <1>5, <1>10 DEF OpIsTyped, Ops, OpKinds
<1>12. OpIsTyped(L, n)
  BY <1>5, <1>11 DEF OpIsTyped
<1>13. OpsAreTyped(L, ops') /\ SendsKept(ops, ops')
  BY <1>3, <1>4, <1>10, <1>12, OpReplaced DEF CanisterDeletes
<1>14. /\ store' \in Stores(M) /\ OpsAreTyped(M, ops') /\ SocketsAreBound(M, sockets', handlers')
  BY <1>3, <1>4, <1>8, <1>13, MoreJobs
<1>15. AskedFor(store', ops', given')
  BY <1>4, <1>13, GivenStays DEF Sound, AskedFor, GivenKept, SendsKept
<1>16. Sound'
  BY <1>2, <1>4, <1>9, <1>14, <1>15 DEF Sound
<1>17. AnswersKept(store, store)
  BY <1>3, GentleSame DEF Gentle
<1>18. Kept
  BY <1>4, <1>17 DEF Kept, AnswersKept
<1> QED
  BY <1>16, <1>18 DEF Goes

LEMMA DeleteReturnsStep == ASSUME Sound, NEW o \in ops, DeleteReturns(o) PROVE Goes
<1>1. PICK L : L = Begun(jobs)
  OBVIOUS
<1>2. store \in Stores(L) /\ OpsAreTyped(L, ops)
  BY <1>1 DEF Sound
<1>3. UNCHANGED <<jobs, sockets, handlers>> /\ StillGiven /\ o.kind = "deleted"
  BY DEF DeleteReturns
<1>4. PICK c \in Chats : c = o.key
  BY <1>1, <1>3, OpsFacts DEF OpIsTyped
<1>5. PICK ms : ms = [j \in Jobs |-> IF jobs[j].chat = c THEN NoMessage ELSE store.messages[j]]
  OBVIOUS
<1>6. ms \in [Jobs -> Messages]
  BY <1>2, <1>5, Constants DEF Stores
<1>7. PICK left : left = store.chats \ {c}
  OBVIOUS
<1>8. PICK mid : mid = [[store EXCEPT !.chats = left] EXCEPT !.messages = ms]
  OBVIOUS
<1>9. /\ mid \in Stores(L) /\ mid.messages = ms /\ mid.webSockets = store.webSockets
      /\ mid.flags = store.flags /\ mid.active = store.active
  BY <1>2, <1>6, <1>7, <1>8 DEF Stores
<1>10. PICK fin : fin = [mid EXCEPT !.active[c] = NoActive, !.flags[c] = {}]
  OBVIOUS
<1>11. store' = fin
  <2>1. store' = [store EXCEPT !.chats = left, !.flags[c] = {}, !.active[c] = NoActive, !.messages = ms]
    BY <1>4, <1>5, <1>7 DEF DeleteReturns
  <2> QED
    BY <2>1, <1>2, <1>8, <1>10 DEF Stores
<1>12. Gentle(L, mid, fin)
  <2>1. NoActive \in Actives(L) /\ {} \in SUBSET Flags
    BY Constants
  <2> QED
    BY <2>1, <1>9, <1>10, ActiveSet
<1>13. Mild(L, store, store')
  BY <1>2, <1>9, <1>11, <1>12 DEF Gentle, Quiet, Mild
<1>14. OpsAreTyped(L, ops') /\ SendsKept(ops, ops')
  <2>1. OpsAreTyped(L, ops \ {o}) /\ SendsKept(ops, ops \ {o})
    BY <1>2, <1>3, FewerOps, SendsStay
  <2>2. /\ OpsAreTyped(L, (ops \ {o}) \cup {Op("listChats", New, NoJob)})
        /\ SendsKept(ops \ {o}, (ops \ {o}) \cup {Op("listChats", New, NoJob)})
    BY <2>1, OpAdded, NewIsNoChat DEF OpKinds
  <2> QED
    BY <2>1, <2>2 DEF DeleteReturns, SendsKept
<1>15. Sound'
  <2>1. SocketsAdvance(L, sockets, sockets') /\ HandlersAdvance(handlers, handlers')
    BY <1>1, <1>3, Untouched DEF Sound
  <2> QED
    BY <1>1, <1>3, <1>13, <1>14, <2>1, GivenStays, MildStep
<1>16. Kept
  <2>1. store'.messages = ms
    BY <1>2, <1>8, <1>10, <1>11 DEF Stores
  <2>2. \A j \in Jobs : ms[j] = NoMessage \/ ms[j] = store.messages[j]
    BY <1>5
  <2>3. ~NoMessage.here
    BY DEF NoMessage
  <2>4. \A j \in Jobs : store.messages[j].content \in 0..2
    BY <1>2 DEF Stores, Messages
  <2> QED
    BY <2>1, <2>2, <2>3, <2>4 DEF Kept
<1> QED
  BY <1>15, <1>16 DEF Goes


-----------------------------------------------------------------------------
(* The sockets and their handlers.                                          *)

\* A step of a stream: it takes no error back, and shortens or reopens an
\* answer only if it moves the handlers.
LEMMA StreamStep ==
    ASSUME Sound, UNCHANGED <<jobs, ops>>, Quiet(Begun(jobs), store, store'),
           handlers' = handlers => AnswersKept(store, store'),
           SocketsAdvance(Begun(jobs), sockets, sockets'), HandlersAdvance(handlers, handlers'), StillGiven
    PROVE  Goes
<1>1. OpsAreTyped(Begun(jobs), ops') /\ SendsKept(ops, ops') /\ GivenKept(given, given', store')
  BY SendsStay, GivenStays DEF Sound
<1>2. Sound'
  BY <1>1, MildStep DEF Quiet
<1>3. Kept
  BY DEF Kept, Quiet, ErrorsKept, AnswersKept
<1> QED
  BY <1>2, <1>3 DEF Goes

LEMMA SocketMoves ==
    ASSUME NEW L, NEW so \in SocketMaps(L), NEW s \in Sockets, NEW state \in {"connecting", "open", "closing"},
           so[s].state \in {"connecting", "open"}
    PROVE  SocketsAdvance(L, so, [so EXCEPT ![s].state = state])
<1>1. PICK old : old = so[s]
  OBVIOUS
<1>2. PICK one : one = [old EXCEPT !.state = state]
  OBVIOUS
<1>3. PICK new : new = [so EXCEPT ![s] = one]
  OBVIOUS
<1>4. /\ one \in [job : L \cup {NoJob}, state : States, greeting : BOOLEAN, handler : Handlers \cup {0}, sent : Packets]
      /\ one.job = old.job /\ one.handler = old.handler /\ one.state = state
  BY <1>1, <1>2 DEF SocketMaps, States
<1>5. new \in SocketMaps(L) /\ new[s] = one /\ \A r \in Sockets \ {s} : new[r] = so[r]
  BY <1>3, <1>4 DEF SocketMaps
<1>6. new = [so EXCEPT ![s].state = state]
  BY <1>1, <1>2, <1>3
<1>7. SocketsAdvance(L, so, new)
  BY <1>1, <1>4, <1>5 DEF SocketsAdvance, SocketsMove
<1> QED
  BY <1>6, <1>7

LEMMA SocketsClose ==
    ASSUME NEW L, sockets \in SocketMaps(L), NEW s \in Sockets
    PROVE  SocketsAdvance(L, sockets, Closing(s))
<1>1. CASE sockets[s].state \in {"connecting", "open"}
  <2>1. Closing(s) = [sockets EXCEPT ![s].state = "closing"]
    BY <1>1 DEF Closing
  <2>2. PICK so : so = sockets
    OBVIOUS
  <2>3. so[s].state \in {"connecting", "open"} /\ so \in SocketMaps(L)
    BY <1>1, <2>2
  <2>4. SocketsAdvance(L, so, [so EXCEPT ![s].state = "closing"])
    BY <2>3, SocketMoves
  <2> QED
    BY <2>1, <2>2, <2>4
<1>2. CASE sockets[s].state \notin {"connecting", "open"}
  <2>1. Closing(s) = sockets
    BY <1>2 DEF Closing, SocketMaps
  <2> QED
    BY <2>1 DEF SocketsAdvance, SocketsMove
<1> QED
  BY <1>1, <1>2

\* The handlers of one socket change.
LEMMA HandlerMoves ==
    ASSUME NEW ha \in HandlerMaps, NEW h \in Handlers, NEW one \in HandlerRecords,
           one.sock = ha[h].sock, ha[h].sock # 0
    PROVE  HandlersAdvance(ha, [ha EXCEPT ![h] = one])
BY DEF HandlersAdvance, HandlerMaps

\* A socket that lives, and the handlers and the job that belong to it.
LEMMA LiveSocket ==
    ASSUME Sound, NEW s \in Sockets, sockets[s].state # "none"
    PROVE  /\ sockets[s].job \in Begun(jobs) /\ jobs[sockets[s].job].chat \in Chats
           /\ sockets[s].handler \in Handlers /\ handlers[sockets[s].handler].sock # 0
BY BegunFacts DEF Sound, SocketsAreBound

LEMMA LiveHandler ==
    ASSUME Sound, NEW h \in Handlers, handlers[h].sock # 0
    PROVE  /\ handlers[h] \in HandlerRecords /\ handlers[h].sock \in Sockets
           /\ JobOf(h) \in Begun(jobs) /\ jobs[JobOf(h)].chat \in Chats
<1>1. handlers[h] \in HandlerRecords /\ handlers[h].sock \in Sockets
  BY DEF Sound, SocketsAreBound, HandlerMaps, HandlerRecords
<1>2. sockets[handlers[h].sock].state # "none"
  BY DEF Sound, SocketsAreBound
<1> QED
  BY <1>1, <1>2, LiveSocket DEF JobOf

LEMMA NodeClosesStep == ASSUME Sound, NEW s \in Sockets, NodeCloses(s) PROVE Goes
<1>1. PICK L : L = Begun(jobs)
  OBVIOUS
<1>2. store \in Stores(L) /\ sockets \in SocketMaps(L) /\ handlers \in HandlerMaps
  BY <1>1 DEF Sound, SocketsAreBound
<1>3. Gentle(L, store, store')
  BY <1>2, GentleSame DEF NodeCloses
<1>4. SocketsAdvance(L, sockets, sockets')
  BY <1>2, SocketMoves DEF NodeCloses
<1>5. HandlersAdvance(handlers, handlers')
  BY <1>2 DEF HandlersAdvance, NodeCloses
<1> QED
  BY <1>1, <1>3, <1>4, <1>5, StreamStep DEF NodeCloses, Gentle

\* A socket waits for its handshake, or no longer does.
LEMMA SocketGreets ==
    ASSUME NEW L, NEW so \in SocketMaps(L), NEW s \in Sockets, NEW b \in BOOLEAN, NEW state \in States,
           so[s].state # "none",
           state = so[s].state \/ (so[s].state \in {"connecting", "open"} /\ state \in {"open", "closing"})
    PROVE  SocketsAdvance(L, so, [so EXCEPT ![s].state = state, ![s].greeting = b])
<1>1. PICK old : old = so[s]
  OBVIOUS
<1>2. PICK one : one = [old EXCEPT !.state = state, !.greeting = b]
  OBVIOUS
<1>3. PICK new : new = [so EXCEPT ![s] = one]
  OBVIOUS
<1>4. /\ one \in [job : L \cup {NoJob}, state : States, greeting : BOOLEAN, handler : Handlers \cup {0},
                  sent : Packets]
      /\ one.job = old.job /\ one.handler = old.handler /\ one.state = state
  BY <1>1, <1>2 DEF SocketMaps
<1>5. new \in SocketMaps(L) /\ new[s] = one /\ \A r \in Sockets \ {s} : new[r] = so[r]
  BY <1>3, <1>4 DEF SocketMaps
<1>6. new = [so EXCEPT ![s].state = state, ![s].greeting = b]
  BY <1>1, <1>2, <1>3
<1>7. SocketsAdvance(L, so, new)
  BY <1>1, <1>4, <1>5 DEF SocketsAdvance, SocketsMove
<1> QED
  BY <1>6, <1>7

LEMMA OnOpenStep == ASSUME Sound, NEW s \in Sockets, OnOpen(s) PROVE Goes
<1>1. PICK L : L = Begun(jobs)
  OBVIOUS
<1>2. store \in Stores(L) /\ sockets \in SocketMaps(L) /\ handlers \in HandlerMaps
  BY <1>1 DEF Sound, SocketsAreBound
<1>3. Gentle(L, store, store')
  BY <1>2, GentleSame DEF OnOpen
<1>4. SocketsAdvance(L, sockets, sockets')
  <2>1. PICK so : so = sockets
    OBVIOUS
  <2>2. SocketsAdvance(L, so, [so EXCEPT ![s].state = "open", ![s].greeting = TRUE])
    BY <1>2, <2>1, SocketGreets DEF OnOpen, States
  <2> QED
    BY <2>1, <2>2 DEF OnOpen
<1>5. HandlersAdvance(handlers, handlers')
  BY <1>2 DEF HandlersAdvance, OnOpen
<1> QED
  BY <1>1, <1>3, <1>4, <1>5, StreamStep DEF OnOpen, Gentle

\* A socket that waits for its handshake was made.
LEMMA GreetedSocket ==
    ASSUME Sound, NEW s \in Sockets, sockets[s].greeting
    PROVE  /\ sockets[s].state # "none" /\ sockets[s].state \in States
           /\ sockets[s].job \in Begun(jobs) /\ ChatOf(s) \in Chats
<1>1. sockets[s].state # "none" /\ sockets[s].state \in States
  BY DEF Sound, SocketsAreBound, SocketMaps
<1> QED
  BY <1>1, LiveSocket DEF ChatOf

LEMMA HandshakeSentStep == ASSUME Sound, NEW s \in Sockets, HandshakeSent(s) PROVE Goes
<1>1. PICK L : L = Begun(jobs)
  OBVIOUS
<1>2. store \in Stores(L) /\ sockets \in SocketMaps(L) /\ handlers \in HandlerMaps
  BY <1>1 DEF Sound, SocketsAreBound
<1>3. /\ sockets[s].greeting /\ sockets' = [sockets EXCEPT ![s].greeting = FALSE]
      /\ store' = store \/ store' = SetFlags(store, ChatOf(s), {"generating", "typing"})
      /\ UNCHANGED <<jobs, handlers, ops>> /\ StillGiven
  BY DEF HandshakeSent
<1>4. ChatOf(s) \in Chats /\ sockets[s].state # "none" /\ sockets[s].state \in States
  BY <1>3, GreetedSocket
<1>5. {"generating", "typing"} \in SUBSET Flags
  BY DEF Flags
<1>6. Gentle(L, store, store')
  BY <1>2, <1>3, <1>4, <1>5, GentleSame, FlagsSet
<1>7. SocketsAdvance(L, sockets, sockets')
  <2>1. PICK so : so = sockets
    OBVIOUS
  <2>2. PICK state : state = so[s].state
    OBVIOUS
  <2>a. so \in SocketMaps(L) /\ state \in States /\ so[s].state # "none" /\ FALSE \in BOOLEAN
    BY <1>2, <1>4, <2>1, <2>2
  <2>b. state = so[s].state \/ (so[s].state \in {"connecting", "open"} /\ state \in {"open", "closing"})
    BY <2>2
  <2>3. SocketsAdvance(L, so, [so EXCEPT ![s].state = state, ![s].greeting = FALSE])
    BY <2>a, <2>b, SocketGreets
  <2>4. [so EXCEPT ![s].state = state, ![s].greeting = FALSE] = [so EXCEPT ![s].greeting = FALSE]
    BY <1>2, <2>1, <2>2 DEF SocketMaps
  <2> QED
    BY <1>3, <2>1, <2>3, <2>4
<1>8. HandlersAdvance(handlers, handlers')
  BY <1>2, <1>3 DEF HandlersAdvance
<1> QED
  BY <1>1, <1>3, <1>6, <1>7, <1>8, StreamStep DEF Gentle

LEMMA HandshakeFailsStep == ASSUME Sound, NEW s \in Sockets, HandshakeFails(s) PROVE Goes
<1>1. PICK L : L = Begun(jobs)
  OBVIOUS
<1>2. /\ store \in Stores(L) /\ sockets \in SocketMaps(L) /\ handlers \in HandlerMaps
      /\ L \in SUBSET Jobs
  BY <1>1 DEF Sound, SocketsAreBound, Begun
<1>3. PICK state : state = IF sockets[s].state = "open" THEN "closing" ELSE sockets[s].state
  OBVIOUS
<1>4. /\ sockets[s].greeting
      /\ sockets' = [sockets EXCEPT ![s].greeting = FALSE,
                                    ![s].state = IF @ = "open" THEN "closing" ELSE @]
      /\ store' = HandleWebSocketError(store, ChatOf(s), sockets[s].job)
      /\ UNCHANGED <<jobs, handlers, ops>> /\ StillGiven
  BY DEF HandshakeFails
<1>5. /\ ChatOf(s) \in Chats /\ sockets[s].job \in L
      /\ sockets[s].state # "none" /\ sockets[s].state \in States
  BY <1>1, <1>4, GreetedSocket
<1>6. Gentle(L, store, store')
  BY <1>2, <1>4, <1>5, ErrorHandled
<1>7. SocketsAdvance(L, sockets, sockets')
  <2>1. PICK so : so = sockets
    OBVIOUS
  <2>2. state \in States /\ (state = so[s].state \/ (so[s].state = "open" /\ state = "closing"))
    <3>1. so[s].state = sockets[s].state /\ so[s].state \in States
      BY <1>5, <2>1
    <3>2. CASE sockets[s].state = "open"
      BY <3>1, <3>2, <1>3 DEF States
    <3>3. CASE sockets[s].state # "open"
      BY <3>1, <3>3, <1>3
    <3> QED
      BY <3>2, <3>3
  <2>a. so \in SocketMaps(L) /\ so[s].state # "none" /\ FALSE \in BOOLEAN
    BY <1>2, <1>5, <2>1
  <2>b. state = so[s].state \/ (so[s].state \in {"connecting", "open"} /\ state \in {"open", "closing"})
    BY <2>2
  <2>3. SocketsAdvance(L, so, [so EXCEPT ![s].state = state, ![s].greeting = FALSE])
    BY <2>2, <2>a, <2>b, SocketGreets
  <2>4. [so EXCEPT ![s].state = state, ![s].greeting = FALSE] = sockets'
    BY <1>2, <1>3, <1>4, <2>1 DEF SocketMaps
  <2> QED
    BY <2>1, <2>3, <2>4
<1>8. HandlersAdvance(handlers, handlers')
  BY <1>2, <1>4 DEF HandlersAdvance
<1> QED
  BY <1>1, <1>4, <1>6, <1>7, <1>8, StreamStep DEF Gentle

LEMMA FinalsTyped == \A p \in Finals \cup {Packet(Part, FALSE, FALSE)} : p \in Packets
<1>1. \A t \in 0..2, f \in BOOLEAN, e \in BOOLEAN : Packet(t, f, e) \in Packets
  BY DEF Packet, Packets
<1>2. Empty \in 0..2 /\ Part \in 0..2 /\ Full \in 0..2
  BY Constants
<1> QED
  BY <1>1, <1>2 DEF Finals

LEMMA NodeSendsStep ==
    ASSUME Sound, NEW s \in Sockets, NEW p \in Finals \cup {Packet(Part, FALSE, FALSE)}, NodeSends(s, p)
    PROVE  Goes
<1>1. PICK L : L = Begun(jobs)
  OBVIOUS
<1>2. store \in Stores(L) /\ sockets \in SocketMaps(L) /\ handlers \in HandlerMaps /\ p \in Packets
  BY <1>1, FinalsTyped DEF Sound, SocketsAreBound
<1>3. /\ sockets[s].state = "open" /\ sockets' = [sockets EXCEPT ![s].sent = p]
      /\ handlers' = [handlers EXCEPT ![sockets[s].handler].decrypting = Append(@, p)]
      /\ UNCHANGED <<jobs, store, ops>> /\ StillGiven
  BY DEF NodeSends
<1>4. Gentle(L, store, store')
  BY <1>2, <1>3, GentleSame
<1>5. SocketsAdvance(L, sockets, sockets')
  <2>1. PICK old : old = sockets[s]
    OBVIOUS
  <2>2. PICK one : one = [old EXCEPT !.sent = p]
    OBVIOUS
  <2>3. /\ one \in [job : L \cup {NoJob}, state : States, greeting : BOOLEAN, handler : Handlers \cup {0}, sent : Packets]
        /\ one.job = old.job /\ one.handler = old.handler /\ one.state = old.state
        /\ one.greeting = old.greeting
    BY <1>2, <2>1, <2>2 DEF SocketMaps
  <2>4. sockets' = [sockets EXCEPT ![s] = one]
    BY <1>3, <2>1, <2>2
  <2> QED
    BY <1>2, <2>1, <2>3, <2>4 DEF SocketsAdvance, SocketsMove, SocketMaps
<1>6. HandlersAdvance(handlers, handlers')
  <2>1. PICK h : h = sockets[s].handler
    OBVIOUS
  <2>2. h \in Handlers /\ handlers[h].sock # 0
    BY <1>3, <2>1, LiveSocket
  <2>3. PICK old : old = handlers[h]
    OBVIOUS
  <2>4. PICK more : more = Append(old.decrypting, p)
    OBVIOUS
  <2>5. old \in HandlerRecords
    BY <1>2, <2>2, <2>3 DEF HandlerMaps
  <2>6. more \in Seq(Packets)
    BY <1>2, <2>4, <2>5 DEF HandlerRecords
  <2>7. PICK one : one = [old EXCEPT !.decrypting = more]
    OBVIOUS
  <2>8. one \in HandlerRecords /\ one.sock = old.sock
    BY <2>5, <2>6, <2>7 DEF HandlerRecords
  <2>9. handlers' = [handlers EXCEPT ![h] = one]
    BY <1>3, <2>1, <2>3, <2>4, <2>7
  <2> QED
    BY <1>2, <2>2, <2>3, <2>8, <2>9, HandlerMoves
<1> QED
  BY <1>1, <1>3, <1>4, <1>5, <1>6, StreamStep DEF Gentle


LEMMA DecryptedStep == ASSUME Sound, NEW h \in Handlers, Decrypted(h) PROVE Goes
<1>1. PICK L : L = Begun(jobs)
  OBVIOUS
<1>2. store \in Stores(L) /\ sockets \in SocketMaps(L) /\ handlers \in HandlerMaps
  BY <1>1 DEF Sound, SocketsAreBound
<1>3. PICK old : old = handlers[h]
  OBVIOUS
<1>4. old.decrypting # <<>> /\ old \in HandlerRecords
  BY <1>2, <1>3 DEF Decrypted, HandlerMaps
<1>5. old.sock # 0
  BY <1>3, <1>4 DEF Sound, SocketsAreBound, NoHandler
<1>6. PICK p : p = Head(old.decrypting)
  OBVIOUS
<1>7. PICK rest : rest = Tail(old.decrypting)
  OBVIOUS
<1>8. p \in Packets /\ rest \in Seq(Packets)
  BY <1>4, <1>6, <1>7 DEF HandlerRecords
<1>9. PICK final : final = (old.final \/ p.final)
  OBVIOUS
<1>10. PICK frame : frame = IF old.frame = "none" THEN "scheduled" ELSE old.frame
  OBVIOUS
<1>11. final \in BOOLEAN /\ frame \in {"none", "scheduled", "cancelled"}
  BY <1>4, <1>8, <1>9, <1>10 DEF HandlerRecords, Packets
<1>12. PICK one : one = [old EXCEPT !.decrypting = rest, !.latest = p, !.some = TRUE,
                                    !.final = final, !.frame = frame]
  OBVIOUS
<1>13. one \in HandlerRecords /\ one.sock = old.sock
  BY <1>4, <1>8, <1>11, <1>12 DEF HandlerRecords
<1>14. handlers' = [handlers EXCEPT ![h] = one]
  <2>1. handlers' = [handlers EXCEPT ![h].decrypting = Tail(@), ![h].latest = p, ![h].some = TRUE,
                                     ![h].final = @ \/ p.final,
                                     ![h].frame = IF @ = "none" THEN "scheduled" ELSE @]
    BY <1>3, <1>6 DEF Decrypted
  <2> QED
    BY <2>1, <1>2, <1>3, <1>4, <1>7, <1>9, <1>10, <1>12 DEF HandlerMaps, HandlerRecords
<1>15. HandlersAdvance(handlers, handlers')
  BY <1>2, <1>3, <1>5, <1>13, <1>14, HandlerMoves
<1>16. Gentle(L, store, store') /\ SocketsAdvance(L, sockets, sockets')
  BY <1>2, GentleSame DEF Decrypted, SocketsAdvance, SocketsMove
<1> QED
  BY <1>1, <1>15, <1>16, StreamStep DEF Decrypted, Gentle

LEMMA DecryptFailsStep == ASSUME Sound, NEW h \in Handlers, DecryptFails(h) PROVE Goes
<1>1. PICK L : L = Begun(jobs)
  OBVIOUS
<1>2. store \in Stores(L) /\ sockets \in SocketMaps(L) /\ handlers \in HandlerMaps /\ L \in SUBSET Jobs
  BY <1>1, BegunFacts DEF Sound, SocketsAreBound
<1>3. PICK old : old = handlers[h]
  OBVIOUS
<1>4. old.decrypting # <<>> /\ old \in HandlerRecords
  BY <1>2, <1>3 DEF DecryptFails, HandlerMaps
<1>5. old.sock # 0
  BY <1>3, <1>4 DEF Sound, SocketsAreBound, NoHandler
<1>6. JobOf(h) \in L /\ jobs[JobOf(h)].chat \in Chats /\ handlers[h].sock \in Sockets
  BY <1>1, <1>3, <1>5, LiveHandler
<1>7. Gentle(L, store, store')
  BY <1>2, <1>6, ErrorHandled DEF DecryptFails
<1>8. SocketsAdvance(L, sockets, sockets')
  BY <1>2, <1>6, SocketsClose DEF DecryptFails
<1>9. HandlersAdvance(handlers, handlers')
  <2>1. PICK rest : rest = Tail(old.decrypting)
    OBVIOUS
  <2>2. PICK frame : frame = IF old.frame = "none" THEN old.frame ELSE "cancelled"
    OBVIOUS
  <2>3. rest \in Seq(Packets) /\ frame \in {"none", "scheduled", "cancelled"}
    BY <1>4, <2>1, <2>2 DEF HandlerRecords
  <2>4. PICK one : one = [old EXCEPT !.decrypting = rest, !.frame = frame]
    OBVIOUS
  <2>5. one \in HandlerRecords /\ one.sock = old.sock
    BY <1>4, <2>3, <2>4 DEF HandlerRecords
  <2>6. handlers' = [handlers EXCEPT ![h] = one]
    BY <1>2, <1>3, <1>4, <2>1, <2>2, <2>4 DEF DecryptFails, HandlerMaps, HandlerRecords
  <2> QED
    BY <1>2, <1>3, <1>5, <2>5, <2>6, HandlerMoves
<1> QED
  BY <1>1, <1>7, <1>8, <1>9, StreamStep DEF DecryptFails, Gentle

LEMMA FlushedFacts ==
    ASSUME handlers \in HandlerMaps, NEW h \in Handlers
    PROVE  /\ Flushed(h) \in HandlerRecords /\ Flushed(h).sock = handlers[h].sock
           /\ Flushed(h).frame = "none" /\ ~Flushed(h).some
           /\ Cancelled(h) \in HandlerRecords /\ Cancelled(h).sock = handlers[h].sock /\ ~Cancelled(h).some
<1>1. PICK old : old = handlers[h]
  OBVIOUS
<1>2. old \in HandlerRecords
  BY <1>1 DEF HandlerMaps
<1>3. PICK none : none = NoPacket
  OBVIOUS
<1>4. none \in Packets
  BY <1>3, Constants
<1>5. PICK one : one = [old EXCEPT !.latest = none, !.some = FALSE, !.frame = "none"]
  OBVIOUS
<1>6. Flushed(h) = one
  BY <1>1, <1>3, <1>5 DEF Flushed
<1>7. one \in HandlerRecords /\ one.sock = old.sock /\ one.frame = "none" /\ ~one.some
  BY <1>2, <1>4, <1>5 DEF HandlerRecords
<1>8. PICK frame : frame = IF old.frame = "none" THEN old.frame ELSE "cancelled"
  OBVIOUS
<1>9. frame \in {"none", "scheduled", "cancelled"}
  BY <1>2, <1>8 DEF HandlerRecords
<1>10. PICK two : two = [old EXCEPT !.frame = frame]
  OBVIOUS
<1>11. two \in HandlerRecords /\ two.sock = old.sock /\ two.some = old.some
  BY <1>2, <1>9, <1>10 DEF HandlerRecords
<1>12. Cancelled(h) = IF old.some THEN one ELSE two
  BY <1>1, <1>6, <1>8, <1>10 DEF Cancelled
<1> QED
  BY <1>1, <1>6, <1>7, <1>11, <1>12

LEMMA Processed ==
    ASSUME Sound, NEW h \in Handlers, handlers[h].sock # 0, NEW st \in Stores(Begun(jobs))
    PROVE  Quiet(Begun(jobs), st, Process(st, h)) /\ Quiet(Begun(jobs), st, AfterCancel(st, h))
<1>1. Begun(jobs) \in SUBSET Jobs /\ JobOf(h) \in Begun(jobs) /\ jobs[JobOf(h)].chat \in Chats
  BY LiveHandler, BegunFacts
<1>2. handlers[h].latest \in Packets
  BY LiveHandler DEF HandlerRecords
<1>3. Quiet(Begun(jobs), st, Process(st, h))
  BY <1>1, <1>2, PacketProcessed DEF Process
<1> QED
  BY <1>3, GentleSame DEF AfterCancel, Gentle


LEMMA FrameFiresStep == ASSUME Sound, NEW h \in Handlers, FrameFires(h) PROVE Goes
<1>1. PICK L : L = Begun(jobs)
  OBVIOUS
<1>2. store \in Stores(L) /\ sockets \in SocketMaps(L) /\ handlers \in HandlerMaps
  BY <1>1 DEF Sound, SocketsAreBound
<1>3. handlers[h].frame = "scheduled" /\ handlers' = [handlers EXCEPT ![h] = Flushed(h)]
  BY DEF FrameFires
<1>4. handlers[h].sock # 0
  BY <1>3 DEF Sound, SocketsAreBound, NoHandler
<1>5. HandlersAdvance(handlers, handlers')
  BY <1>2, <1>3, <1>4, FlushedFacts, HandlerMoves
<1>6. handlers' # handlers
  <2>1. handlers'[h].frame = "none"
    BY <1>2, <1>3, FlushedFacts DEF HandlerMaps
  <2> QED
    BY <2>1, <1>3
<1>7. Quiet(L, store, store')
  BY <1>1, <1>2, <1>4, Processed, GentleSame DEF FrameFires, Gentle
<1>8. SocketsAdvance(L, sockets, sockets')
  <2>1. handlers[h].sock \in Sockets
    BY <1>4, LiveHandler
  <2>2. sockets' = sockets \/ sockets' = Closing(handlers[h].sock)
    BY DEF FrameFires
  <2>3. SocketsAdvance(L, sockets, sockets)
    BY <1>2 DEF SocketsAdvance, SocketsMove
  <2> QED
    BY <1>2, <2>1, <2>2, <2>3, SocketsClose
<1> QED
  BY <1>1, <1>5, <1>6, <1>7, <1>8, StreamStep DEF FrameFires

\* What cancelling the frame of a socket's handlers does, before anything else
\* happens to the store.
LEMMA CancelFacts ==
    ASSUME Sound, NEW h \in Handlers, handlers[h].sock # 0,
           handlers' = [handlers EXCEPT ![h] = Cancelled(h)]
    PROVE  /\ HandlersAdvance(handlers, handlers')
           /\ Quiet(Begun(jobs), store, AfterCancel(store, h))
           /\ handlers' = handlers => Gentle(Begun(jobs), store, AfterCancel(store, h))
<1>1. store \in Stores(Begun(jobs)) /\ handlers \in HandlerMaps
  BY DEF Sound, SocketsAreBound
<1>2. HandlersAdvance(handlers, handlers')
  BY <1>1, FlushedFacts, HandlerMoves
<1>3. Quiet(Begun(jobs), store, AfterCancel(store, h))
  BY <1>1, Processed
<1>4. ASSUME handlers' = handlers PROVE Gentle(Begun(jobs), store, AfterCancel(store, h))
  <2>1. ~handlers[h].some
    <3>1. handlers'[h] = Cancelled(h)
      BY <1>1 DEF HandlerMaps
    <3> QED
      BY <3>1, <1>1, <1>4, FlushedFacts
  <2>2. AfterCancel(store, h) = store
    BY <2>1 DEF AfterCancel
  <2> QED
    BY <2>2, <1>1, GentleSame
<1> QED
  BY <1>2, <1>3, <1>4

LEMMA OnErrorStep == ASSUME Sound, NEW s \in Sockets, OnError(s) PROVE Goes
<1>1. PICK L : L = Begun(jobs)
  OBVIOUS
<1>2. PICK h : h = sockets[s].handler
  OBVIOUS
<1>3. PICK j : j = sockets[s].job
  OBVIOUS
<1>4. /\ handlers' = [handlers EXCEPT ![h] = Cancelled(h)]
      /\ store' = HandleWebSocketError(AfterCancel(store, h), jobs[j].chat, j)
      /\ sockets' = Closing(s) /\ UNCHANGED <<jobs, ops>> /\ StillGiven
      /\ sockets[s].state # "none"
  BY <1>2, <1>3 DEF OnError
<1>5. /\ L \in SUBSET Jobs /\ j \in L /\ jobs[j].chat \in Chats /\ h \in Handlers /\ handlers[h].sock # 0
      /\ sockets \in SocketMaps(L)
  BY <1>1, <1>2, <1>3, <1>4, LiveSocket, BegunFacts DEF Sound, SocketsAreBound
<1>6. PICK st : st = AfterCancel(store, h)
  OBVIOUS
<1>7. /\ HandlersAdvance(handlers, handlers') /\ Quiet(L, store, st)
      /\ handlers' = handlers => Gentle(L, store, st)
  BY <1>1, <1>4, <1>5, <1>6, CancelFacts
<1>8. st \in Stores(L)
  BY <1>7 DEF Quiet, Mild
<1>9. Gentle(L, st, store')
  BY <1>4, <1>5, <1>6, <1>8, ErrorHandled
<1>10. Quiet(L, store, store')
  BY <1>7, <1>9, QuietTransitive DEF Gentle
<1>11. handlers' = handlers => AnswersKept(store, store')
  <2>1. handlers' = handlers => Gentle(L, store, store')
    BY <1>7, <1>9, GentleTransitive
  <2> QED
    BY <2>1 DEF Gentle
<1>12. SocketsAdvance(L, sockets, sockets')
  BY <1>4, <1>5, SocketsClose
<1> QED
  BY <1>1, <1>4, <1>7, <1>10, <1>11, <1>12, StreamStep

\* onclose forgets the socket before anything else looks at webSockets.
LEMMA OnCloseStep == ASSUME Sound, NEW s \in Sockets, OnClose(s) PROVE Goes
<1>1. PICK L : L = Begun(jobs)
  OBVIOUS
<1>2. PICK h : h = sockets[s].handler
  OBVIOUS
<1>3. PICK j : j = sockets[s].job
  OBVIOUS
<1>4. PICK c : c = jobs[j].chat
  OBVIOUS
<1>5. PICK ac : ac = AfterCancel(store, h)
  OBVIOUS
<1>6. PICK st : st = [ac EXCEPT !.webSockets[j] = 0]
  OBVIOUS
<1>7. /\ handlers' = [handlers EXCEPT ![h] = Cancelled(h)]
      /\ \/ store' = ClearActiveChatJob(st, c)
         \/ store' = HandleWebSocketError(st, c, j)
         \/ store' = st
      /\ sockets' = [sockets EXCEPT ![s].state = "closed", ![s].sent = NoPacket]
      /\ UNCHANGED <<jobs, ops>> /\ StillGiven /\ sockets[s].state = "closing"
  BY <1>2, <1>3, <1>4, <1>5, <1>6 DEF OnClose
<1>8. /\ L \in SUBSET Jobs /\ j \in L /\ j \in Jobs /\ c \in Chats /\ h \in Handlers /\ handlers[h].sock # 0
      /\ sockets \in SocketMaps(L) /\ handlers \in HandlerMaps /\ store \in Stores(L)
  BY <1>1, <1>2, <1>3, <1>4, <1>7, LiveSocket, BegunFacts DEF Sound, SocketsAreBound
<1>9. /\ HandlersAdvance(handlers, handlers') /\ Quiet(L, store, ac)
      /\ handlers' = handlers => Gentle(L, store, ac)
  BY <1>1, <1>5, <1>7, <1>8, CancelFacts
<1>10. ac \in Stores(L) /\ ac.webSockets = store.webSockets /\ ac.flags[New] = store.flags[New]
  BY <1>9 DEF Quiet, Mild
<1>11. PICK ws : ws = [store.webSockets EXCEPT ![j] = 0]
  OBVIOUS
<1>12. ws \in [Jobs -> Sockets \cup {0}] /\ st = [ac EXCEPT !.webSockets = ws]
  BY <1>6, <1>8, <1>10, <1>11 DEF Stores
<1>13. st \in Stores(L) /\ st.webSockets = ws /\ st.messages = ac.messages /\ st.flags = ac.flags
  BY <1>10, <1>12 DEF Stores
<1>14. Gentle(L, st, store')
  <2>1. NoJob \in L \cup {NoJob} /\ TRUE \in BOOLEAN
    OBVIOUS
  <2> QED
    BY <2>1, <1>7, <1>8, <1>13, ActiveChatJobSet, ErrorHandled, GentleSame
<1>15. /\ store' \in Stores(L) /\ store'.webSockets = ws /\ store'.flags[New] = store.flags[New]
  BY <1>10, <1>13, <1>14 DEF Gentle, Quiet, Mild
<1>16. PICK old : old = sockets[s]
  OBVIOUS
<1>17. PICK none : none = NoPacket
  OBVIOUS
<1>18. PICK one : one = [[old EXCEPT !.state = "closed"] EXCEPT !.sent = none]
  OBVIOUS
<1>19. /\ one \in [job : L \cup {NoJob}, state : States, greeting : BOOLEAN, handler : Handlers \cup {0}, sent : Packets]
       /\ one.job = old.job /\ one.handler = old.handler /\ one.state = "closed"
  BY <1>8, <1>16, <1>17, <1>18, Constants DEF SocketMaps, States
<1>20. sockets' = [sockets EXCEPT ![s] = one]
  BY <1>7, <1>8, <1>16, <1>17, <1>18 DEF SocketMaps
<1>21. SocketsMove(L, sockets, sockets') /\ \A r \in Sockets \ {s} : sockets'[r] = sockets[r]
  BY <1>7, <1>8, <1>16, <1>19, <1>20 DEF SocketsMove, SocketMaps
<1>22. SocketsAreBound(L, sockets', handlers')
  BY <1>1, <1>9, <1>21, BoundStays DEF Sound
<1>23. EntriesAreAlive(store', sockets')
  <2> SUFFICES ASSUME NEW i \in Jobs, ws[i] # 0
               PROVE  sockets'[ws[i]].job = i /\ sockets'[ws[i]].state \notin {"none", "closed"}
    BY <1>15 DEF EntriesAreAlive
  <2>1. i # j /\ ws[i] = store.webSockets[i] /\ ws[i] \in Sockets
    BY <1>8, <1>11, <1>12 DEF Stores
  <2>2. sockets[ws[i]].job = i /\ sockets[ws[i]].state \notin {"none", "closed"}
    BY <2>1 DEF Sound, EntriesAreAlive
  <2>3. ws[i] # s
    BY <2>1, <2>2, <1>3
  <2> QED
    BY <2>1, <2>2, <2>3, <1>21
<1>24. AskedFor(store', ops', given')
  BY <1>7, <1>15, GivenStays DEF Sound, AskedFor, GivenKept
<1>25. Sound'
  BY <1>1, <1>7, <1>15, <1>22, <1>23, <1>24 DEF Sound
<1>26. ErrorsKept(store, store')
  <2>1. ErrorsKept(store, st) /\ ErrorsKept(st, store')
    BY <1>9, <1>13, <1>14 DEF Gentle, Quiet, ErrorsKept
  <2> QED
    BY <2>1 DEF ErrorsKept
<1>27. ASSUME handlers' = handlers PROVE AnswersKept(store, store')
  <2>1. AnswersKept(store, st) /\ AnswersKept(st, store') /\ ErrorsKept(store, st)
    BY <1>9, <1>13, <1>14, <1>27 DEF Gentle, Quiet, ErrorsKept, AnswersKept
  <2>2. \A i \in Jobs : /\ store.messages[i].content \in Nat /\ st.messages[i].content \in Nat
                        /\ store'.messages[i].content \in Nat
    BY SMTT(30), <1>8, <1>13, <1>15 DEF Stores, Messages
  <2> QED
    BY <2>1, <2>2 DEF ErrorsKept, AnswersKept
<1>28. Kept
  BY <1>26, <1>27 DEF Kept, ErrorsKept, AnswersKept
<1> QED
  BY <1>25, <1>28 DEF Goes

-----------------------------------------------------------------------------
(* A socket is made or reused: Unused finds the first free one.             *)

LEMMA LeastNat ==
    ASSUME NEW S \in SUBSET Nat, S # {}
    PROVE  \E n \in S : \A m \in S : n <= m
<1> DEFINE R == OpToRel(<, Nat)
<1>1. IsWellFoundedOn(R, Nat)
  BY NatLessThanWellFounded
<1>2. \A x, y \in Nat : <<x, y>> \in R <=> x < y
  BY DEF OpToRel
<1> HIDE DEF R
<1>3. PICK n \in S : \A m \in S : ~(<<m, n>> \in R)
  BY <1>1, WFMin
<1>4. ASSUME NEW m \in S
      PROVE  n <= m
  <2>1. ~(<<m, n>> \in R) /\ m \in Nat /\ n \in Nat
    BY <1>3
  <2>2. <<m, n>> \in R <=> m < n
    BY <1>2, <2>1
  <2>3. ~(m < n)
    BY <2>1, <2>2
  <2> QED BY <2>1, <2>3
<1> QED BY <1>4

LEMMA UnusedFound ==
    ASSUME NEW f, NEW none, DOMAIN f \subseteq Nat, \E i \in DOMAIN f : f[i] = none
    PROVE  Unused(f, none) \in DOMAIN f /\ f[Unused(f, none)] = none
<1>1. PICK S : S = {i \in DOMAIN f : f[i] = none}
  OBVIOUS
<1>2. PICK n \in S : \A m \in S : n <= m
  BY <1>1, LeastNat
<1>3. ASSUME NEW k \in DOMAIN f, k < n PROVE f[k] # none
  <2>1. k \in Nat /\ n \in Nat
    BY <1>1
  <2> QED
    BY <2>1, <1>1, <1>2, <1>3
<1> QED
  BY <1>1, <1>2, <1>3 DEF Unused

\* The socket s becomes x, a live one of job j with the handlers h, which are
\* bound to it; it was free, or was a live socket of j.
LEMMA Bound ==
    ASSUME NEW L, NEW so, NEW ha, SocketsAreBound(L, so, ha), NEW s \in Sockets, NEW h \in Handlers, NEW j \in L,
           NEW x \in [job : L \cup {NoJob}, state : States, greeting : BOOLEAN, handler : Handlers \cup {0}, sent : Packets],
           x.job = j, x.handler = h, x.state # "none"
    PROVE  SocketsAreBound(L, [so EXCEPT ![s] = x], [ha EXCEPT ![h].sock = s])
<1>1. PICK so2 : so2 = [so EXCEPT ![s] = x]
  OBVIOUS
<1>2. PICK y : y = [ha[h] EXCEPT !.sock = s]
  OBVIOUS
<1>3. PICK ha2 : ha2 = [ha EXCEPT ![h] = y]
  OBVIOUS
<1>4. so \in SocketMaps(L) /\ ha \in HandlerMaps
  BY DEF SocketsAreBound
<1>5. y \in HandlerRecords /\ y.sock = s /\ s # 0
  BY SMTT(30), <1>2, <1>4, ChatAssumption DEF HandlerMaps, HandlerRecords, Sockets
<1>6. so2 \in SocketMaps(L) /\ so2[s] = x /\ \A r \in Sockets \ {s} : so2[r] = so[r]
  BY <1>1, <1>4 DEF SocketMaps
<1>7. ha2 \in HandlerMaps /\ ha2[h] = y /\ \A k \in Handlers \ {h} : ha2[k] = ha[k]
  BY <1>3, <1>4, <1>5 DEF HandlerMaps
<1>8. ASSUME NEW r \in Sockets, so2[r].state # "none"
      PROVE  so2[r].job \in L /\ so2[r].handler \in Handlers /\ ha2[so2[r].handler].sock # 0
  <2>1. CASE r = s
    BY <2>1, <1>5, <1>6, <1>7
  <2>2. CASE r # s
    <3>1. so[r].job \in L /\ so[r].handler \in Handlers /\ ha[so[r].handler].sock # 0
      BY <2>2, <1>6, <1>8 DEF SocketsAreBound
    <3> QED
      BY <2>2, <3>1, <1>5, <1>6, <1>7
  <2> QED
    BY <2>1, <2>2
<1>9. ASSUME NEW k \in Handlers
      PROVE  IF ha2[k].sock = 0 THEN ha2[k] = NoHandler ELSE so2[ha2[k].sock].state # "none"
  <2>1. CASE k = h
    BY <2>1, <1>5, <1>6, <1>7
  <2>2. CASE k # h
    <3>1. IF ha[k].sock = 0 THEN ha[k] = NoHandler ELSE so[ha[k].sock].state # "none"
      BY DEF SocketsAreBound
    <3>2. ha[k].sock \in Sockets \cup {0}
      BY <1>4 DEF HandlerMaps, HandlerRecords
    <3> QED
      BY <2>2, <3>1, <3>2, <1>6, <1>7
  <2> QED
    BY <2>1, <2>2
<1>a. ASSUME NEW r \in Sockets, so2[r].greeting PROVE so2[r].state # "none"
  BY <1>6, <1>a DEF SocketsAreBound
<1>10. SocketsAreBound(L, so2, ha2)
  BY <1>6, <1>7, <1>8, <1>9, <1>a DEF SocketsAreBound
<1>11. ha2 = [ha EXCEPT ![h].sock = s]
  BY <1>2, <1>3
<1> QED
  BY <1>1, <1>10, <1>11

LEMMA ConnectsStep == ASSUME Sound, NEW o \in ops, Connects(o) PROVE Goes
<1>1. PICK L : L = Begun(jobs)
  OBVIOUS
<1>2. PICK j : j = o.job
  OBVIOUS
<1>3. PICK c : c = o.key
  OBVIOUS
<1>4. PICK old : old = store.webSockets[j]
  OBVIOUS
<1>5. PICK h : h = Unused(handlers, NoHandler)
  OBVIOUS
<1>6. PICK reuse : reuse = (old # 0 /\ sockets[old].state \in {"connecting", "open"})
  OBVIOUS
<1>7. PICK s : s = IF reuse THEN old ELSE Unused(sockets, NoSocket)
  OBVIOUS
<1>8. PICK x : x = IF reuse THEN [sockets[s] EXCEPT !.handler = h]
                   ELSE [NoSocket EXCEPT !.job = j, !.state = "connecting", !.handler = h]
  OBVIOUS
<1>9. /\ o.kind = "connect" /\ \E k \in Handlers : handlers[k] = NoHandler
      /\ reuse \/ \E free \in Sockets : sockets[free] = NoSocket
      /\ sockets' = [sockets EXCEPT ![s] = x]
      /\ handlers' = [handlers EXCEPT ![h].sock = s]
      /\ store' = SetActiveChatJob([store EXCEPT !.webSockets[j] = s], c, j, FALSE)
      /\ ops' = ops \ {o} /\ jobs' = jobs /\ StillGiven
  BY <1>2, <1>3, <1>4, <1>5, <1>6, <1>7, <1>8 DEF Connects
<1>10. /\ store \in Stores(L) /\ sockets \in SocketMaps(L) /\ handlers \in HandlerMaps
       /\ SocketsAreBound(L, sockets, handlers) /\ OpsAreTyped(L, ops) /\ L \subseteq Jobs
  BY <1>1 DEF Sound, SocketsAreBound, Begun
<1>11. j \in L /\ c \in Chats /\ j \in Jobs
  BY <1>1, <1>2, <1>3, <1>9, <1>10, OpsFacts DEF OpIsTyped
<1>12. old \in Sockets \cup {0}
  BY <1>4, <1>10, <1>11 DEF Stores
<1>13. h \in Handlers
  <2>1. DOMAIN handlers = Handlers /\ Handlers \subseteq Nat
    BY <1>10, ChatAssumption DEF HandlerMaps, Handlers
  <2> QED
    BY <2>1, <1>5, <1>9, UnusedFound
<1>14. /\ s \in Sockets
       /\ IF reuse THEN sockets[s].job = j /\ sockets[s].state \in {"connecting", "open"} /\ s = old
          ELSE sockets[s] = NoSocket
  <2>1. CASE reuse
    <3>1. s = old /\ old \in Sockets /\ sockets[s].state \in {"connecting", "open"}
      BY <2>1, <1>6, <1>7, <1>12
    <3>2. sockets[old].job = j
      BY <3>1, <2>1, <1>4, <1>6, <1>11 DEF Sound, EntriesAreAlive
    <3> QED
      BY <2>1, <3>1, <3>2
  <2>2. CASE ~reuse
    <3>1. DOMAIN sockets = Sockets /\ Sockets \subseteq Nat
      BY <1>10, ChatAssumption DEF SocketMaps, Sockets
    <3>2. \E free \in DOMAIN sockets : sockets[free] = NoSocket
      BY <3>1, <2>2, <1>9
    <3> QED
      BY <2>2, <3>1, <3>2, <1>7, UnusedFound
  <2> QED
    BY <2>1, <2>2
<1>15. /\ x \in [job : L \cup {NoJob}, state : States, greeting : BOOLEAN, handler : Handlers \cup {0}, sent : Packets]
       /\ x.job = j /\ x.handler = h /\ x.state \in {"connecting", "open"}
  <2>1. CASE reuse
    BY <2>1, <1>8, <1>10, <1>13, <1>14 DEF SocketMaps
  <2>2. CASE ~reuse
    <3>1. x = [job |-> j, state |-> "connecting", greeting |-> FALSE, handler |-> h, sent |-> NoPacket]
      BY <2>2, <1>8 DEF NoSocket
    <3> QED
      BY <3>1, <1>11, <1>13, Constants DEF States
  <2> QED
    BY <2>1, <2>2
<1>16. SocketsAreBound(L, sockets', handlers')
  BY <1>9, <1>10, <1>11, <1>13, <1>14, <1>15, Bound
<1>17. PICK ws : ws = [store.webSockets EXCEPT ![j] = s]
  OBVIOUS
<1>18. ws \in [Jobs -> Sockets \cup {0}] /\ ws[j] = s /\ \A i \in Jobs \ {j} : ws[i] = store.webSockets[i]
  BY <1>10, <1>11, <1>14, <1>17 DEF Stores
<1>19. PICK st : st = [store EXCEPT !.webSockets = ws]
  OBVIOUS
<1>20. st \in Stores(L) /\ st.webSockets = ws /\ st.messages = store.messages /\ st.flags = store.flags
  BY <1>10, <1>18, <1>19 DEF Stores
<1>21. Gentle(L, st, store')
  <2>1. store' = SetActiveChatJob(st, c, j, FALSE) /\ j \in L \cup {NoJob} /\ FALSE \in BOOLEAN
    BY <1>9, <1>11, <1>17, <1>19
  <2> QED
    BY <2>1, <1>11, <1>20, ActiveChatJobSet
<1>22. /\ store' \in Stores(L) /\ store'.webSockets = ws /\ store'.flags[New] = store.flags[New]
       /\ ErrorsKept(store, store') /\ AnswersKept(store, store')
  BY <1>20, <1>21 DEF Gentle, Quiet, Mild, ErrorsKept, AnswersKept
<1>23. EntriesAreAlive(store', sockets')
  <2> SUFFICES ASSUME NEW i \in Jobs, ws[i] # 0
               PROVE  sockets'[ws[i]].job = i /\ sockets'[ws[i]].state \notin {"none", "closed"}
    BY <1>22 DEF EntriesAreAlive
  <2>1. sockets'[s] = x /\ \A r \in Sockets \ {s} : sockets'[r] = sockets[r]
    BY <1>9, <1>10, <1>14 DEF SocketMaps
  <2>2. CASE i = j
    BY <2>1, <2>2, <1>15, <1>18
  <2>3. CASE i # j
    <3>1. ws[i] = store.webSockets[i] /\ ws[i] \in Sockets
      BY <2>3, <1>18
    <3>2. sockets[ws[i]].job = i /\ sockets[ws[i]].state \notin {"none", "closed"}
      BY <3>1 DEF Sound, EntriesAreAlive
    <3>3. ws[i] # s
      BY <2>3, <3>2, <1>14 DEF NoSocket
    <3> QED
      BY <2>1, <3>1, <3>2, <3>3
  <2> QED
    BY <2>2, <2>3
<1>24. OpsAreTyped(L, ops') /\ SendsKept(ops, ops')
  BY <1>9, <1>10, FewerOps, SendsStay
<1>25. AskedFor(store', ops', given')
  BY <1>9, <1>22, <1>24, GivenStays DEF Sound, AskedFor, GivenKept, SendsKept
<1>26. Sound'
  BY <1>1, <1>9, <1>16, <1>22, <1>23, <1>24, <1>25 DEF Sound
<1>27. Kept
  BY <1>22 DEF Kept, ErrorsKept, AnswersKept
<1> QED
  BY <1>26, <1>27 DEF Goes

-----------------------------------------------------------------------------
(* The page as it is loaded, and every step.                                *)

LEMMA StartsSound == Init => Sound
<1> SUFFICES ASSUME Init PROVE Sound
  OBVIOUS
<1>1. PICK known \in {{}} \cup {{c} : c \in Chats}, status \in {"running", "done"}, shown \in BOOLEAN :
        LET c == CHOOSE k \in known : TRUE
            first == known # {}
            open == first /\ shown
            busy == open /\ status = "running"
        IN  /\ jobs = [j \in Jobs |->
                        IF j = 1 /\ first THEN [chat |-> c, status |-> status, text |-> Full]
                        ELSE [chat |-> New, status |-> "none", text |-> Empty]]
            /\ store = [chats |-> known,
                        current |-> IF open THEN c ELSE New,
                        messages |-> [j \in Jobs |->
                           IF j # 1 \/ ~open THEN NoMessage
                           ELSE IF busy THEN Message(Empty, FALSE, FALSE)
                           ELSE Message(Full, TRUE, FALSE)],
                        flags |-> [k \in Keys |-> IF busy /\ k = c THEN Flags ELSE {}],
                        active |-> [k \in Chats |->
                           IF busy /\ k = c THEN [job |-> 1, errored |-> FALSE] ELSE NoActive],
                        webSockets |-> [j \in Jobs |-> 0]]
  BY DEF Init
<1>2. PICK c : c = CHOOSE k \in known : TRUE
  OBVIOUS
<1>3. PICK first : first = (known # {})
  OBVIOUS
<1>4. PICK open : open = (first /\ shown)
  OBVIOUS
<1>5. PICK busy : busy = (open /\ status = "running")
  OBVIOUS
<1>6. /\ first \in BOOLEAN /\ open \in BOOLEAN /\ busy \in BOOLEAN
      /\ (open => first) /\ (busy => open)
      /\ known \in SUBSET Chats /\ (first => c \in Chats)
  BY <1>2, <1>3, <1>4, <1>5
<1>7. jobs = [j \in Jobs |-> IF j = 1 /\ first THEN [chat |-> c, status |-> status, text |-> Full]
                             ELSE [chat |-> New, status |-> "none", text |-> Empty]]
  BY <1>1, <1>2, <1>3
<1>8. PICK messages : messages = [j \in Jobs |-> IF j # 1 \/ ~open THEN NoMessage
                                                 ELSE IF busy THEN Message(Empty, FALSE, FALSE)
                                                 ELSE Message(Full, TRUE, FALSE)]
  OBVIOUS
<1>9. PICK flags : flags = [k \in Keys |-> IF busy /\ k = c THEN Flags ELSE {}]
  OBVIOUS
<1>10. PICK active : active = [k \in Chats |-> IF busy /\ k = c THEN [job |-> 1, errored |-> FALSE] ELSE NoActive]
  OBVIOUS
<1>11. store = [chats |-> known, current |-> IF open THEN c ELSE New, messages |-> messages,
                flags |-> flags, active |-> active, webSockets |-> [j \in Jobs |-> 0]]
  BY <1>1, <1>2, <1>3, <1>4, <1>5, <1>8, <1>9, <1>10
<1>12. JobsAreTyped(jobs) /\ (first /\ 1 \in Jobs => 1 \in Begun(jobs))
  BY <1>6, <1>7, NewIsNoChat, Constants DEF JobsAreTyped, JobMaps, Begun, Statuses, Texts
<1>13. store \in Stores(Begun(jobs))
  <2>1. messages \in [Jobs -> Messages]
    <3>1. Message(Empty, FALSE, FALSE) \in Messages /\ Message(Full, TRUE, FALSE) \in Messages
      BY Constants DEF Message, Messages
    <3> QED
      BY <3>1, <1>8, Constants
  <2>2. flags \in [Keys -> SUBSET Flags]
    BY <1>9
  <2>3. active \in [Chats -> Actives(Begun(jobs))]
    <3>1. 1 \in Jobs
      BY ChatAssumption DEF Jobs
    <3>2. busy => [job |-> 1, errored |-> FALSE] \in Actives(Begun(jobs))
      BY <3>1, <1>6, <1>12 DEF Actives
    <3> QED
      BY <3>2, <1>10, Constants
  <2>4. (IF open THEN c ELSE New) \in Keys
    BY <1>6, NewIsNoChat
  <2> QED
    BY <2>1, <2>2, <2>3, <2>4, <1>6, <1>11 DEF Stores
<1>14. OpsAreTyped(Begun(jobs), ops)
  BY DEF Init, OpsAreTyped
<1>15. SocketsAreBound(Begun(jobs), sockets, handlers)
  <2>1. NoSocket \in [job : Begun(jobs) \cup {NoJob}, state : States, greeting : BOOLEAN,
                      handler : Handlers \cup {0}, sent : Packets]
        /\ NoSocket.state = "none" /\ NoSocket.greeting = FALSE
    BY Constants DEF NoSocket, States
  <2>2. sockets = [s \in Sockets |-> NoSocket] /\ handlers = [h \in Handlers |-> NoHandler]
    BY DEF Init
  <2> QED
    BY <2>1, <2>2, Constants DEF SocketsAreBound, SocketMaps, HandlerMaps
<1>16. EntriesAreAlive(store, sockets)
  BY <1>11 DEF EntriesAreAlive
<1>17. AskedFor(store, ops, given)
  <2>1. flags[New] = {}
    BY <1>6, <1>9, NewIsNoChat
  <2> QED
    BY <2>1, <1>11 DEF AskedFor
<1> QED
  BY <1>12, <1>13, <1>14, <1>15, <1>16, <1>17 DEF Sound

LEMMA StepsSound == Sound /\ [Next]_vars => Sound' /\ [Kept]_vars
<1> SUFFICES ASSUME Sound, [Next]_vars PROVE Sound' /\ [Kept]_vars
  OBVIOUS
<1>1. ASSUME UserStep PROVE Goes
  BY <1>1, SendStep, NewChatStep, UrlStep, EditSteps, SetCurrentStep, UpdateChatStep, DeleteChatStep
  DEF UserStep
<1>2. ASSUME NEW o \in ops, Returns(o) PROVE Goes
  BY <1>2, PickNodeStep, CallFailsStep, CreateReturnsStep, ReplySteps, ConnectsStep, ConnectFailsStep,
     ReconnectReturnsStep, ReconnectFailsStep, GetChatStep, MergesStep, FetchFailsStep, ListChatsStep,
     FetchChatsStep, CanisterStartsStep, GetMessagesStep, GetChatJobsStep, CanisterDeletesStep,
     DeleteReturnsStep, DeleteFailsStep
  DEF Returns
<1>3. ASSUME NEW s \in Sockets, SocketStep(s) PROVE Goes
  BY <1>3, OnOpenStep, HandshakeSentStep, HandshakeFailsStep, OnErrorStep, OnCloseStep, NodeClosesStep,
     NodeSendsStep DEF SocketStep
<1>4. ASSUME NEW h \in Handlers, HandlerStep(h) PROVE Goes
  BY <1>4, DecryptedStep, DecryptFailsStep, FrameFiresStep DEF HandlerStep
<1>5. ASSUME NEW c \in Chats, ReconnectEffect(c) \/ TimerFires(c) PROVE Goes
  BY <1>5, ReconnectEffectStep, TimerStep
<1>6. ASSUME NEW j \in Jobs, NEW status \in {"done", "failed"}, JobEnds(j, status) PROVE Goes
  BY <1>6, JobEndsStep
<1>7. CASE Next
  BY <1>1, <1>2, <1>3, <1>4, <1>5, <1>6, <1>7 DEF Next, Goes
<1>8. CASE UNCHANGED vars
  BY <1>8 DEF vars, Sound
<1> QED
  BY <1>7, <1>8

\* Whatever order replies, packets, frames and the events of sockets come in,
\* webSockets (webSocketSlice.ts) holds no socket that has closed, and each of
\* its entries is a socket of that job: reconnectToActiveJob, which returns at
\* once where it finds an entry, never takes a dead socket for a live one.
THEOREM DeadSocketsForgotten == Spec => []DeadSocketsAreForgotten
<1>1. Sound => DeadSocketsAreForgotten
  BY DEF Sound, EntriesAreAlive, DeadSocketsAreForgotten
<1> QED
  BY <1>1, StartsSound, StepsSound, PTL DEF Spec

\* The flags of a chat that does not exist yet stand only while the call that
\* makes it is under way, or after a send that threw before its try
\* (sendMessageLogic): no reply and no failure leaves the new chat's page busy.
THEOREM NewChatAskedFor == Spec => []NewChatIsAskedFor
<1>1. Sound => NewChatIsAskedFor
  BY DEF Sound, AskedFor, NewChatIsAskedFor
<1> QED
  BY <1>1, StartsSound, StepsSound, PTL DEF Spec

\* No step but a packet of a message's stream, or the late reply to the call
\* that made it, shortens or reopens what the message shows, and no step takes
\* its error back (mergeFetchedWithLocalMap and mergeJobDetailsIntoMap, applied
\* to answers of any age); only a fetch that could not decrypt the answer puts
\* another text in its place.
THEOREM AnswersStay == Spec => AnswersAreKept
<1>1. [Kept]_vars => [(\A o \in ops \ ops' : o.kind \notin {"send", "edit"}) =>
       \A j \in Jobs : store.messages[j].here /\ store'.messages[j].here =>
         LET m == store.messages[j]
             n == store'.messages[j]
         IN  /\ m.error => n.error
             /\ m.complete /\ handlers' = handlers => n.complete
             /\ handlers' = handlers /\ (\A o \in ops \ ops' : o.seen[j] # Garbled) =>
                  n.content >= m.content]_vars
  BY DEF Kept
<1> QED
  BY <1>1, StartsSound, StepsSound, PTL DEF Spec, AnswersAreKept
=============================================================================
