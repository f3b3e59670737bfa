----------------------------- MODULE TableProofs -----------------------------
(***************************************************************************)
(* Theorems about the two parts that are told as tables of methods: the     *)
(* messages between client and queue (ProducerProtocol.tla), for every set  *)
(* of threads, every mix of methods, shapes and limits, and the settings    *)
(* that pass the layers above the queue (SettingLayers.tla), for every set  *)
(* of callers and every largest queue size.                                 *)
(***************************************************************************)
EXTENDS ProducerProtocol, SettingLayers, ListLemmas

(* A joined table has the row of a table that has one.                      *)
LEMMA JoinedRow ==
    ASSUME NEW tables, NEW f \in tables, NEW m \in DOMAIN f,
           \A g \in tables : g # f => m \notin DOMAIN g
    PROVE  m \in DOMAIN Joined(tables) /\ Joined(tables)[m] = f[m]
<1>1. (CHOOSE g \in tables : m \in DOMAIN g) = f
    OBVIOUS
<1> QED BY <1>1 DEF Joined

(* Each row of a joined table is a row of one of the tables.                *)
LEMMA JoinedSome ==
    ASSUME NEW tables, NEW m \in DOMAIN Joined(tables)
    PROVE  \E f \in tables : m \in DOMAIN f /\ Joined(tables)[m] = f[m]
<1>1. \E f \in tables : m \in DOMAIN f
    BY DEF Joined
<1> DEFINE f == CHOOSE g \in tables : m \in DOMAIN g
<1>2. f \in tables /\ m \in DOMAIN f
    BY <1>1
<1>3. Joined(tables)[m] = f[m]
    BY <1>1 DEF Joined
<1> QED BY <1>2, <1>3

(* A group of fields repeated is a list of the same fields.                 *)
LEMMA TimesType ==
    ASSUME NEW n \in Nat, NEW S, NEW fields \in Seq(S), Len(fields) \in Nat \ {0}
    PROVE  Times(n, fields) \in Seq(S)
<1>1. n * Len(fields) \in Nat
    BY DEF Times
<1>2. \A i \in 1..(n * Len(fields)) : ((i - 1) % Len(fields)) + 1 \in 1..Len(fields)
    BY <1>1
<1>3. \A j \in 1..Len(fields) : fields[j] \in S
    BY ElementOfSeq
<1> QED BY <1>1, <1>2, <1>3 DEF Times

SetRow ==
    \A sh \in Shapes :
        /\ ClientOf[sh]["SetTransform"] = Does(<<"u32">>)
        /\ StubOf[sh]["SetTransform"] = Takes(<<"u32">>)

(* SetTransform's row, the only one whose answer the proxy remembers.       *)
LEMMA SetTransformRow == SetRow
<1> SUFFICES ASSUME NEW sh \in Shapes
             PROVE  /\ ClientOf[sh]["SetTransform"] = Does(<<"u32">>)
                    /\ StubOf[sh]["SetTransform"] = Takes(<<"u32">>)
    BY DEF SetRow
<1>1. "SetTransform" \in DOMAIN ConnectionCalls /\ ConnectionCalls["SetTransform"] = Does(<<"u32">>)
    BY DEF ConnectionCalls
<1>2. /\ "SetTransform" \notin DOMAIN RequestCalls(sh)
      /\ "SetTransform" \notin DOMAIN FlushedCalls
      /\ "SetTransform" \notin DOMAIN FlushCalls(sh)
      /\ "SetTransform" \notin DOMAIN AttachCalls
      /\ "SetTransform" \notin DOMAIN QueueCalls
      /\ "SetTransform" \notin DOMAIN AttributeCalls
      /\ "SetTransform" \notin DOMAIN SourceCalls
      /\ "SetTransform" \notin DOMAIN LastCalls(sh)
      /\ "SetTransform" \notin DOMAIN ListenerCalls
      /\ "SetTransform" \notin DOMAIN CarrierCalls
    BY DEF RequestCalls, FlushedCalls, FlushCalls, AttachCalls, QueueCalls, AttributeCalls, SourceCalls,
           LastCalls, ListenerCalls, CarrierCalls
<1>3. ClientOf[sh]["SetTransform"] = Does(<<"u32">>)
    <2>1. ConnectionCalls \in ClientTables(sh)
        BY DEF ClientTables
    <2>2. \A g \in ClientTables(sh) : g # ConnectionCalls => "SetTransform" \notin DOMAIN g
        BY <1>2 DEF ClientTables
    <2> QED BY <1>1, <2>1, <2>2, JoinedRow DEF ClientOf
<1>4. "SetTransform" \in DOMAIN ConnectionStubs /\ ConnectionStubs["SetTransform"] = Takes(<<"u32">>)
    BY DEF ConnectionStubs
<1>5. /\ "SetTransform" \notin DOMAIN RequestStubs(sh)
      /\ "SetTransform" \notin DOMAIN FlushStubs(sh)
      /\ "SetTransform" \notin DOMAIN AttachStubs
      /\ "SetTransform" \notin DOMAIN QueueStubs
      /\ "SetTransform" \notin DOMAIN AttributeStubs
      /\ "SetTransform" \notin DOMAIN SourceStubs
      /\ "SetTransform" \notin DOMAIN LightStubs
      /\ "SetTransform" \notin DOMAIN LastStubs
      /\ "SetTransform" \notin DOMAIN PreAllocStub
      /\ "SetTransform" \notin DOMAIN CacheStubs(sh)
      /\ "SetTransform" \notin DOMAIN ListenerStubs
      /\ "SetTransform" \notin DOMAIN CarrierStubs
    BY DEF RequestStubs, FlushStubs, AttachStubs, QueueStubs, AttributeStubs, SourceStubs, LightStubs,
           LastStubs, PreAllocStub, CacheStubs, ListenerStubs, CarrierStubs
<1>6. StubOf[sh]["SetTransform"] = Takes(<<"u32">>)
    <2>1. ConnectionStubs \in StubTables(sh)
        BY DEF StubTables
    <2>2. \A g \in StubTables(sh) : g # ConnectionStubs => "SetTransform" \notin DOMAIN g
        BY <1>5 DEF StubTables
    <2> QED BY <1>4, <2>1, <2>2, JoinedRow DEF StubOf
<1> QED BY <1>3, <1>6

(* The fields a client reads after "OK" that no reader refuses by their     *)
(* length; extra data is one of them as long as it is short enough.         *)
Plain == {"i32", "u32", "i64", "u64", "bool", "str", "buffer", "bufconfig", "fence", "matrix",
          "u64?", "bedata", "seqs"}

PlainFields(fields) == fields \in Seq(Plain)
PlainRow(row)       == PlainFields(row.ok)
ReadsPlain(table)   == \A m \in DOMAIN table : PlainRow(table[m])

(* A method has a row whatever the shape of its data.                       *)
LEMMA MethodsEverywhere ==
    ASSUME NEW sh \in Shapes, NEW m \in Methods
    PROVE  m \in DOMAIN Joined(ClientTables(sh))
<1>1. PICK s \in Shapes : m \in DOMAIN Joined(ClientTables(s))
    BY DEF Methods, ClientOf
<1>2. PICK f \in ClientTables(s) : m \in DOMAIN f
    BY <1>1, JoinedSome
<1>3. /\ DOMAIN RequestCalls(s) = DOMAIN RequestCalls(sh)
      /\ DOMAIN FlushCalls(s) = DOMAIN FlushCalls(sh)
      /\ DOMAIN LastCalls(s) = DOMAIN LastCalls(sh)
    BY DEF RequestCalls, FlushCalls, LastCalls
<1>4. \E g \in ClientTables(sh) : m \in DOMAIN g
    BY <1>2, <1>3 DEF ClientTables
<1> QED BY <1>4 DEF Joined

(* No answer carries a list that the client might find too long.            *)
LEMMA AnswersArePlain ==
    ASSUME NEW sh \in Shapes, NEW m \in Methods
    PROVE  PlainFields(ClientOf[sh][m].ok)
<1>1. sh.n \in Nat
    BY ShapeAssumption
<1>2. /\ PlainFields(<<>>) /\ PlainFields(<<"u32">>) /\ PlainFields(<<"i32">>)
      /\ PlainFields(<<"u64">>) /\ PlainFields(<<"i64">>) /\ PlainFields(<<"str">>)
      /\ PlainFields(<<"buffer">>) /\ PlainFields(<<"seqs">>) /\ PlainFields(<<"str", "u64">>)
      /\ PlainFields(<<"buffer", "bufconfig", "fence", "matrix">>) /\ PlainFields(Grant)
      /\ PlainFields(<<"i32", "i32", "u64", "str", "bool", "str", "u64", "i32">>)
    BY DEF Plain, Grant, PlainFields
<1>3. PlainFields(<<"u32">> \o Times(sh.n, Grant))
    <2>1. Len(Grant) \in Nat \ {0}
        BY DEF Grant
    <2> QED BY <1>1, <1>2, <2>1, TimesType DEF PlainFields
<1>4. PlainFields(<<"u32">> \o Times(sh.n, <<"buffer">>))
    <2>1. Len(<<"buffer">>) \in Nat \ {0}
        OBVIOUS
    <2>2. Times(sh.n, <<"buffer">>) \in Seq(Plain)
        BY <1>1, <1>2, <2>1, TimesType DEF PlainFields
    <2> QED BY <1>2, <2>2 DEF PlainFields
<1>. /\ \A w : PlainRow(Does(w))
     /\ \A w : PlainRow(Casts(w))
     /\ \A w, r : PlainFields(r) => PlainRow(Asks(w, r))
     /\ \A w, r : PlainFields(r) => PlainRow([Asks(w, r) EXCEPT !.err = <<"bool">>])
     /\ \A r : PlainFields(r) => PlainRow(Reads(r))
    BY <1>2 DEF PlainRow, Does, Asks, Reads, Casts
<1>5. ReadsPlain(RequestCalls(sh))
    BY <1>2, <1>3 DEF ReadsPlain, RequestCalls
<1>6. ReadsPlain(FlushedCalls)
    BY <1>2 DEF ReadsPlain, FlushedCalls
<1>7. ReadsPlain(FlushCalls(sh))
    <2>1. \A w, e, f : PlainRow([writes |-> w,
                                 ok |-> <<"i32", "i32", "u64", "str", "bool", "str", "u64", "i32">>,
                                 err |-> e, form |-> f])
        BY <1>2 DEF PlainRow
    <2> QED BY <2>1 DEF ReadsPlain, FlushCalls
<1>8. ReadsPlain(AttachCalls)
    BY DEF ReadsPlain, AttachCalls
<1>9. ReadsPlain(QueueCalls)
    BY <1>2 DEF ReadsPlain, QueueCalls
<1>10. ReadsPlain(ConnectionCalls)
    BY <1>2 DEF ReadsPlain, ConnectionCalls
<1>11. ReadsPlain(AttributeCalls)
    BY <1>2 DEF ReadsPlain, AttributeCalls
<1>12. ReadsPlain(SourceCalls)
    BY <1>2 DEF ReadsPlain, SourceCalls
<1>13. ReadsPlain(LastCalls(sh))
    BY <1>2, <1>4 DEF ReadsPlain, LastCalls
<1>14. ReadsPlain(ListenerCalls) /\ ReadsPlain(CarrierCalls)
    BY DEF ReadsPlain, ListenerCalls, CarrierCalls
<1>15. \A f \in ClientTables(sh) : ReadsPlain(f)
    BY <1>5, <1>6, <1>7, <1>8, <1>9, <1>10, <1>11, <1>12, <1>13, <1>14 DEF ClientTables
<1>16. m \in DOMAIN Joined(ClientTables(sh))
    BY MethodsEverywhere
<1>17. PICK f \in ClientTables(sh) : m \in DOMAIN f /\ Joined(ClientTables(sh))[m] = f[m]
    BY <1>16, JoinedSome
<1> QED BY <1>15, <1>17 DEF ReadsPlain, PlainRow, ClientOf

(* What is known of a call at every step of it.                             *)
CallSound(c) ==
    /\ DOMAIN c = {"m", "sh", "arg", "at", "served", "lost", "result"}
    /\ c.at \in {"sent", "answered"} => c.m \in Methods /\ c.sh \in Shapes
    /\ c.at = "sent" => c.served = "no"
    /\ c.at = "answered" => c.served \in {"OK", "ERR"}
    /\ c.at = "done" =>
          \/ c.served = "no"
          \/ c.result = "BINDER" /\ (c.served # "OK" \/ c.lost)
          \/ /\ c.m \in Methods /\ c.sh \in Shapes /\ c.served \in {"OK", "ERR"}
             /\ c.result = CheckRetval(c.m, c.sh, c.served)

CallsSound ==
    /\ methods \in MethodMixes
    /\ msg = [t \in Client |-> msg[t]]
    /\ \A t \in Client : CallSound(msg[t])

(* The transform the client remembers is the one under way, or the queue's. *)
CacheSound ==
    /\ \A t, u \in Client : Setting(t) /\ Setting(u) => t = u
    /\ \A t \in Client : Setting(t) => msg[t].arg = lastTransform
    /\ \A t \in Client : Setting(t) /\ msg[t].at = "answered" /\ msg[t].served = "OK"
                            => serverTransform = lastTransform
    /\ (\A t \in Client : ~Setting(t)) /\ lastTransform # BUTT => serverTransform = lastTransform

ProtocolSound == CallsSound /\ (doubted \/ CacheSound)

(* A step moves one call and leaves the others alone.                       *)
LEMMA OneCallMoves ==
    ASSUME CallsSound, NEW t \in Client, NEW c, CallSound(c), msg' = [msg EXCEPT ![t] = c],
           methods' = methods
    PROVE  CallsSound' /\ msg'[t] = c /\ \A u \in Client \ {t} : msg'[u] = msg[u]
<1>1. msg = [u \in Client |-> msg[u]] /\ methods \in MethodMixes /\ \A u \in Client : CallSound(msg[u])
    BY DEF CallsSound
<1>2. msg'[t] = c /\ (\A u \in Client \ {t} : msg'[u] = msg[u]) /\ msg' = [u \in Client |-> msg'[u]]
    BY <1>1
<1>3. \A u \in Client : CallSound(msg'[u])
    BY <1>1, <1>2
<1>4. \A u \in Client : CallSound(msg[u])'
    BY <1>3 DEF CallSound, CheckRetval, TooLongFor, ReaderRefuses
<1> QED BY <1>1, <1>2, <1>4 DEF CallsSound

(* Steps that leave the calls alone keep them sound.                        *)
LEMMA SameCalls ==
    ASSUME CallsSound, msg' = msg, methods' = methods
    PROVE  CallsSound'
<1>1. \A u \in Client : CallSound(msg'[u])
    BY DEF CallsSound
<1>2. \A u \in Client : CallSound(msg[u])'
    BY <1>1 DEF CallSound, CheckRetval, TooLongFor, ReaderRefuses
<1> QED BY <1>2 DEF CallsSound

(* A thread calls a method of the tables with a shape of the data.          *)
LEMMA CallIsOfMix ==
    ASSUME CallsSound, NEW t \in Client, NEW m, NEW sh, Calls(t, m, sh)
    PROVE  m \in Methods /\ sh \in Shapes
BY MixAssumption DEF CallsSound, Calls

(* What SetTransform's row of the tables means for a call of it.            *)
LEMMA SetTransformAnswers ==
    ASSUME NEW sh \in Shapes
    PROVE  /\ ~StubUnfit("SetTransform", sh)
           /\ \A served \in {"OK", "ERR"} : CheckRetval("SetTransform", sh, served) = served
<1>1. ClientOf[sh]["SetTransform"] = Does(<<"u32">>) /\ StubOf[sh]["SetTransform"] = Takes(<<"u32">>)
    BY SetTransformRow DEF SetRow
<1>2. ~TooLongFor(ReaderRefuses, <<"u32">>, sh) /\ ~TooLongFor(ReaderRefuses, <<>>, sh)
    BY DEF TooLongFor, ReaderRefuses
<1>3. ~StubUnfit("SetTransform", sh)
    BY <1>1, <1>2 DEF StubUnfit, Takes
<1>4. /\ ClientOf[sh]["SetTransform"].form = "status" /\ ClientOf[sh]["SetTransform"].ok = <<>>
      /\ StubOf[sh]["SetTransform"].hides = FALSE
    BY <1>1 DEF Does, Takes
<1>5. ASSUME NEW served \in {"OK", "ERR"} PROVE CheckRetval("SetTransform", sh, served) = served
    BY <1>2, <1>4 DEF CheckRetval
<1> QED BY <1>3, <1>5

(* A step of a call that is not a SetTransform under way disturbs none.     *)
LEMMA CacheUndisturbed ==
    ASSUME CacheSound, NEW t \in Client, \A u \in Client \ {t} : msg'[u] = msg[u],
           ~Setting(t), ~(msg'[t].m = "SetTransform" /\ msg'[t].at \in {"sent", "answered"}),
           UNCHANGED <<lastTransform, serverTransform>>
    PROVE  CacheSound'
<1>1. \A u \in Client : Setting(u)' <=> Setting(u) /\ u # t
    BY DEF Setting
<1>2. \A u \in Client : Setting(u)' => msg'[u] = msg[u] /\ Setting(u)
    BY <1>1
<1>3. (\A u \in Client : ~Setting(u)') => \A u \in Client : ~Setting(u)
    BY <1>1
<1> QED BY <1>2, <1>3 DEF CacheSound

(* The client's own answers, and the end of a call.                         *)
LEMMA AnsweredHere ==
    ASSUME ProtocolSound, NEW t \in Client, msg[t].at \in {"idle", "done"}, NEW c, CallSound(c),
           c.at \in {"idle", "done"}, msg' = [msg EXCEPT ![t] = c],
           UNCHANGED <<serverUp, lastTransform, serverTransform, doubted, known, methods>>
    PROVE  ProtocolSound'
<1>1. CallsSound' /\ msg'[t] = c /\ \A u \in Client \ {t} : msg'[u] = msg[u]
    BY OneCallMoves DEF ProtocolSound
<1>2. CacheSound => CacheSound'
    BY <1>1, CacheUndisturbed DEF Setting
<1> QED BY <1>1, <1>2 DEF ProtocolSound

(* A thread between two calls is sound.                                     *)
LEMMA NoMsgSound == CallSound(NoMsg) /\ NoMsg.at = "idle"
BY DEF NoMsg, CallSound

Finished(m, sh, result)  == [NoMsg EXCEPT !.m = m, !.sh = sh, !.at = "done", !.result = result]
SkippedWith(sh, transform) == [NoMsg EXCEPT !.m = "SetTransform", !.sh = sh, !.at = "done",
                                            !.arg = transform, !.result = "SKIPPED"]

(* A call the proxy finishes without a message is sound.                    *)
LEMMA FinishedSound ==
    ASSUME NEW m, NEW sh, NEW result, NEW transform
    PROVE  /\ CallSound(Finished(m, sh, result)) /\ Finished(m, sh, result).at = "done"
           /\ CallSound(SkippedWith(sh, transform)) /\ SkippedWith(sh, transform).at = "done"
<1> DEFINE c == Finished(m, sh, result)
           d == SkippedWith(sh, transform)
<1>1. /\ c.at = "done" /\ c.served = "no"
      /\ DOMAIN c = {"m", "sh", "arg", "at", "served", "lost", "result"}
    BY DEF NoMsg, Finished
<1>2. /\ d.at = "done" /\ d.served = "no"
      /\ DOMAIN d = {"m", "sh", "arg", "at", "served", "lost", "result"}
    BY DEF NoMsg, SkippedWith
<1> HIDE DEF c, d
<1>3. CallSound(c) /\ CallSound(d)
    BY <1>1, <1>2 DEF CallSound
<1> QED BY <1>1, <1>2, <1>3 DEF c, d

(* Sending keeps the invariant: SetTransform notes what it sends.           *)
LEMMA SendsSound ==
    ASSUME ProtocolSound, NEW t \in Client, NEW m, NEW sh, NEW arg, Sends(t, m, sh, arg)
    PROVE  ProtocolSound'
<1> DEFINE c == [NoMsg EXCEPT !.m = m, !.sh = sh, !.at = "sent", !.arg = arg]
<1>1. m \in Methods /\ sh \in Shapes
    BY CallIsOfMix DEF Sends, ProtocolSound
<1>2. c.m = m /\ c.sh = sh /\ c.at = "sent" /\ c.arg = arg /\ c.served = "no" /\ CallSound(c)
    <2>1. c.m = m /\ c.sh = sh /\ c.at = "sent" /\ c.arg = arg /\ c.served = "no"
        BY DEF NoMsg
    <2>2. DOMAIN c = {"m", "sh", "arg", "at", "served", "lost", "result"}
        BY DEF NoMsg
    <2> HIDE DEF c
    <2> QED BY <1>1, <2>1, <2>2 DEF CallSound
<1>3. msg' = [msg EXCEPT ![t] = c] /\ methods' = methods
    BY DEF Sends
<1>4. CallsSound' /\ msg'[t] = c /\ \A u \in Client \ {t} : msg'[u] = msg[u]
    BY <1>2, <1>3, OneCallMoves DEF ProtocolSound
<1>5. msg[t].at = "idle"
    BY DEF Sends, Calls
<1> HIDE DEF c
<1>6. CASE m # "SetTransform"
    <2>1. lastTransform' = lastTransform /\ serverTransform' = serverTransform /\ (doubted => doubted')
        BY <1>6 DEF Sends
    <2>2. CacheSound => CacheSound'
        BY <1>2, <1>4, <1>5, <1>6, <2>1, CacheUndisturbed DEF Setting
    <2> QED BY <1>4, <2>1, <2>2 DEF ProtocolSound
<1>7. CASE m = "SetTransform" /\ (doubted \/ \E u \in Client : Setting(u))
    <2>1. doubted'
        BY <1>7 DEF Sends
    <2> QED BY <1>4, <2>1 DEF ProtocolSound
<1>8. CASE m = "SetTransform" /\ ~doubted /\ \A u \in Client : ~Setting(u)
    <2>1. lastTransform' = arg
        BY <1>8 DEF Sends
    <2>2. \A u \in Client : Setting(u)' <=> u = t
        BY <1>2, <1>4, <1>8 DEF Setting
    <2>3. CacheSound'
        BY <1>2, <1>4, <2>1, <2>2 DEF CacheSound
    <2> QED BY <1>4, <2>3 DEF ProtocolSound
<1> QED BY <1>6, <1>7, <1>8

(* A lost transaction keeps it: a lost SetTransform is doubted.             *)
LEMMA LosesSound ==
    ASSUME ProtocolSound, NEW t \in Client, Loses(t)
    PROVE  ProtocolSound'
<1> DEFINE c == [msg[t] EXCEPT !.at = "done", !.lost = TRUE, !.result = "BINDER"]
<1>1. CallSound(msg[t]) /\ msg = [u \in Client |-> msg[u]]
    BY DEF ProtocolSound, CallsSound
<1>2. c.m = msg[t].m /\ c.at = "done" /\ CallSound(c)
    <2>1. c.m = msg[t].m /\ c.sh = msg[t].sh /\ c.at = "done" /\ c.lost /\ c.result = "BINDER"
        BY <1>1 DEF CallSound
    <2>2. DOMAIN c = {"m", "sh", "arg", "at", "served", "lost", "result"}
        BY <1>1 DEF CallSound
    <2> HIDE DEF c
    <2> QED BY <1>1, <2>1, <2>2 DEF CallSound
<1>3. msg' = [msg EXCEPT ![t] = c] /\ methods' = methods
    BY <1>1 DEF Loses
<1>4. CallsSound' /\ msg'[t] = c /\ \A u \in Client \ {t} : msg'[u] = msg[u]
    BY <1>2, <1>3, OneCallMoves DEF ProtocolSound
<1> HIDE DEF c
<1>5. lastTransform' = lastTransform /\ serverTransform' = serverTransform
      /\ doubted' = (doubted \/ msg[t].m = "SetTransform")
    BY DEF Loses
<1>6. msg[t].m # "SetTransform" /\ CacheSound => CacheSound'
    BY <1>2, <1>4, <1>5, CacheUndisturbed DEF Setting
<1> QED BY <1>4, <1>5, <1>6 DEF ProtocolSound

(* A refusal in the stub keeps it: SetTransform is never refused there.     *)
LEMMA StubRefusesSound ==
    ASSUME ProtocolSound, NEW t \in Client, StubRefuses(t)
    PROVE  ProtocolSound'
<1> DEFINE c == [msg[t] EXCEPT !.at = "done", !.served = "REFUSED", !.result = "BINDER"]
<1>1. CallSound(msg[t]) /\ msg = [u \in Client |-> msg[u]] /\ msg[t].at = "sent"
    BY DEF ProtocolSound, CallsSound, StubRefuses
<1>2. c.m = msg[t].m /\ c.at = "done" /\ CallSound(c)
    <2>1. c.m = msg[t].m /\ c.sh = msg[t].sh /\ c.at = "done" /\ c.served = "REFUSED" /\ c.result = "BINDER"
        BY <1>1 DEF CallSound
    <2>2. DOMAIN c = {"m", "sh", "arg", "at", "served", "lost", "result"}
        BY <1>1 DEF CallSound
    <2> HIDE DEF c
    <2> QED BY <1>1, <2>1, <2>2 DEF CallSound
<1>3. msg' = [msg EXCEPT ![t] = c] /\ methods' = methods
    BY <1>1 DEF StubRefuses
<1>4. CallsSound' /\ msg'[t] = c /\ \A u \in Client \ {t} : msg'[u] = msg[u]
    BY <1>2, <1>3, OneCallMoves DEF ProtocolSound
<1>5. msg[t].m # "SetTransform"
    <2>1. CASE msg[t].m \in HandleIsChecked
        BY <2>1 DEF HandleIsChecked
    <2>2. CASE msg[t].sh \in Shapes /\ StubUnfit(msg[t].m, msg[t].sh)
        BY <2>2, SetTransformAnswers
    <2> QED BY <1>1, <2>1, <2>2 DEF CallSound, StubRefuses
<1> HIDE DEF c
<1>6. lastTransform' = lastTransform /\ serverTransform' = serverTransform /\ doubted' = doubted
    BY DEF StubRefuses
<1>7. CacheSound => CacheSound'
    BY <1>2, <1>4, <1>5, <1>6, CacheUndisturbed DEF Setting
<1> QED BY <1>4, <1>6, <1>7 DEF ProtocolSound

(* The server's crash keeps it: no SetTransform crashes it.                 *)
LEMMA ServerCrashesSound ==
    ASSUME ProtocolSound, NEW t \in Client, ServerCrashes(t)
    PROVE  ProtocolSound'
<1> DEFINE c == [msg[t] EXCEPT !.at = "done", !.lost = TRUE, !.served = "NO_BUFFER", !.result = "BINDER"]
<1>1. CallSound(msg[t]) /\ msg = [u \in Client |-> msg[u]] /\ msg[t].m = "RequestBuffers"
    BY DEF ProtocolSound, CallsSound, ServerCrashes
<1>2. c.m = msg[t].m /\ c.at = "done" /\ CallSound(c)
    <2>1. c.m = msg[t].m /\ c.sh = msg[t].sh /\ c.at = "done" /\ c.lost /\ c.result = "BINDER"
        BY <1>1 DEF CallSound
    <2>2. DOMAIN c = {"m", "sh", "arg", "at", "served", "lost", "result"}
        BY <1>1 DEF CallSound
    <2> HIDE DEF c
    <2> QED BY <1>1, <2>1, <2>2 DEF CallSound
<1>3. msg' = [msg EXCEPT ![t] = c] /\ methods' = methods
    BY <1>1 DEF ServerCrashes
<1>4. CallsSound' /\ msg'[t] = c /\ \A u \in Client \ {t} : msg'[u] = msg[u]
    BY <1>2, <1>3, OneCallMoves DEF ProtocolSound
<1> HIDE DEF c
<1>5. lastTransform' = lastTransform /\ serverTransform' = serverTransform /\ doubted' = doubted
    BY DEF ServerCrashes
<1>6. CacheSound => CacheSound'
    BY <1>1, <1>2, <1>4, <1>5, CacheUndisturbed DEF Setting
<1> QED BY <1>4, <1>5, <1>6 DEF ProtocolSound

(* Serving keeps it: what SetTransform set is what the proxy noted.         *)
LEMMA ServesSound ==
    ASSUME ProtocolSound, NEW t \in Client, NEW outcome \in {"OK", "ERR"}, Serves(t, outcome)
    PROVE  ProtocolSound'
<1> DEFINE c == [msg[t] EXCEPT !.at = "answered", !.served = outcome]
<1>1. CallSound(msg[t]) /\ msg = [u \in Client |-> msg[u]] /\ msg[t].at = "sent"
    BY DEF ProtocolSound, CallsSound, Serves
<1>2. /\ c.m = msg[t].m /\ c.arg = msg[t].arg /\ c.at = "answered" /\ c.served = outcome
      /\ CallSound(c)
    <2>1. c.m = msg[t].m /\ c.sh = msg[t].sh /\ c.arg = msg[t].arg /\ c.at = "answered"
          /\ c.served = outcome
        BY <1>1 DEF CallSound
    <2>2. DOMAIN c = {"m", "sh", "arg", "at", "served", "lost", "result"}
        BY <1>1 DEF CallSound
    <2> HIDE DEF c
    <2> QED BY <1>1, <2>1, <2>2 DEF CallSound
<1>3. msg' = [msg EXCEPT ![t] = c] /\ methods' = methods
    BY <1>1 DEF Serves
<1>4. CallsSound' /\ msg'[t] = c /\ \A u \in Client \ {t} : msg'[u] = msg[u]
    BY <1>2, <1>3, OneCallMoves DEF ProtocolSound
<1> HIDE DEF c
<1>5. lastTransform' = lastTransform /\ doubted' = doubted
    BY DEF Serves
<1>6. CASE msg[t].m # "SetTransform"
    <2>1. serverTransform' = serverTransform
        BY <1>6 DEF Serves
    <2>2. CacheSound => CacheSound'
        BY <1>2, <1>4, <1>5, <1>6, <2>1, CacheUndisturbed DEF Setting
    <2> QED BY <1>4, <1>5, <2>2 DEF ProtocolSound
<1>7. CASE msg[t].m = "SetTransform"
    <2> SUFFICES ASSUME CacheSound PROVE CacheSound'
        BY <1>4, <1>5 DEF ProtocolSound
    <2>1. Setting(t) /\ \A u \in Client : Setting(u) => u = t
        BY <1>1, <1>7 DEF Setting, CacheSound
    <2>2. \A u \in Client : Setting(u)' <=> u = t
        BY <1>2, <1>4, <1>7, <2>1 DEF Setting
    <2>3. msg[t].arg = lastTransform
        BY <2>1 DEF CacheSound
    <2>4. outcome = "OK" => serverTransform' = lastTransform
        BY <1>7, <2>3 DEF Serves
    <2> QED BY <1>2, <1>4, <1>5, <2>2, <2>3, <2>4 DEF CacheSound
<1> QED BY <1>6, <1>7

(* Reading the reply keeps it: after a refusal the transform is forgotten.  *)
LEMMA ClientReadsSound ==
    ASSUME ProtocolSound, NEW t \in Client, ClientReads(t)
    PROVE  ProtocolSound'
<1> DEFINE result == CheckRetval(msg[t].m, msg[t].sh, msg[t].served)
           c == [msg[t] EXCEPT !.at = "done", !.result = result]
<1>1. CallSound(msg[t]) /\ msg = [u \in Client |-> msg[u]] /\ msg[t].at = "answered"
    BY DEF ProtocolSound, CallsSound, ClientReads
<1>2. msg[t].m \in Methods /\ msg[t].sh \in Shapes /\ msg[t].served \in {"OK", "ERR"}
    BY <1>1 DEF CallSound
<1>3. msg' = [msg EXCEPT ![t] = c] /\ methods' = methods
    BY <1>1 DEF ClientReads
<1>4. /\ lastTransform' = IF Unlearned(msg[t].m, result) THEN BUTT ELSE lastTransform
      /\ serverTransform' = serverTransform /\ doubted' = doubted
    BY DEF ClientReads
<1>5. c.m = msg[t].m /\ c.at = "done" /\ CallSound(c)
    <2> HIDE DEF result
    <2>1. c.m = msg[t].m /\ c.sh = msg[t].sh /\ c.at = "done" /\ c.served = msg[t].served
          /\ c.result = result
        BY <1>1 DEF CallSound
    <2>2. DOMAIN c = {"m", "sh", "arg", "at", "served", "lost", "result"}
        BY <1>1 DEF CallSound
    <2>3. result = CheckRetval(c.m, c.sh, c.served)
        BY <2>1 DEF result
    <2> HIDE DEF c
    <2> QED BY <1>2, <2>1, <2>2, <2>3 DEF CallSound
<1> HIDE DEF c
<1>6. CallsSound' /\ msg'[t] = c /\ \A u \in Client \ {t} : msg'[u] = msg[u]
    BY <1>3, <1>5, OneCallMoves DEF ProtocolSound
<1>7. CASE msg[t].m # "SetTransform"
    <2>1. lastTransform' = lastTransform
        BY <1>4, <1>7 DEF Unlearned
    <2>2. CacheSound => CacheSound'
        BY <1>4, <1>5, <1>6, <1>7, <2>1, CacheUndisturbed DEF Setting
    <2> QED BY <1>4, <1>6, <2>2 DEF ProtocolSound
<1>8. CASE msg[t].m = "SetTransform"
    <2> SUFFICES ASSUME CacheSound PROVE CacheSound'
        BY <1>4, <1>6 DEF ProtocolSound
    <2>1. Setting(t) /\ \A u \in Client : Setting(u) => u = t
        BY <1>1, <1>8 DEF Setting, CacheSound
    <2>2. \A u \in Client : ~Setting(u)'
        BY <1>5, <1>6, <2>1 DEF Setting
    <2>3. result = msg[t].served
        BY <1>2, <1>8, SetTransformAnswers
    <2>4. CASE msg[t].served = "OK"
        <3>1. lastTransform' = lastTransform /\ serverTransform = lastTransform
            BY <1>1, <1>4, <2>1, <2>3, <2>4 DEF Unlearned, CacheSound
        <3> QED BY <1>4, <2>2, <3>1 DEF CacheSound
    <2>5. CASE msg[t].served = "ERR"
        <3>1. lastTransform' = BUTT
            BY <1>4, <1>8, <2>3, <2>5 DEF Unlearned
        <3> QED BY <2>2, <3>1 DEF CacheSound, BUTT
    <2> QED BY <1>2, <2>4, <2>5
<1> QED BY <1>7, <1>8

(* Every step keeps the invariant.                                          *)
LEMMA ProtocolStep ==
    ProtocolSound /\ [ProtocolNext]_protocolVars => ProtocolSound'
<1> SUFFICES ASSUME ProtocolSound, [ProtocolNext]_protocolVars PROVE ProtocolSound'
    OBVIOUS
<1>1. ASSUME NEW t \in Client, NEW m, NEW sh,
             AnswersFromCache(t, m, sh) \/ ClientRefuses(t, m, sh)
      PROVE  ProtocolSound'
    <2>1. PICK result : Finishes(t, m, sh, result)
        BY <1>1 DEF AnswersFromCache, ClientRefuses
    <2>2. CallSound(Finished(m, sh, result)) /\ Finished(m, sh, result).at = "done"
        BY FinishedSound
    <2>3. msg[t].at = "idle" /\ msg' = [msg EXCEPT ![t] = Finished(m, sh, result)]
        BY <1>1, <2>1 DEF AnswersFromCache, ClientRefuses, Calls, Finishes, Finished
    <2>4. UNCHANGED <<serverUp, lastTransform, serverTransform, doubted, known, methods>>
        BY <1>1 DEF AnswersFromCache, ClientRefuses
    <2> QED BY <2>2, <2>3, <2>4, AnsweredHere
<1>2. ASSUME NEW t \in Client, NEW sh, SkipsTransform(t, sh) PROVE ProtocolSound'
    <2>1. CallSound(SkippedWith(sh, lastTransform)) /\ SkippedWith(sh, lastTransform).at = "done"
        BY FinishedSound
    <2>2. msg[t].at = "idle" /\ msg' = [msg EXCEPT ![t] = SkippedWith(sh, lastTransform)]
        BY <1>2 DEF SkipsTransform, Calls, SkippedWith
    <2>3. UNCHANGED <<serverUp, lastTransform, serverTransform, doubted, known, methods>>
        BY <1>2 DEF SkipsTransform
    <2> QED BY <2>1, <2>2, <2>3, AnsweredHere
<1>3. ASSUME NEW t \in Client, Returns(t) PROVE ProtocolSound'
    <2>1. CallSound(NoMsg) /\ NoMsg.at = "idle"
        BY NoMsgSound
    <2>2. msg[t].at = "done" /\ msg' = [msg EXCEPT ![t] = NoMsg]
          /\ UNCHANGED <<serverUp, lastTransform, serverTransform, doubted, known, methods>>
        BY <1>3 DEF Returns
    <2> QED BY <2>1, <2>2, AnsweredHere
<1>4. ASSUME NEW t \in Client, ClientStep(t) PROVE ProtocolSound'
    <2>1. CASE Loses(t) \/ ClientReads(t) \/ Returns(t)
        BY <2>1, <1>3, LosesSound, ClientReadsSound
    <2>2. ASSUME NEW m, NEW sh,
                 \/ AnswersFromCache(t, m, sh)
                 \/ ClientRefuses(t, m, sh)
                 \/ \E arg \in Transforms \union {BUTT} : Sends(t, m, sh, arg)
                 \/ m = "SetTransform" /\ SkipsTransform(t, sh)
          PROVE  ProtocolSound'
        BY <2>2, <1>1, <1>2, SendsSound
    <2> QED BY <1>4, <2>1, <2>2 DEF ClientStep
<1>5. ASSUME NEW t \in Client, ServerStep(t) PROVE ProtocolSound'
    BY <1>5, StubRefusesSound, ServesSound, ServerCrashesSound DEF ServerStep
<1>6. ASSUME NEW transform \in Transforms, ConsumerSetsTransform(transform) PROVE ProtocolSound'
    <2>1. msg' = msg /\ methods' = methods /\ doubted'
        BY <1>6 DEF ConsumerSetsTransform
    <2>2. CallsSound'
        BY <2>1, SameCalls DEF ProtocolSound
    <2> QED BY <2>1, <2>2 DEF ProtocolSound
<1>7. CASE UNCHANGED protocolVars
    <2>1. UNCHANGED <<msg, lastTransform, serverTransform, doubted, methods>>
        BY <1>7 DEF protocolVars
    <2>2. CallsSound'
        BY <2>1, SameCalls DEF ProtocolSound
    <2>3. CacheSound => CacheSound'
        BY <2>1 DEF CacheSound, Setting
    <2> QED BY <2>1, <2>2, <2>3 DEF ProtocolSound
<1> QED BY <1>4, <1>5, <1>6, <1>7 DEF ProtocolNext

(* It holds when the connection begins.                                     *)
LEMMA ProtocolStart == ProtocolInit => ProtocolSound
<1> SUFFICES ASSUME ProtocolInit PROVE ProtocolSound
    OBVIOUS
<1>1. \A t \in Client : msg[t] = NoMsg
    BY DEF ProtocolInit
<1>2. CallSound(NoMsg) /\ NoMsg.at = "idle"
    BY NoMsgSound
<1>3. CallsSound
    BY <1>1, <1>2 DEF ProtocolInit, CallsSound
<1>4. \A t \in Client : ~Setting(t)
    BY <1>1, <1>2 DEF Setting
<1> QED BY <1>3, <1>4 DEF ProtocolInit, ProtocolSound, CacheSound

(* What a client remembers of SetTransform is what the queue has, however   *)
(* many threads call, as long as no SetTransform was lost or met another    *)
(* and the consumer set none (BufferClientProducer::SetTransform).          *)
THEOREM RememberedTransformIsTrue == ProtocolSpec => []CacheIsTrue
<1>1. ProtocolSound => CacheIsTrue
    BY DEF ProtocolSound, CacheSound, CacheIsTrue
<1> QED BY <1>1, ProtocolStart, ProtocolStep, PTL DEF ProtocolSpec

(* A call that waits for its answer reports success when the server has     *)
(* done its part and only then (BufferClientProducer::CheckRetval and the   *)
(* reads after it, for every method and every shape of the data).           *)
THEOREM ReportsAreTrue == ProtocolSpec => []AnswersAreTrue
<1>1. ProtocolSound => AnswersAreTrue
    <2> SUFFICES ASSUME ProtocolSound, NEW t \in Client, msg[t].at = "done", msg[t].served # "no",
                        ~msg[t].lost, ClientOf[msg[t].sh][msg[t].m].form # "cast"
                 PROVE  /\ msg[t].result = "OK" => msg[t].served = "OK"
                        /\ /\ msg[t].served = "OK" /\ msg[t].sh.extra <= ExtraLimit
                           /\ msg[t].m = "SyncProducerCache" => msg[t].sh.n <= BatchLimit
                           => msg[t].result = "OK"
        BY DEF AnswersAreTrue
    <2> DEFINE m == msg[t].m
               sh == msg[t].sh
               served == msg[t].served
    <2>1. CallSound(msg[t])
        BY DEF ProtocolSound, CallsSound
    <2>2. CASE msg[t].result = "BINDER" /\ served # "OK"
        BY <2>2
    <2>3. CASE /\ m \in Methods /\ sh \in Shapes /\ served \in {"OK", "ERR"}
               /\ msg[t].result = CheckRetval(m, sh, served)
        <3>1. ASSUME served = "ERR" PROVE CheckRetval(m, sh, served) # "OK"
            BY <3>1 DEF CheckRetval
        <3>2. ASSUME served = "OK", sh.extra <= ExtraLimit,
                     m = "SyncProducerCache" => sh.n <= BatchLimit
              PROVE  CheckRetval(m, sh, served) = "OK"
            <4>1. PlainFields(ClientOf[sh][m].ok)
                BY <2>3, AnswersArePlain
            <4>2. sh.n \in Nat /\ sh.extra \in Nat /\ BatchLimit \in Nat /\ ExtraLimit \in Nat
                BY <2>3, ShapeAssumption, LimitAssumption
            <4>3. \A field \in Plain : ~ReaderRefuses(field, sh)
                BY <3>2, <4>2 DEF Plain, ReaderRefuses
            <4>4. ~TooLongFor(ReaderRefuses, ClientOf[sh][m].ok, sh)
                BY <4>1, <4>3 DEF TooLongFor, PlainFields
            <4>5. ~(m = "SyncProducerCache" /\ sh.n > BatchLimit)
                BY <3>2, <4>2
            <4>6. served # "ERR" /\ ClientOf[sh][m].form # "cast"
                BY <3>2
            <4> HIDE DEF m, sh, served
            <4> QED BY <4>4, <4>5, <4>6 DEF CheckRetval
        <3> QED BY <2>3, <3>1, <3>2
    <2> QED BY <2>1, <2>2, <2>3 DEF CallSound
<1> QED BY <1>1, ProtocolStart, ProtocolStep, PTL DEF ProtocolSpec

-----------------------------------------------------------------------------
(* Messages: parts and lists of fields, fields, rows, and the theorem. *)

(* Flattening, prefix by prefix: what FlattenSeq's recursive function is.   *)
FlatUpTo(g, seqs, n) == g = [i \in 1..n |-> IF i = 1 THEN seqs[i] ELSE g[i - 1] \o seqs[i]]

(* There is such a function for every prefix.                               *)
LEMMA PrefixesExist ==
    ASSUME NEW seqs, NEW N \in Nat
    PROVE  \A n \in 1..N : \E g : FlatUpTo(g, seqs, n)
<1> DEFINE T == {n \in 1..N : ~ \E g : FlatUpTo(g, seqs, n)}
<1> SUFFICES ASSUME T # {} PROVE FALSE
    OBVIOUS
<1>1. PICK x \in T : \A y \in T : x <= y
    <2>1. T \in SUBSET Nat
        OBVIOUS
    <2> HIDE DEF T
    <2> QED BY <2>1, LeastExists
<1>2. CASE x = 1
    <2> DEFINE g == [i \in 1..1 |-> seqs[1]]
    <2>1. FlatUpTo(g, seqs, 1)
        BY DEF FlatUpTo
    <2> QED BY <1>2, <2>1
<1>3. CASE x # 1
    <2>1. x - 1 \in 1..N /\ x - 1 \notin T /\ x \in 1..N
        BY <1>1, <1>3
    <2>2. PICK g : FlatUpTo(g, seqs, x - 1)
        BY <2>1
    <2> DEFINE h == [i \in 1..x |-> IF i = x THEN g[x - 1] \o seqs[x] ELSE g[i]]
    <2>3. FlatUpTo(h, seqs, x)
        <3>1. \A i \in 1..(x - 1) : g[i] = IF i = 1 THEN seqs[i] ELSE g[i - 1] \o seqs[i]
            BY <2>2 DEF FlatUpTo
        <3>2. \A i \in 1..(x - 1) : h[i] = g[i]
            BY <2>1
        <3>3. h[x] = h[x - 1] \o seqs[x]
            <4>1. x \in 1..x /\ x - 1 \in 1..(x - 1)
                BY <2>1, <1>3
            <4>2. h[x] = g[x - 1] \o seqs[x]
                BY <4>1
            <4>3. h[x - 1] = g[x - 1]
                BY <3>2, <4>1
            <4> HIDE DEF h
            <4> QED BY <4>2, <4>3
        <3>4. \A i \in 1..x : h[i] = IF i = 1 THEN seqs[i] ELSE h[i - 1] \o seqs[i]
            <4> SUFFICES ASSUME NEW i \in 1..x PROVE h[i] = IF i = 1 THEN seqs[i] ELSE h[i - 1] \o seqs[i]
                OBVIOUS
            <4>1. CASE i = x
                BY <4>1, <3>3, <1>3
            <4>2. CASE i # x /\ i # 1
                <5>1. i \in 1..(x - 1) /\ i - 1 \in 1..(x - 1)
                    BY <2>1, <4>2
                <5> HIDE DEF h
                <5> QED BY <4>2, <5>1, <3>1, <3>2
            <4>3. CASE i # x /\ i = 1
                <5>1. i \in 1..(x - 1)
                    BY <2>1, <4>3
                <5> HIDE DEF h
                <5> QED BY <4>3, <5>1, <3>1, <3>2
            <4> QED BY <4>1, <4>2, <4>3
        <3>5. h = [i \in 1..x |-> h[i]]
            OBVIOUS
        <3> HIDE DEF h
        <3> QED BY <3>4, <3>5 DEF FlatUpTo
    <2> QED BY <2>1, <2>3, <1>1
<1> QED BY <1>2, <1>3

(* And FlattenSeq is its last value.                                        *)
LEMMA FlattenMeans ==
    ASSUME NEW seqs, Len(seqs) \in Nat \ {0}
    PROVE  \E g : FlatUpTo(g, seqs, Len(seqs)) /\ FlattenSeq(seqs) = g[Len(seqs)]
<1> DEFINE N == Len(seqs)
           f == CHOOSE g : g = [i \in 1..N |-> IF i = 1 THEN seqs[i] ELSE g[i - 1] \o seqs[i]]
<1>1. \E g : g = [i \in 1..N |-> IF i = 1 THEN seqs[i] ELSE g[i - 1] \o seqs[i]]
    <2>1. N \in Nat /\ N \in 1..N
        OBVIOUS
    <2> HIDE DEF N
    <2>2. \E g : FlatUpTo(g, seqs, N)
        BY <2>1, PrefixesExist
    <2> QED BY <2>2 DEF FlatUpTo
<1>2. f = [i \in 1..N |-> IF i = 1 THEN seqs[i] ELSE f[i - 1] \o seqs[i]]
    BY <1>1
<1>3. FlattenSeq(seqs) = f[N]
    BY DEF FlattenSeq
<1> QED BY <1>2, <1>3 DEF FlatUpTo

(* The types a parcel knows.                                                *)
Primitive == {"i32", "u32", "bool", "f32", "u8", "i64", "u64", "f64", "str", "fd", "obj"}

(* Two messages of one layout: as many fields, each as wide as the other.   *)
SameLayout(a, b) ==
    /\ a \in Seq(Primitive) /\ b \in Seq(Primitive) /\ Len(a) = Len(b)
    /\ \A i \in 1..Len(a) : Width(a[i]) = Width(b[i])

(* Messages of one layout are the same on the wire.                         *)
LEMMA LayoutOnWire ==
    ASSUME NEW a, NEW b, SameLayout(a, b)
    PROVE  OnWire(a) = OnWire(b)
<1>1. DOMAIN a = 1..Len(a) /\ DOMAIN b = 1..Len(a)
    BY DEF SameLayout
<1> QED BY <1>1 DEF OnWire, SameLayout

(* A message has the layout it has.                                         *)
LEMMA LayoutReflexive ==
    ASSUME NEW a \in Seq(Primitive)
    PROVE  SameLayout(a, a)
BY DEF SameLayout

(* Joined messages have one layout if their parts have.                     *)
LEMMA LayoutsJoin ==
    ASSUME NEW a, NEW b, NEW c, NEW d, SameLayout(a, b), SameLayout(c, d)
    PROVE  SameLayout(a \o c, b \o d)
<1>1. /\ a \in Seq(Primitive) /\ b \in Seq(Primitive) /\ c \in Seq(Primitive) /\ d \in Seq(Primitive)
      /\ Len(a) = Len(b) /\ Len(c) = Len(d)
    BY DEF SameLayout
<1>2. a \o c \in Seq(Primitive) /\ b \o d \in Seq(Primitive) /\ Len(a \o c) = Len(a) + Len(c)
      /\ Len(b \o d) = Len(a) + Len(c)
    BY <1>1
<1>3. ASSUME NEW i \in 1..(Len(a) + Len(c)) PROVE Width((a \o c)[i]) = Width((b \o d)[i])
    <2>1. CASE i <= Len(a)
        <3>1. i \in 1..Len(a) /\ (a \o c)[i] = a[i] /\ (b \o d)[i] = b[i]
            BY <1>1, <2>1
        <3> QED BY <3>1 DEF SameLayout
    <2>2. CASE i > Len(a)
        <3>1. i - Len(a) \in 1..Len(c) /\ (a \o c)[i] = c[i - Len(a)] /\ (b \o d)[i] = d[i - Len(a)]
            BY <1>1, <2>2
        <3> QED BY <3>1 DEF SameLayout
    <2> QED BY <1>1, <2>1, <2>2
<1> QED BY <1>1, <1>2, <1>3 DEF SameLayout

(* Messages whose fields have pairwise one layout have one layout.          *)
LEMMA FlattenLayouts ==
    ASSUME NEW A, NEW B, Len(A) \in Nat \ {0}, Len(B) = Len(A),
           \A i \in 1..Len(A) : SameLayout(A[i], B[i])
    PROVE  SameLayout(FlattenSeq(A), FlattenSeq(B))
<1> DEFINE N == Len(A)
<1>1. PICK f : FlatUpTo(f, A, N) /\ FlattenSeq(A) = f[N]
    BY FlattenMeans
<1>2. PICK g : FlatUpTo(g, B, N) /\ FlattenSeq(B) = g[N]
    BY FlattenMeans
<1>3. N \in Nat \ {0}
    OBVIOUS
<1> HIDE DEF N
<1>4. \A i \in 1..N : f[i] = IF i = 1 THEN A[i] ELSE f[i - 1] \o A[i]
    BY <1>1 DEF FlatUpTo
<1>5. \A i \in 1..N : g[i] = IF i = 1 THEN B[i] ELSE g[i - 1] \o B[i]
    BY <1>2 DEF FlatUpTo
<1>6. \A i \in 1..N : SameLayout(f[i], g[i])
    <2> DEFINE T == {i \in 1..N : ~SameLayout(f[i], g[i])}
    <2> SUFFICES ASSUME T # {} PROVE FALSE
        OBVIOUS
    <2>1. PICK x \in T : \A y \in T : x <= y
        <3>1. T \in SUBSET Nat
            OBVIOUS
        <3> HIDE DEF T
        <3> QED BY <3>1, LeastExists
    <2>2. SameLayout(A[x], B[x])
        BY DEF N
    <2>3. CASE x = 1
        BY <2>2, <2>3, <1>4, <1>5
    <2>4. CASE x # 1
        <3>1. x - 1 \in 1..N /\ x - 1 \notin T /\ x \in 1..N
            BY <2>1, <2>4, <1>3
        <3>2. SameLayout(f[x - 1], g[x - 1])
            BY <3>1
        <3>3. SameLayout(f[x - 1] \o A[x], g[x - 1] \o B[x])
            BY <2>2, <3>2, LayoutsJoin
        <3>4. f[x] = f[x - 1] \o A[x] /\ g[x] = g[x - 1] \o B[x]
            BY <2>4, <3>1, <1>4, <1>5
        <3> QED BY <3>3, <3>4
    <2> QED BY <2>3, <2>4
<1> QED BY <1>1, <1>2, <1>3, <1>6

(* Extra data: the items the reader takes one by one are those written.     *)
LEMMA ExtraTypeIsField ==
    ASSUME NEW i \in Nat
    PROVE  ExtraType(i) \in Primitive
<1>1. i % 4 \in 0..3
    OBVIOUS
<1>2. (i % 4) + 1 \in 1..4
    BY <1>1
<1>3. \A j \in 1..4 : <<"i32", "i64", "f64", "str">>[j] \in Primitive
    BY DEF Primitive
<1> QED BY <1>2, <1>3 DEF ExtraType

(* The items of one entry more are the items and that entry.                *)
LEMMA ExtraItemsGrow ==
    ASSUME NEW n \in Nat
    PROVE  /\ ExtraItems(n) \in Seq(Primitive) /\ Len(ExtraItems(n)) = 3 * n
           /\ n # 0 => ExtraItems(n) = ExtraItems(n - 1) \o ReadExtraDataItem(n)
           /\ ExtraItems(0) = <<>>
<1>1. ASSUME NEW k \in Nat PROVE ExtraItems(k) \in Seq(Primitive) /\ Len(ExtraItems(k)) = 3 * k
    <2>1. \A i \in 1..(3 * k) : i \div 3 \in Nat
        BY <1>1
    <2>2. \A i \in 1..(3 * k) : (CASE i % 3 = 1 -> "str"
                                   [] i % 3 = 2 -> "i32"
                                   [] OTHER     -> ExtraType(i \div 3)) \in Primitive
        BY <2>1, ExtraTypeIsField DEF Primitive
    <2>3. 3 * k \in Nat
        BY <1>1
    <2> QED BY <2>2, <2>3 DEF ExtraItems
<1>2. ExtraItems(0) = <<>>
    BY <1>1
<1>3. ASSUME n # 0 PROVE ExtraItems(n) = ExtraItems(n - 1) \o ReadExtraDataItem(n)
    <2> DEFINE a == ExtraItems(n)
               b == ExtraItems(n - 1)
               c == ReadExtraDataItem(n)
               N == 3 * n
    <2>1. /\ a \in Seq(Primitive) /\ Len(a) = N /\ b \in Seq(Primitive) /\ Len(b) = N - 3
          /\ N \in Nat /\ N - 3 \in Nat
        <3>1. n - 1 \in Nat /\ 3 * (n - 1) = N - 3 /\ N \in Nat
            BY <1>3
        <3>2. b \in Seq(Primitive) /\ Len(b) = 3 * (n - 1)
            BY <3>1, <1>1
        <3>3. 3 * (n - 1) \in Nat
            BY <3>1
        <3>4. a \in Seq(Primitive) /\ Len(a) = N
            BY <1>1
        <3> HIDE DEF a, b, N
        <3> QED BY <3>1, <3>2, <3>3, <3>4
    <2>2. /\ c \in Seq(Primitive) /\ Len(c) = 3 /\ c[1] = "str" /\ c[2] = "i32" /\ c[3] = ExtraType(n)
        BY ExtraTypeIsField DEF ReadExtraDataItem, Primitive
    <2>3. /\ (N - 2) % 3 = 1 /\ (N - 1) % 3 = 2 /\ N % 3 = 0 /\ N \div 3 = n
        OBVIOUS
    <2>4. a[N - 2] = "str" /\ a[N - 1] = "i32" /\ a[N] = ExtraType(n)
        <3>1. N - 2 \in 1..N /\ N - 1 \in 1..N /\ N \in 1..N
            BY <2>1
        <3>2. \A i \in 1..N : a[i] = CASE i % 3 = 1 -> "str"
                                       [] i % 3 = 2 -> "i32"
                                       [] OTHER     -> ExtraType(i \div 3)
            BY DEF ExtraItems
        <3> HIDE DEF a, N
        <3>3. 0 # 1 /\ 0 # 2 /\ 1 # 2
            OBVIOUS
        <3> QED BY <2>3, <3>1, <3>2, <3>3
    <2>5. \A i \in 1..(N - 3) : a[i] = b[i]
        <3>1. \A i \in 1..(N - 3) : i \in 1..N /\ i \in 1..(3 * (n - 1))
            BY <2>1
        <3> QED BY <3>1 DEF ExtraItems
    <2> HIDE DEF a, b, c, N
    <2>6. /\ b \o c \in Seq(Primitive) /\ Len(b \o c) = N
          /\ \A i \in 1..N : (b \o c)[i] = IF i <= N - 3 THEN b[i] ELSE c[i - (N - 3)]
        <3>1. /\ b \o c \in Seq(Primitive) /\ Len(b \o c) = Len(b) + Len(c)
              /\ \A i \in 1..(Len(b) + Len(c)) :
                    (b \o c)[i] = IF i <= Len(b) THEN b[i] ELSE c[i - Len(b)]
            BY <2>1, <2>2, ConcatProperties
        <3>2. Len(b) + Len(c) = N
            BY <2>1, <2>2
        <3> QED BY <2>1, <3>1, <3>2
    <2>7. ASSUME NEW i \in 1..N PROVE a[i] = (b \o c)[i]
        <3>1. CASE i <= N - 3
            <4>1. i \in 1..(N - 3) /\ (b \o c)[i] = b[i]
                BY <2>1, <2>6, <3>1
            <4> QED BY <2>5, <4>1
        <3>2. CASE i = N - 2
            <4>1. ~(i <= N - 3) /\ i - (N - 3) = 1
                BY <2>1, <3>2
            <4> QED BY <2>2, <2>4, <2>6, <3>2, <4>1
        <3>3. CASE i = N - 1
            <4>1. ~(i <= N - 3) /\ i - (N - 3) = 2
                BY <2>1, <3>3
            <4> QED BY <2>2, <2>4, <2>6, <3>3, <4>1
        <3>4. CASE i = N
            <4>1. ~(i <= N - 3) /\ i - (N - 3) = 3
                BY <2>1, <3>4
            <4> QED BY <2>2, <2>4, <2>6, <3>4, <4>1
        <3>5. i <= N - 3 \/ i = N - 2 \/ i = N - 1 \/ i = N
            BY <2>1
        <3> QED BY <3>1, <3>2, <3>3, <3>4, <3>5
    <2>8. a = b \o c
        BY <2>1, <2>6, <2>7, SeqEqual
    <2> QED BY <2>8 DEF a, b, c
<1> QED BY <1>1, <1>2, <1>3

Grows(i) == ExtraItems(i) = ExtraItems(i - 1) \o ReadExtraDataItem(i)

(* Reading entry by entry finds all that was written.                       *)
LEMMA ExtraDataReadBack ==
    ASSUME NEW sh, sh.extra \in Nat
    PROVE  ReadExtraData(sh) = WriteExtraData(sh) /\ WriteExtraData(sh) \in Seq(Primitive)
<1> DEFINE N == sh.extra
           f == CHOOSE g : g = [i \in 0..N |-> IF i = 0 THEN <<>> ELSE g[i - 1] \o ReadExtraDataItem(i)]
<1>. N \in Nat
    OBVIOUS
<1>0. /\ \A i \in Nat : ExtraItems(i) \in Seq(Primitive)
      /\ \A i \in Nat : i # 0 => Grows(i)
      /\ ExtraItems(0) = <<>>
    BY ExtraItemsGrow DEF Grows
<1>1. f = [i \in 0..N |-> IF i = 0 THEN <<>> ELSE f[i - 1] \o ReadExtraDataItem(i)]
    <2> HIDE DEF N
    <2> DEFINE h == [i \in 0..N |-> ExtraItems(i)]
    <2>1. \A i \in 0..N : h[i] = IF i = 0 THEN <<>> ELSE h[i - 1] \o ReadExtraDataItem(i)
        <3>1. \A i \in 0..N : i # 0 => h[i] = ExtraItems(i) /\ h[i - 1] = ExtraItems(i - 1)
            OBVIOUS
        <3>2. h[0] = <<>>
            BY <1>0
        <3>3. \A i \in 0..N : i # 0 => Grows(i)
            BY <1>0
        <3> HIDE DEF h
        <3> QED BY <3>1, <3>2, <3>3 DEF Grows
    <2>2. h = [i \in 0..N |-> IF i = 0 THEN <<>> ELSE h[i - 1] \o ReadExtraDataItem(i)]
        <3>1. h = [i \in 0..N |-> h[i]]
            OBVIOUS
        <3> HIDE DEF h
        <3> QED BY <2>1, <3>1
    <2>3. \E g : g = [i \in 0..N |-> IF i = 0 THEN <<>> ELSE g[i - 1] \o ReadExtraDataItem(i)]
        <3> HIDE DEF h
        <3> QED BY <2>2
    <2> QED BY <2>3
<1> HIDE DEF f
<1>2. \A i \in 0..N : f[i] = IF i = 0 THEN <<>> ELSE f[i - 1] \o ReadExtraDataItem(i)
    BY <1>1
<1>3. \A i \in 0..N : f[i] = ExtraItems(i)
    <2> DEFINE T == {i \in 0..N : f[i] # ExtraItems(i)}
    <2> SUFFICES ASSUME T # {} PROVE FALSE
        OBVIOUS
    <2>1. PICK x \in T : \A y \in T : x <= y
        <3>1. T \in SUBSET Nat
            OBVIOUS
        <3> HIDE DEF T
        <3> QED BY <3>1, LeastExists
    <2>2. CASE x = 0
        BY <2>2, <1>0, <1>2
    <2>3. CASE x # 0
        <3>1. x - 1 \in 0..N /\ x - 1 \notin T /\ x \in 0..N
            BY <2>1, <2>3
        <3>2. f[x - 1] = ExtraItems(x - 1)
            BY <3>1
        <3>3. f[x] = ExtraItems(x - 1) \o ReadExtraDataItem(x)
            BY <1>2, <2>3, <3>1, <3>2
        <3>4. ExtraItems(x) = ExtraItems(x - 1) \o ReadExtraDataItem(x)
            <4>1. Grows(x)
                BY <2>3, <3>1, <1>0
            <4> QED BY <4>1 DEF Grows
        <3> QED BY <3>3, <3>4
    <2> QED BY <2>2, <2>3
<1>4. ReadExtraData(sh) = <<"i32", "i32">> \o f[N]
    BY DEF ReadExtraData, f
<1>5. f[N] = ExtraItems(N) /\ ExtraItems(N) \in Seq(Primitive)
    BY <1>0, <1>3
<1> HIDE DEF N
<1>6. <<"i32", "i32">> \o ExtraItems(N) \in Seq(Primitive)
    BY <1>5 DEF Primitive
<1> QED BY <1>4, <1>5, <1>6 DEF WriteExtraData, N

(* Two parts written one after the other are one message.                   *)
LEMMA JoinIs ==
    ASSUME NEW a \in Seq(Primitive), NEW b \in Seq(Primitive), NEW c \in Seq(Primitive),
           Len(c) = Len(a) + Len(b), \A i \in 1..Len(a) : c[i] = a[i],
           \A i \in 1..Len(b) : c[Len(a) + i] = b[i]
    PROVE  a \o b = c
<1>1. /\ a \o b \in Seq(Primitive) /\ Len(a \o b) = Len(a) + Len(b)
      /\ \A i \in 1..(Len(a) + Len(b)) : (a \o b)[i] = IF i <= Len(a) THEN a[i] ELSE b[i - Len(a)]
    BY ConcatProperties
<1>2. ASSUME NEW i \in 1..Len(c) PROVE c[i] = (a \o b)[i]
    <2>1. CASE i <= Len(a)
        BY <1>1, <2>1
    <2>2. CASE i > Len(a)
        <3>1. i - Len(a) \in 1..Len(b) /\ Len(a) + (i - Len(a)) = i
            BY <2>2
        <3>2. c[i] = b[i - Len(a)]
            BY <3>1
        <3> QED BY <1>1, <2>2, <3>2
    <2> QED BY <2>1, <2>2
<1> QED BY <1>1, <1>2, SeqEqual

(* Three parts written one after the other are one message.                 *)
Joins(a, b, c, d) ==
    /\ a \in Seq(Primitive) /\ b \in Seq(Primitive) /\ c \in Seq(Primitive)
    /\ d \in Seq(Primitive) /\ Len(d) = Len(a) + Len(b) + Len(c)
    /\ \A i \in 1..Len(a) : d[i] = a[i]
    /\ \A i \in 1..Len(b) : d[Len(a) + i] = b[i]
    /\ \A i \in 1..Len(c) : d[Len(a) + Len(b) + i] = c[i]

(* That is what \o makes of three parts.                                    *)
LEMMA JoinsAre ==
    ASSUME NEW a, NEW b, NEW c, NEW d, Joins(a, b, c, d)
    PROVE  (a \o b) \o c = d
<1>. /\ a \in Seq(Primitive) /\ b \in Seq(Primitive) /\ c \in Seq(Primitive)
     /\ d \in Seq(Primitive) /\ Len(d) = Len(a) + Len(b) + Len(c)
     /\ \A i \in 1..Len(a) : d[i] = a[i]
     /\ \A i \in 1..Len(b) : d[Len(a) + i] = b[i]
     /\ \A i \in 1..Len(c) : d[Len(a) + Len(b) + i] = c[i]
    BY DEF Joins
<1>1. /\ a \o b \in Seq(Primitive) /\ Len(a \o b) = Len(a) + Len(b)
      /\ \A i \in 1..(Len(a) + Len(b)) : (a \o b)[i] = IF i <= Len(a) THEN a[i] ELSE b[i - Len(a)]
    BY ConcatProperties
<1>2. \A i \in 1..Len(a \o b) : d[i] = (a \o b)[i]
    <2> SUFFICES ASSUME NEW i \in 1..(Len(a) + Len(b)) PROVE d[i] = (a \o b)[i]
        BY <1>1
    <2>1. CASE i <= Len(a)
        BY <1>1, <2>1
    <2>2. CASE i > Len(a)
        <3>1. i - Len(a) \in 1..Len(b) /\ Len(a) + (i - Len(a)) = i
            BY <2>2
        <3>2. d[i] = b[i - Len(a)]
            BY <3>1
        <3> QED BY <1>1, <2>2, <3>2
    <2> QED BY <2>1, <2>2
<1>3. Len(d) = Len(a \o b) + Len(c) /\ \A i \in 1..Len(c) : d[Len(a \o b) + i] = c[i]
    BY <1>1
<1> HIDE DEF Primitive
<1> QED BY <1>1, <1>2, <1>3, JoinIs

(* The four fields of a rectangle or a size, written in a loop.             *)
LEMMA TimesAre ==
    /\ Times(2, <<"i32">>) = <<"i32", "i32">>
    /\ Times(3, <<"i32">>) = <<"i32", "i32", "i32">>
    /\ Times(3, <<"u32">>) = <<"u32", "u32", "u32">>
    /\ Times(4, <<"i32">>) = <<"i32", "i32", "i32", "i32">>
    /\ Times(5, <<"i32">>) = <<"i32", "i32", "i32", "i32", "i32">>
BY DEF Times

(* ReadRequestConfig reads what WriteRequestConfig writes.                  *)
LEMMA RequestConfigRead == SameLayout(WriteRequestConfig, ReadRequestConfig)
<1> DEFINE a == <<"i32", "i32", "i32", "i32">>
           b == <<"u64">>
           c == <<"i32", "i32", "i32">>
           d == <<"i32", "i32", "i32", "i32", "u64", "i32", "i32", "i32">>
           e == <<"i32", "i32", "i32", "i32", "u64", "i32">>
           f == <<"i32">>
<1>1. WriteRequestConfig = (a \o b) \o c /\ ReadRequestConfig = (e \o f) \o f
    BY TimesAre DEF WriteRequestConfig, ReadRequestConfig
<1>2. /\ a \in Seq(Primitive) /\ b \in Seq(Primitive) /\ c \in Seq(Primitive)
      /\ d \in Seq(Primitive) /\ e \in Seq(Primitive) /\ f \in Seq(Primitive)
    BY DEF Primitive
<1>3. Len(a) = 4 /\ Len(b) = 1 /\ Len(c) = 3 /\ Len(d) = 8 /\ Len(e) = 6 /\ Len(f) = 1
    OBVIOUS
<1>4. /\ \A i \in 1..4 : d[i] = a[i]
      /\ \A i \in 1..1 : d[4 + i] = b[i]
      /\ \A i \in 1..3 : d[5 + i] = c[i]
    OBVIOUS
<1>5. /\ \A i \in 1..6 : d[i] = e[i]
      /\ \A i \in 1..1 : d[6 + i] = f[i]
      /\ \A i \in 1..1 : d[7 + i] = f[i]
    OBVIOUS
<1> HIDE DEF a, b, c, d, e, f
<1>6. (a \o b) \o c = d
    <2>1. Joins(a, b, c, d)
        BY <1>2, <1>3, <1>4 DEF Joins
    <2> QED BY <2>1, JoinsAre
<1>7. (e \o f) \o f = d
    <2>1. Joins(e, f, f, d)
        BY <1>2, <1>3, <1>5 DEF Joins
    <2> QED BY <2>1, JoinsAre
<1> QED BY <1>1, <1>2, <1>6, <1>7, LayoutReflexive

(* So does ReadBufferRequestConfig.                                         *)
LEMMA BufferRequestConfigRead == SameLayout(WriteBufferRequestConfig, ReadBufferRequestConfig)
<1> DEFINE a == <<"i32", "i32", "i32", "i32">>
           b == <<"u64", "i32", "u32", "u32", "i32", "i32">>
           d == <<"i32", "i32", "i32", "i32", "u64", "i32", "u32", "u32", "i32", "i32">>
           e == <<"i32", "i32", "i32", "i32", "u64", "i32", "u32", "u32", "i32">>
           f == <<"i32">>
<1>1. WriteBufferRequestConfig = a \o b /\ ReadBufferRequestConfig = e \o f
    BY TimesAre DEF WriteBufferRequestConfig, ReadBufferRequestConfig
<1>2. /\ a \in Seq(Primitive) /\ b \in Seq(Primitive)
      /\ d \in Seq(Primitive) /\ e \in Seq(Primitive) /\ f \in Seq(Primitive)
    BY DEF Primitive
<1>3. Len(a) = 4 /\ Len(b) = 6 /\ Len(d) = 10 /\ Len(e) = 9 /\ Len(f) = 1
    OBVIOUS
<1>4. (\A i \in 1..4 : d[i] = a[i]) /\ \A i \in 1..6 : d[4 + i] = b[i]
    OBVIOUS
<1>5. (\A i \in 1..9 : d[i] = e[i]) /\ \A i \in 1..1 : d[9 + i] = f[i]
    OBVIOUS
<1> HIDE DEF a, b, d, e, f
<1>6. a \o b = d
    <2>1. /\ Len(d) = Len(a) + Len(b)
          /\ \A i \in 1..Len(a) : d[i] = a[i]
          /\ \A i \in 1..Len(b) : d[Len(a) + i] = b[i]
        BY <1>3, <1>4
    <2> QED BY <1>2, <2>1, JoinIs
<1>7. e \o f = d
    <2>1. /\ Len(d) = Len(e) + Len(f)
          /\ \A i \in 1..Len(e) : d[i] = e[i]
          /\ \A i \in 1..Len(f) : d[Len(e) + i] = f[i]
        BY <1>3, <1>5
    <2> QED BY <1>2, <2>1, JoinIs
<1> QED BY <1>1, <1>2, <1>6, <1>7, LayoutReflexive

(* A part that may be missing.                                              *)
LEMMA OptionalRead ==
    ASSUME NEW a, NEW b, SameLayout(a, b), NEW there
    PROVE  SameLayout(Optional(there, a), Optional(there, b))
<1>1. SameLayout(<<>>, <<>>)
    BY DEF SameLayout
<1> QED BY <1>1 DEF Optional

(* A list is read as it is written.                                         *)
LEMMA ListRead ==
    ASSUME NEW n \in Nat, NEW fields \in Seq(Primitive), Len(fields) \in Nat \ {0}
    PROVE  SameLayout(Times(n, fields), Times(n, fields))
BY TimesType, LayoutReflexive

(* The lists that occur, and the fields and groups of fields.               *)
LEMMA PiecesRead ==
    ASSUME NEW n \in Nat, NEW there
    PROVE  /\ SameLayout(<<"u32">>, <<"u32">>) /\ SameLayout(<<"i32">>, <<"i32">>)
           /\ SameLayout(<<"bool">>, <<"bool">>) /\ SameLayout(<<"u64">>, <<"u64">>)
           /\ SameLayout(<<"u32", "bool">>, <<"u32", "bool">>)
           /\ SameLayout(<<"i64", "i64">>, <<"i64", "i64">>)
           /\ SameLayout(<<"u32", "u64", "bool">>, <<"u32", "u64", "bool">>)
           /\ SameLayout(Optional(there, <<"fd">>), Optional(there, <<"fd">>))
           /\ SameLayout(Times(n, <<"fd">>), Times(n, <<"fd">>))
           /\ SameLayout(Times(n, <<"i32">>), Times(n, <<"i32">>))
           /\ SameLayout(Times(n, <<"u32">>), Times(n, <<"u32">>))
           /\ SameLayout(Times(n, <<"u8">>), Times(n, <<"u8">>))
           /\ SameLayout(Times(n, <<"u32", "f32">>), Times(n, <<"u32", "f32">>))
           /\ SameLayout(Times(n, <<"u32", "u32", "u64", "i32">>), Times(n, <<"u32", "u32", "u64", "i32">>))
           /\ SameLayout(Times(n, <<"i32", "i32", "i32", "i32">>), Times(n, <<"i32", "i32", "i32", "i32">>))
<1>0. /\ "u32" \in Primitive /\ "i32" \in Primitive /\ "bool" \in Primitive /\ "u64" \in Primitive
      /\ "fd" \in Primitive /\ "u8" \in Primitive
    BY DEF Primitive
<1>1. ASSUME NEW f \in Primitive PROVE SameLayout(<<f>>, <<f>>)
    <2>1. <<f>> \in Seq(Primitive)
        OBVIOUS
    <2> QED BY <2>1, LayoutReflexive
<1>2. SameLayout(<<"u32", "bool">>, <<"u32", "bool">>)
    BY DEF SameLayout, Primitive
<1>3. SameLayout(<<"i64", "i64">>, <<"i64", "i64">>)
    BY DEF SameLayout, Primitive
<1>4. SameLayout(<<"u32", "u64", "bool">>, <<"u32", "u64", "bool">>)
    BY DEF SameLayout, Primitive
<1>5. SameLayout(Optional(there, <<"fd">>), Optional(there, <<"fd">>))
    BY <1>0, <1>1, OptionalRead
<1>6. ASSUME NEW f \in Primitive PROVE SameLayout(Times(n, <<f>>), Times(n, <<f>>))
    <2>1. <<f>> \in Seq(Primitive) /\ Len(<<f>>) \in Nat \ {0}
        OBVIOUS
    <2> QED BY <2>1, ListRead
<1>7. /\ SameLayout(Times(n, <<"fd">>), Times(n, <<"fd">>))
      /\ SameLayout(Times(n, <<"i32">>), Times(n, <<"i32">>))
      /\ SameLayout(Times(n, <<"u32">>), Times(n, <<"u32">>))
      /\ SameLayout(Times(n, <<"u8">>), Times(n, <<"u8">>))
    BY <1>0, <1>6
<1>8. SameLayout(Times(n, <<"u32", "f32">>), Times(n, <<"u32", "f32">>))
    <2> DEFINE F == <<"u32", "f32">>
    <2>1. F \in Seq(Primitive) /\ Len(F) \in Nat \ {0}
        BY DEF Primitive
    <2> HIDE DEF F
    <2>2. SameLayout(Times(n, F), Times(n, F))
        BY <2>1, ListRead
    <2> QED BY <2>2 DEF F
<1>9. SameLayout(Times(n, <<"u32", "u32", "u64", "i32">>), Times(n, <<"u32", "u32", "u64", "i32">>))
    <2> DEFINE F == <<"u32", "u32", "u64", "i32">>
    <2>1. F \in Seq(Primitive) /\ Len(F) \in Nat \ {0}
        BY DEF Primitive
    <2> HIDE DEF F
    <2>2. SameLayout(Times(n, F), Times(n, F))
        BY <2>1, ListRead
    <2> QED BY <2>2 DEF F
<1>10. SameLayout(Times(n, <<"i32", "i32", "i32", "i32">>), Times(n, <<"i32", "i32", "i32", "i32">>))
    <2> DEFINE F == <<"i32", "i32", "i32", "i32">>
    <2>1. F \in Seq(Primitive) /\ Len(F) \in Nat \ {0}
        BY DEF Primitive
    <2> HIDE DEF F
    <2>2. SameLayout(Times(n, F), Times(n, F))
        BY <2>1, ListRead
    <2> QED BY <2>2 DEF F
<1>11. /\ SameLayout(<<"u32">>, <<"u32">>) /\ SameLayout(<<"i32">>, <<"i32">>)
       /\ SameLayout(<<"bool">>, <<"bool">>) /\ SameLayout(<<"u64">>, <<"u64">>)
    BY <1>0, <1>1
<1> QED BY <1>2, <1>3, <1>4, <1>5, <1>7, <1>8, <1>9, <1>10, <1>11

(* A handle is read as it is written, though its size travels as i64 and is *)
(* read as u64.                                                             *)
LEMMA BufferHandleRead ==
    ASSUME NEW sh, sh.n \in Nat
    PROVE  SameLayout(WriteBufferHandle(sh), ReadBufferHandle(sh))
<1> DEFINE a == <<"u32", "u32">>
           b == <<"i32", "i32", "i32", "i32", "i32">>
           c == <<"i64", "u64", "bool">>
           d == <<"u32", "u32", "i32", "i32", "i32", "i32", "i32", "i64", "u64", "bool">>
           e == <<"i32", "i32", "i32", "i32", "i32", "u64", "u64">>
           f == <<"bool">>
           g == <<"u32", "u32", "i32", "i32", "i32", "i32", "i32", "u64", "u64", "bool">>
           fds == Optional(sh.fd, <<"fd">>)
<1>1. /\ WriteBufferHandle(sh) = ((((a \o b) \o c) \o fds) \o Times(sh.n, <<"fd">>)) \o Times(sh.n, <<"i32">>)
      /\ ReadBufferHandle(sh)  = ((((a \o e) \o f) \o fds) \o Times(sh.n, <<"fd">>)) \o Times(sh.n, <<"i32">>)
    BY TimesAre DEF WriteBufferHandle, ReadBufferHandle
<1>2. /\ a \in Seq(Primitive) /\ b \in Seq(Primitive) /\ c \in Seq(Primitive) /\ d \in Seq(Primitive)
      /\ e \in Seq(Primitive) /\ f \in Seq(Primitive) /\ g \in Seq(Primitive)
    BY DEF Primitive
<1>3. Len(a) = 2 /\ Len(b) = 5 /\ Len(c) = 3 /\ Len(d) = 10 /\ Len(e) = 7 /\ Len(f) = 1 /\ Len(g) = 10
    OBVIOUS
<1>4. /\ \A i \in 1..2 : d[i] = a[i]
      /\ \A i \in 1..5 : d[2 + i] = b[i]
      /\ \A i \in 1..3 : d[7 + i] = c[i]
    OBVIOUS
<1>5. /\ \A i \in 1..2 : g[i] = a[i]
      /\ \A i \in 1..7 : g[2 + i] = e[i]
      /\ \A i \in 1..1 : g[9 + i] = f[i]
    OBVIOUS
<1>6. SameLayout(d, g)
    <2>1. Width("i64") = Width("u64")
        BY DEF Width
    <2>2. \A i \in 1..10 : Width(d[i]) = Width(g[i])
        BY <2>1
    <2> HIDE DEF d, g
    <2> QED BY <1>2, <1>3, <2>2 DEF SameLayout
<1> HIDE DEF a, b, c, d, e, f, g, fds
<1>7. (a \o b) \o c = d
    <2>1. Joins(a, b, c, d)
        BY <1>2, <1>3, <1>4 DEF Joins
    <2> QED BY <2>1, JoinsAre
<1>8. (a \o e) \o f = g
    <2>1. Joins(a, e, f, g)
        BY <1>2, <1>3, <1>5 DEF Joins
    <2> QED BY <2>1, JoinsAre
<1>9. SameLayout(d \o fds, g \o fds)
    BY <1>6, PiecesRead, LayoutsJoin DEF fds
<1>10. SameLayout((d \o fds) \o Times(sh.n, <<"fd">>), (g \o fds) \o Times(sh.n, <<"fd">>))
    BY <1>9, PiecesRead, LayoutsJoin
<1>11. SameLayout(((d \o fds) \o Times(sh.n, <<"fd">>)) \o Times(sh.n, <<"i32">>),
                  ((g \o fds) \o Times(sh.n, <<"fd">>)) \o Times(sh.n, <<"i32">>))
    BY <1>10, PiecesRead, LayoutsJoin
<1> QED BY <1>1, <1>7, <1>8, <1>11

(* How parts are grouped does not matter.                                   *)
Message(a) == a \in Seq(Primitive)

(* Concatenation of messages is associative.                                *)
LEMMA Regrouped ==
    \A a, b, c : Message(a) /\ Message(b) /\ Message(c) =>
        Message(a \o b) /\ (a \o b) \o c = a \o (b \o c)
BY ConcatProperties, ConcatAssociative DEF Message

(* A buffer with the original fields of its handle.                         *)
LEMMA SurfaceBufferRead ==
    ASSUME NEW sh, sh.n \in Nat
    PROVE  SameLayout(WriteSurfaceBufferImpl(sh), ReadSurfaceBufferImpl(sh))
<1> DEFINE H == WriteBufferHandle(sh)
           R == ReadBufferHandle(sh)
           f == <<"bool">>
           a == <<"i32", "i32", "i32", "i32">>
           d == <<"bool", "i32", "i32", "i32", "i32">>
<1>1. WriteToMessageParcel(sh) = (H \o f) \o a /\ ReadFromMessageParcel(sh) = R \o d
    BY TimesAre DEF WriteToMessageParcel, ReadFromMessageParcel
<1>2. f \in Seq(Primitive) /\ a \in Seq(Primitive) /\ d \in Seq(Primitive)
    BY DEF Primitive
<1>3. Len(f) = 1 /\ Len(a) = 4 /\ Len(d) = 5
    OBVIOUS
<1>4. (\A i \in 1..1 : d[i] = f[i]) /\ \A i \in 1..4 : d[1 + i] = a[i]
    OBVIOUS
<1>5. SameLayout(H, R)
    BY BufferHandleRead
<1> HIDE DEF H, R, f, a, d
<1>6. f \o a = d
    <2>1. /\ Len(d) = Len(f) + Len(a)
          /\ \A i \in 1..Len(f) : d[i] = f[i]
          /\ \A i \in 1..Len(a) : d[Len(f) + i] = a[i]
        BY <1>3, <1>4
    <2> QED BY <1>2, <2>1, JoinIs
<1>7. H \in Seq(Primitive)
    BY <1>5 DEF SameLayout
<1>8. (H \o f) \o a = H \o d
    <2>1. Message(H) /\ Message(f) /\ Message(a)
        BY <1>2, <1>7 DEF Message
    <2>2. (H \o f) \o a = H \o (f \o a)
        BY <2>1, Regrouped
    <2> QED BY <1>6, <2>2
<1>9. SameLayout(H \o d, R \o d)
    BY <1>2, <1>5, LayoutReflexive, LayoutsJoin
<1>10. SameLayout(WriteToMessageParcel(sh), ReadFromMessageParcel(sh))
    BY <1>1, <1>8, <1>9
<1>11. SameLayout(Optional(sh.given, WriteToMessageParcel(sh)), Optional(sh.given, ReadFromMessageParcel(sh)))
    BY <1>10, OptionalRead
<1>12. SameLayout(<<"u32", "bool">>, <<"u32", "bool">>)
    BY PiecesRead
<1> QED BY <1>11, <1>12, LayoutsJoin DEF WriteSurfaceBufferImpl, ReadSurfaceBufferImpl

(* A buffer with all its properties, the fence included.                    *)
LEMMA WholeBufferRead ==
    ASSUME NEW sh, sh.n \in Nat
    PROVE  SameLayout(WriteSurfaceBufferImplWithAllProperties(sh), ReadSurfaceBufferImplWithAllProperties(sh))
<1> DEFINE H == <<"u32", "u64", "bool">> \o Optional(sh.given, WriteBufferHandle(sh))
           R == <<"u32", "u64", "bool">> \o Optional(sh.given, ReadBufferHandle(sh))
           F == Optional(sh.given, WriteFence(sh))
           a == <<"u32", "u32", "u32">>
           b == <<"i32", "i32">>
           c == <<"bool">>
           d == <<"i32", "i32", "i32", "i32">>
           e == <<"u32", "u32", "u32", "i32", "i32", "bool">>
           f == <<"u32", "u32", "u32", "i32", "i32", "bool", "i32", "i32", "i32", "i32", "bool">>
           u == <<"u32">>
<1>1. /\ WriteAllProperties(sh) = ((((((H \o a) \o b) \o c) \o d) \o c) \o F) \o u
      /\ ReadAllProperties(sh) = ((R \o f) \o F) \o u
    BY TimesAre DEF WriteAllProperties, ReadAllProperties, WriteFence, ReadFence
<1>2. /\ a \in Seq(Primitive) /\ b \in Seq(Primitive) /\ c \in Seq(Primitive)
      /\ d \in Seq(Primitive) /\ e \in Seq(Primitive) /\ f \in Seq(Primitive)
    BY DEF Primitive
<1>3. Len(a) = 3 /\ Len(b) = 2 /\ Len(c) = 1 /\ Len(d) = 4 /\ Len(e) = 6 /\ Len(f) = 11
    OBVIOUS
<1>4. /\ \A i \in 1..3 : e[i] = a[i]
      /\ \A i \in 1..2 : e[3 + i] = b[i]
      /\ \A i \in 1..1 : e[5 + i] = c[i]
    OBVIOUS
<1>5. /\ \A i \in 1..6 : f[i] = e[i]
      /\ \A i \in 1..4 : f[6 + i] = d[i]
      /\ \A i \in 1..1 : f[10 + i] = c[i]
    OBVIOUS
<1>6. SameLayout(H, R)
    <2>1. SameLayout(Optional(sh.given, WriteBufferHandle(sh)), Optional(sh.given, ReadBufferHandle(sh)))
        BY BufferHandleRead, OptionalRead
    <2>2. SameLayout(<<"u32", "u64", "bool">>, <<"u32", "u64", "bool">>)
        BY PiecesRead
    <2> QED BY <2>1, <2>2, LayoutsJoin
<1>7. SameLayout(F, F)
    <2>1. SameLayout(WriteFence(sh), WriteFence(sh))
        BY PiecesRead, LayoutsJoin DEF WriteFence
    <2> QED BY <2>1, OptionalRead
<1>8. SameLayout(u, u)
    BY PiecesRead
<1> HIDE DEF H, R, F, a, b, c, d, e, f, u
<1>9. (a \o b) \o c = e
    <2>1. Joins(a, b, c, e)
        BY <1>2, <1>3, <1>4 DEF Joins
    <2> QED BY <2>1, JoinsAre
<1>10. (e \o d) \o c = f
    <2>1. Joins(e, d, c, f)
        BY <1>2, <1>3, <1>5 DEF Joins
    <2> QED BY <2>1, JoinsAre
<1>11. ((((H \o a) \o b) \o c) \o d) \o c = H \o f
    <2> DEFINE p == a \o b
               r == e \o d
    <2>1. Message(H) /\ Message(a) /\ Message(b) /\ Message(c) /\ Message(d) /\ Message(e)
        BY <1>2, <1>6 DEF Message, SameLayout
    <2>2. Message(p) /\ (H \o a) \o b = H \o p
        BY <2>1, Regrouped
    <2>3. Message(r) /\ (H \o e) \o d = H \o r
        BY <2>1, Regrouped
    <2>4. p \o c = e /\ r \o c = f
        BY <1>9, <1>10
    <2> HIDE DEF p, r
    <2>5. (H \o p) \o c = H \o (p \o c)
        BY <2>1, <2>2, Regrouped
    <2>6. (H \o r) \o c = H \o (r \o c)
        BY <2>1, <2>3, Regrouped
    <2> QED BY <2>2, <2>3, <2>4, <2>5, <2>6
<1>12. SameLayout(H \o f, R \o f)
    BY <1>2, <1>6, LayoutReflexive, LayoutsJoin
<1>13. SameLayout((H \o f) \o F, (R \o f) \o F)
    BY <1>7, <1>12, LayoutsJoin
<1>14. SameLayout(((H \o f) \o F) \o u, ((R \o f) \o F) \o u)
    BY <1>8, <1>13, LayoutsJoin
<1>15. SameLayout(WriteAllProperties(sh), ReadAllProperties(sh))
    BY <1>1, <1>11, <1>14
<1>16. SameLayout(Optional(sh.given, WriteAllProperties(sh)), Optional(sh.given, ReadAllProperties(sh)))
    BY <1>15, OptionalRead
<1>17. SameLayout(<<"u32", "bool">>, <<"u32", "bool">>)
    BY PiecesRead
<1> QED BY <1>16, <1>17, LayoutsJoin DEF WriteSurfaceBufferImplWithAllProperties,
                                         ReadSurfaceBufferImplWithAllProperties

(* The fields messages are made of.                                         *)
Compound == {"config", "flush", "bufconfig", "fence", "fence?", "buffer", "whole", "bedata", "hdr",
             "hdrset", "tunnel", "verify", "property", "seqs", "matrix", "u64?"}

Field == Primitive \union Compound

(* Every field is read as it is written, whatever the shape of the data.    *)
LEMMA FieldRead ==
    ASSUME NEW sh \in Shapes, NEW field \in Field
    PROVE  SameLayout(Written(field, sh), Read(field, sh))
<1>1. sh.n \in Nat /\ sh.extra \in Nat
    BY ShapeAssumption
<1>2. CASE field = "config"
    BY <1>2, RequestConfigRead DEF Written, Read
<1>3. CASE field = "flush"
    <2>1. /\ Written(field, sh) = (<<"u32">> \o Times(sh.n, <<"i32", "i32", "i32", "i32">>)) \o <<"i64", "i64">>
          /\ Read(field, sh) = (<<"u32">> \o Times(sh.n, <<"i32", "i32", "i32", "i32">>)) \o <<"i64", "i64">>
        BY <1>3, TimesAre DEF Written, Read, WriteFlushConfig, ReadFlushConfig
    <2>2. /\ SameLayout(<<"u32">>, <<"u32">>) /\ SameLayout(<<"i64", "i64">>, <<"i64", "i64">>)
          /\ SameLayout(Times(sh.n, <<"i32", "i32", "i32", "i32">>), Times(sh.n, <<"i32", "i32", "i32", "i32">>))
        BY <1>1, PiecesRead
    <2>3. SameLayout(<<"u32">> \o Times(sh.n, <<"i32", "i32", "i32", "i32">>),
                     <<"u32">> \o Times(sh.n, <<"i32", "i32", "i32", "i32">>))
        BY <2>2, LayoutsJoin
    <2> QED BY <2>1, <2>2, <2>3, LayoutsJoin
<1>4. CASE field = "bufconfig"
    BY <1>4, BufferRequestConfigRead DEF Written, Read
<1>5. SameLayout(WriteFence(sh), ReadFence(sh))
    BY <1>1, PiecesRead, LayoutsJoin DEF WriteFence, ReadFence
<1>6. CASE field = "fence"
    BY <1>5, <1>6 DEF Written, Read
<1>7. CASE field = "fence?"
    <2>1. SameLayout(Optional(sh.given, WriteFence(sh)), Optional(sh.given, ReadFence(sh)))
        BY <1>5, OptionalRead
    <2>2. SameLayout(<<"bool">>, <<"bool">>)
        BY <1>1, PiecesRead
    <2> QED BY <1>7, <2>1, <2>2, LayoutsJoin DEF Written, Read
<1>8. CASE field = "buffer"
    BY <1>1, <1>8, SurfaceBufferRead DEF Written, Read
<1>9. CASE field = "whole"
    BY <1>1, <1>9, WholeBufferRead DEF Written, Read
<1>10. CASE field = "bedata"
    <2>1. SameLayout(WriteExtraData(sh), ReadExtraData(sh))
        BY <1>1, ExtraDataReadBack, LayoutReflexive
    <2> QED BY <1>10, <2>1 DEF Written, Read
<1>11. CASE field = "hdr"
    BY <1>1, <1>11, PiecesRead, LayoutsJoin DEF Written, Read, WriteHDRMetaData, ReadHDRMetaData
<1>12. CASE field = "hdrset"
    BY <1>1, <1>12, PiecesRead, LayoutsJoin DEF Written, Read, WriteHDRMetaDataSet, ReadHDRMetaDataSet
<1>13. CASE field = "tunnel"
    <2>1. SameLayout(WriteFileDescriptor(sh), ReadFileDescriptor(sh))
        BY <1>1, PiecesRead, LayoutsJoin DEF WriteFileDescriptor, ReadFileDescriptor
    <2>2. /\ SameLayout(<<"u32">>, <<"u32">>) /\ SameLayout(<<"bool">>, <<"bool">>)
          /\ SameLayout(Times(sh.n, <<"i32">>), Times(sh.n, <<"i32">>))
        BY <1>1, PiecesRead
    <2>3. SameLayout(<<"u32">> \o WriteFileDescriptor(sh), <<"u32">> \o ReadFileDescriptor(sh))
        BY <2>1, <2>2, LayoutsJoin
    <2>4. SameLayout(WriteExtDataHandle(sh), ReadExtDataHandle(sh))
        BY <2>2, <2>3, LayoutsJoin DEF WriteExtDataHandle, ReadExtDataHandle
    <2>5. SameLayout(Optional(sh.given, WriteExtDataHandle(sh)), Optional(sh.given, ReadExtDataHandle(sh)))
        BY <2>4, OptionalRead
    <2> QED BY <1>13, <2>2, <2>5, LayoutsJoin DEF Written, Read
<1>14. CASE field = "verify"
    BY <1>1, <1>14, PiecesRead, LayoutsJoin DEF Written, Read, WriteVerifyAllocInfo, ReadVerifyAllocInfo
<1>15. CASE field = "property"
    BY <1>1, <1>15, PiecesRead DEF Written, Read, WriteSurfaceProperty, ReadSurfaceProperty
<1>16. CASE field = "seqs"
    BY <1>1, <1>16, PiecesRead, LayoutsJoin DEF Written, Read
<1>17. CASE field = "matrix"
    <2>1. <<"f32">> \in Seq(Primitive) /\ Len(<<"f32">>) \in Nat \ {0} /\ 16 \in Nat
        BY DEF Primitive
    <2>2. SameLayout(Times(16, <<"f32">>), Times(16, <<"f32">>))
        BY <2>1, ListRead
    <2>3. SameLayout(<<"u32">>, <<"u32">>)
        BY <1>1, PiecesRead
    <2> QED BY <1>17, <2>2, <2>3, LayoutsJoin DEF Written, Read
<1>18. CASE field = "u64?"
    <2>1. SameLayout(<<"u64">>, <<"u64">>)
        BY <1>1, PiecesRead
    <2> QED BY <1>18, <2>1, OptionalRead DEF Written, Read
<1>19. CASE field \in Primitive
    <2>1. Written(field, sh) = <<field>> /\ Read(field, sh) = <<field>>
        BY <1>19 DEF Primitive, Written, Read
    <2>2. <<field>> \in Seq(Primitive)
        BY <1>19
    <2> QED BY <2>1, <2>2, LayoutReflexive
<1> QED BY <1>2, <1>3, <1>4, <1>6, <1>7, <1>8, <1>9, <1>10, <1>11, <1>12, <1>13, <1>14, <1>15, <1>16,
           <1>17, <1>18, <1>19 DEF Field, Compound

(* And so is every message made of them.                                    *)
LEMMA MessageRead ==
    ASSUME NEW sh \in Shapes, NEW fields \in Seq(Field)
    PROVE  OnWire(WrittenAll(fields, sh)) = OnWire(ReadAll(fields, sh))
<1> DEFINE A == [i \in DOMAIN fields |-> Written(fields[i], sh)]
           B == [i \in DOMAIN fields |-> Read(fields[i], sh)]
<1>1. WrittenAll(fields, sh) = FlattenSeq(A) /\ ReadAll(fields, sh) = FlattenSeq(B)
    BY DEF WrittenAll, ReadAll
<1>2. DOMAIN fields = 1..Len(fields) /\ Len(fields) \in Nat /\ \A i \in 1..Len(fields) : fields[i] \in Field
    OBVIOUS
<1>3. Len(A) = Len(fields) /\ Len(B) = Len(fields)
    BY <1>2
<1>4. \A i \in 1..Len(fields) : SameLayout(A[i], B[i])
    BY <1>2, FieldRead
<1>5. CASE Len(fields) = 0
    <2>1. A = B
        BY <1>2, <1>5
    <2> QED BY <1>1, <2>1
<1>6. CASE Len(fields) # 0
    <2>1. Len(A) \in Nat \ {0} /\ Len(B) = Len(A) /\ \A i \in 1..Len(A) : SameLayout(A[i], B[i])
        BY <1>2, <1>3, <1>4, <1>6
    <2> HIDE DEF A, B
    <2>2. SameLayout(FlattenSeq(A), FlattenSeq(B))
        BY <2>1, FlattenLayouts
    <2> QED BY <1>1, <2>2, LayoutOnWire
<1> QED BY <1>5, <1>6

(* What a call writes is what its stub takes, what the stub answers what    *)
(* the call reads: GetQueueSize's number but for its sign, and all but      *)
(* GetProducerInitInfo's second listener, which its stub insists on.        *)
RowFits(m, sent, stub, sh) ==
    /\ sent.form = stub.form /\ sent.err = stub.err
    /\ sent.writes = stub.takes \/ (m = "GetProducerInitInfo" /\ ~sh.given)
    /\ \/ sent.ok = stub.ok
       \/ sent.ok = <<"u32">> /\ stub.ok = <<"i32">> /\ sent.form = "value"

RowsFit(calls, stubs, sh) ==
    \A m \in DOMAIN calls \intersect DOMAIN stubs : RowFits(m, calls[m], stubs[m], sh)

TableFits(calls, sh) ==
    /\ \A m \in DOMAIN calls : \E g \in StubTables(sh) : m \in DOMAIN g
    /\ \A g \in StubTables(sh) : RowsFit(calls, g, sh)

(* The tables of the two sides fit, method by method.                       *)
LEMMA TablesFit ==
    ASSUME NEW sh \in Shapes
    PROVE  \A f \in ClientTables(sh) : TableFits(f, sh)
<1>1. /\ Grant = Granted /\ Frame = Flushed
      /\ \/ <<"obj", "str">> \o Optional(sh.given, <<"obj">>) = <<"obj", "str", "obj">>
         \/ ~sh.given
    <2> DEFINE a == <<"obj", "str">>
               b == <<"obj">>
               d == <<"obj", "str", "obj">>
    <2>1. a \in Seq(Primitive) /\ b \in Seq(Primitive) /\ d \in Seq(Primitive)
        BY DEF Primitive
    <2>2. Len(a) = 2 /\ Len(b) = 1 /\ Len(d) = 3
        OBVIOUS
    <2>3. (\A i \in 1..2 : d[i] = a[i]) /\ \A i \in 1..1 : d[2 + i] = b[i]
        OBVIOUS
    <2>4. Grant = Granted /\ Frame = Flushed
        BY DEF Grant, Granted, Frame, Flushed
    <2> HIDE DEF a, b, d
    <2>5. a \o b = d
        <3>1. /\ Len(d) = Len(a) + Len(b)
              /\ \A i \in 1..Len(a) : d[i] = a[i]
              /\ \A i \in 1..Len(b) : d[Len(a) + i] = b[i]
            BY <2>2, <2>3
        <3> QED BY <2>1, <3>1, JoinIs
    <2> QED BY <2>4, <2>5 DEF Optional, a, b, d
<1>2. /\ \A m, w : RowFits(m, Does(w), Takes(w), sh)
      /\ \A m, w : RowFits(m, Does(w), Hides(w, <<>>), sh)
      /\ \A m, w, r : RowFits(m, Asks(w, r), Gives(w, r), sh)
      /\ \A m, w, r : RowFits(m, Asks(w, r), Hides(w, r), sh)
      /\ \A m, w, r : RowFits(m, [Asks(w, r) EXCEPT !.err = <<"bool">>],
                                 [Gives(w, r) EXCEPT !.err = <<"bool">>], sh)
      /\ \A m, r : RowFits(m, Reads(r), Values(r), sh)
      /\ \A m, r : RowFits(m, Reads(r), [Values(r) EXCEPT !.hides = TRUE], sh)
      /\ \A m, w : RowFits(m, Casts(w), Silent(w), sh)
      /\ \A m : RowFits(m, Reads(<<"u32">>), Values(<<"i32">>), sh)
    BY DEF RowFits, Does, Asks, Reads, Casts, Takes, Gives, Values, Hides, Silent
<1>3. TableFits(RequestCalls(sh), sh)
    <2>1. \A m \in DOMAIN RequestCalls(sh) : \E g \in StubTables(sh) : m \in DOMAIN g
        BY DEF StubTables, RequestCalls, RequestStubs
    <2>2. /\ RowsFit(RequestCalls(sh), FlushStubs(sh), sh)
          /\ RowsFit(RequestCalls(sh), AttachStubs, sh)
          /\ RowsFit(RequestCalls(sh), QueueStubs, sh)
          /\ RowsFit(RequestCalls(sh), ConnectionStubs, sh)
          /\ RowsFit(RequestCalls(sh), AttributeStubs, sh)
          /\ RowsFit(RequestCalls(sh), SourceStubs, sh)
          /\ RowsFit(RequestCalls(sh), LightStubs, sh)
          /\ RowsFit(RequestCalls(sh), LastStubs, sh)
          /\ RowsFit(RequestCalls(sh), PreAllocStub, sh)
          /\ RowsFit(RequestCalls(sh), CacheStubs(sh), sh)
          /\ RowsFit(RequestCalls(sh), ListenerStubs, sh)
          /\ RowsFit(RequestCalls(sh), CarrierStubs, sh)
        BY DEF RowsFit, RequestCalls, FlushStubs, AttachStubs, QueueStubs, ConnectionStubs, 
                        AttributeStubs, SourceStubs, LightStubs, LastStubs, PreAllocStub, 
                        CacheStubs, ListenerStubs, CarrierStubs
    <2>3. RowsFit(RequestCalls(sh), RequestStubs(sh), sh)
        BY <1>1, <1>2 DEF RowsFit, RequestCalls, RequestStubs
    <2>4. \A g \in StubTables(sh) : RowsFit(RequestCalls(sh), g, sh)
        BY <2>2, <2>3 DEF StubTables
    <2> QED BY <2>1, <2>4 DEF TableFits
<1>4. TableFits(FlushedCalls, sh)
    <2>1. \A m \in DOMAIN FlushedCalls : \E g \in StubTables(sh) : m \in DOMAIN g
        BY DEF StubTables, FlushedCalls, FlushStubs
    <2>2. /\ RowsFit(FlushedCalls, RequestStubs(sh), sh)
          /\ RowsFit(FlushedCalls, AttachStubs, sh)
          /\ RowsFit(FlushedCalls, QueueStubs, sh)
          /\ RowsFit(FlushedCalls, ConnectionStubs, sh)
          /\ RowsFit(FlushedCalls, AttributeStubs, sh)
          /\ RowsFit(FlushedCalls, SourceStubs, sh)
          /\ RowsFit(FlushedCalls, LightStubs, sh)
          /\ RowsFit(FlushedCalls, LastStubs, sh)
          /\ RowsFit(FlushedCalls, PreAllocStub, sh)
          /\ RowsFit(FlushedCalls, CacheStubs(sh), sh)
          /\ RowsFit(FlushedCalls, ListenerStubs, sh)
          /\ RowsFit(FlushedCalls, CarrierStubs, sh)
        BY DEF RowsFit, FlushedCalls, RequestStubs, AttachStubs, QueueStubs, ConnectionStubs, 
                        AttributeStubs, SourceStubs, LightStubs, LastStubs, PreAllocStub, 
                        CacheStubs, ListenerStubs, CarrierStubs
    <2>3. RowsFit(FlushedCalls, FlushStubs(sh), sh)
        BY <1>1, <1>2 DEF RowsFit, FlushedCalls, FlushStubs
    <2>4. \A g \in StubTables(sh) : RowsFit(FlushedCalls, g, sh)
        BY <2>2, <2>3 DEF StubTables
    <2> QED BY <2>1, <2>4 DEF TableFits
<1>5. TableFits(FlushCalls(sh), sh)
    <2>1. \A m \in DOMAIN FlushCalls(sh) : \E g \in StubTables(sh) : m \in DOMAIN g
        BY DEF StubTables, FlushCalls, RequestStubs, FlushStubs
    <2>2. /\ RowsFit(FlushCalls(sh), AttachStubs, sh)
          /\ RowsFit(FlushCalls(sh), QueueStubs, sh)
          /\ RowsFit(FlushCalls(sh), ConnectionStubs, sh)
          /\ RowsFit(FlushCalls(sh), AttributeStubs, sh)
          /\ RowsFit(FlushCalls(sh), SourceStubs, sh)
          /\ RowsFit(FlushCalls(sh), LightStubs, sh)
          /\ RowsFit(FlushCalls(sh), LastStubs, sh)
          /\ RowsFit(FlushCalls(sh), PreAllocStub, sh)
          /\ RowsFit(FlushCalls(sh), CacheStubs(sh), sh)
          /\ RowsFit(FlushCalls(sh), ListenerStubs, sh)
          /\ RowsFit(FlushCalls(sh), CarrierStubs, sh)
        BY DEF RowsFit, FlushCalls, AttachStubs, QueueStubs, ConnectionStubs, AttributeStubs, 
                        SourceStubs, LightStubs, LastStubs, PreAllocStub, CacheStubs, 
                        ListenerStubs, CarrierStubs
    <2>3. RowsFit(FlushCalls(sh), RequestStubs(sh), sh)
        <3>1. FlushCalls(sh)["GetProducerInitInfo"].writes = <<"obj", "str">> \o Optional(sh.given, <<"obj">>)
            BY DEF FlushCalls
        <3>2. RequestStubs(sh)["GetProducerInitInfo"].takes = <<"obj", "str", "obj">>
            BY DEF RequestStubs, Takes
        <3>3. /\ FlushCalls(sh)["GetProducerInitInfo"].form = RequestStubs(sh)["GetProducerInitInfo"].form
              /\ FlushCalls(sh)["GetProducerInitInfo"].ok = RequestStubs(sh)["GetProducerInitInfo"].ok
              /\ FlushCalls(sh)["GetProducerInitInfo"].err = RequestStubs(sh)["GetProducerInitInfo"].err
            BY DEF FlushCalls, RequestStubs, Takes
        <3>4. RowFits("GetProducerInitInfo", FlushCalls(sh)["GetProducerInitInfo"],
                      RequestStubs(sh)["GetProducerInitInfo"], sh)
            BY <1>1, <3>1, <3>2, <3>3 DEF RowFits
        <3>5. DOMAIN FlushCalls(sh) \intersect DOMAIN RequestStubs(sh) = {"GetProducerInitInfo"}
            BY DEF FlushCalls, RequestStubs
        <3> QED BY <3>4, <3>5 DEF RowsFit
    <2>4. RowsFit(FlushCalls(sh), FlushStubs(sh), sh)
        BY <1>1, <1>2 DEF RowsFit, FlushCalls, FlushStubs
    <2>5. \A g \in StubTables(sh) : RowsFit(FlushCalls(sh), g, sh)
        BY <2>2, <2>3, <2>4 DEF StubTables
    <2> QED BY <2>1, <2>5 DEF TableFits
<1>6. TableFits(AttachCalls, sh)
    <2>1. \A m \in DOMAIN AttachCalls : \E g \in StubTables(sh) : m \in DOMAIN g
        BY DEF StubTables, AttachCalls, AttachStubs, QueueStubs, ConnectionStubs
    <2>2. /\ RowsFit(AttachCalls, RequestStubs(sh), sh)
          /\ RowsFit(AttachCalls, FlushStubs(sh), sh)
          /\ RowsFit(AttachCalls, AttributeStubs, sh)
          /\ RowsFit(AttachCalls, SourceStubs, sh)
          /\ RowsFit(AttachCalls, LightStubs, sh)
          /\ RowsFit(AttachCalls, LastStubs, sh)
          /\ RowsFit(AttachCalls, PreAllocStub, sh)
          /\ RowsFit(AttachCalls, CacheStubs(sh), sh)
          /\ RowsFit(AttachCalls, ListenerStubs, sh)
          /\ RowsFit(AttachCalls, CarrierStubs, sh)
        BY DEF RowsFit, AttachCalls, RequestStubs, FlushStubs, AttributeStubs, SourceStubs, 
                        LightStubs, LastStubs, PreAllocStub, CacheStubs, ListenerStubs, 
                        CarrierStubs
    <2>3. RowsFit(AttachCalls, AttachStubs, sh)
        BY <1>1, <1>2 DEF RowsFit, AttachCalls, AttachStubs
    <2>4. RowsFit(AttachCalls, QueueStubs, sh)
        BY <1>1, <1>2 DEF RowsFit, AttachCalls, QueueStubs
    <2>5. RowsFit(AttachCalls, ConnectionStubs, sh)
        BY <1>1, <1>2 DEF RowsFit, AttachCalls, ConnectionStubs
    <2>6. \A g \in StubTables(sh) : RowsFit(AttachCalls, g, sh)
        BY <2>2, <2>3, <2>4, <2>5 DEF StubTables
    <2> QED BY <2>1, <2>6 DEF TableFits
<1>7. TableFits(QueueCalls, sh)
    <2>1. \A m \in DOMAIN QueueCalls : \E g \in StubTables(sh) : m \in DOMAIN g
        BY DEF StubTables, QueueCalls, AttachStubs, QueueStubs
    <2>2. /\ RowsFit(QueueCalls, RequestStubs(sh), sh)
          /\ RowsFit(QueueCalls, FlushStubs(sh), sh)
          /\ RowsFit(QueueCalls, ConnectionStubs, sh)
          /\ RowsFit(QueueCalls, AttributeStubs, sh)
          /\ RowsFit(QueueCalls, SourceStubs, sh)
          /\ RowsFit(QueueCalls, LightStubs, sh)
          /\ RowsFit(QueueCalls, LastStubs, sh)
          /\ RowsFit(QueueCalls, PreAllocStub, sh)
          /\ RowsFit(QueueCalls, CacheStubs(sh), sh)
          /\ RowsFit(QueueCalls, ListenerStubs, sh)
          /\ RowsFit(QueueCalls, CarrierStubs, sh)
        BY DEF RowsFit, QueueCalls, RequestStubs, FlushStubs, ConnectionStubs, AttributeStubs, 
                        SourceStubs, LightStubs, LastStubs, PreAllocStub, CacheStubs, 
                        ListenerStubs, CarrierStubs
    <2>3. RowsFit(QueueCalls, AttachStubs, sh)
        BY <1>1, <1>2 DEF RowsFit, QueueCalls, AttachStubs
    <2>4. RowsFit(QueueCalls, QueueStubs, sh)
        BY <1>1, <1>2 DEF RowsFit, QueueCalls, QueueStubs
    <2>5. \A g \in StubTables(sh) : RowsFit(QueueCalls, g, sh)
        BY <2>2, <2>3, <2>4 DEF StubTables
    <2> QED BY <2>1, <2>5 DEF TableFits
<1>8. TableFits(ConnectionCalls, sh)
    <2>1. \A m \in DOMAIN ConnectionCalls : \E g \in StubTables(sh) : m \in DOMAIN g
        BY DEF StubTables, ConnectionCalls, QueueStubs, ConnectionStubs, AttributeStubs
    <2>2. /\ RowsFit(ConnectionCalls, RequestStubs(sh), sh)
          /\ RowsFit(ConnectionCalls, FlushStubs(sh), sh)
          /\ RowsFit(ConnectionCalls, AttachStubs, sh)
          /\ RowsFit(ConnectionCalls, SourceStubs, sh)
          /\ RowsFit(ConnectionCalls, LightStubs, sh)
          /\ RowsFit(ConnectionCalls, LastStubs, sh)
          /\ RowsFit(ConnectionCalls, PreAllocStub, sh)
          /\ RowsFit(ConnectionCalls, CacheStubs(sh), sh)
          /\ RowsFit(ConnectionCalls, ListenerStubs, sh)
          /\ RowsFit(ConnectionCalls, CarrierStubs, sh)
        BY DEF RowsFit, ConnectionCalls, RequestStubs, FlushStubs, AttachStubs, SourceStubs, 
                        LightStubs, LastStubs, PreAllocStub, CacheStubs, ListenerStubs, 
                        CarrierStubs
    <2>3. RowsFit(ConnectionCalls, QueueStubs, sh)
        BY <1>1, <1>2 DEF RowsFit, ConnectionCalls, QueueStubs
    <2>4. RowsFit(ConnectionCalls, ConnectionStubs, sh)
        BY <1>1, <1>2 DEF RowsFit, ConnectionCalls, ConnectionStubs
    <2>5. RowsFit(ConnectionCalls, AttributeStubs, sh)
        BY <1>1, <1>2 DEF RowsFit, ConnectionCalls, AttributeStubs
    <2>6. \A g \in StubTables(sh) : RowsFit(ConnectionCalls, g, sh)
        BY <2>2, <2>3, <2>4, <2>5 DEF StubTables
    <2> QED BY <2>1, <2>6 DEF TableFits
<1>9. TableFits(AttributeCalls, sh)
    <2>1. \A m \in DOMAIN AttributeCalls : \E g \in StubTables(sh) : m \in DOMAIN g
        BY DEF StubTables, AttributeCalls, AttributeStubs, SourceStubs
    <2>2. /\ RowsFit(AttributeCalls, RequestStubs(sh), sh)
          /\ RowsFit(AttributeCalls, FlushStubs(sh), sh)
          /\ RowsFit(AttributeCalls, AttachStubs, sh)
          /\ RowsFit(AttributeCalls, QueueStubs, sh)
          /\ RowsFit(AttributeCalls, ConnectionStubs, sh)
          /\ RowsFit(AttributeCalls, LightStubs, sh)
          /\ RowsFit(AttributeCalls, LastStubs, sh)
          /\ RowsFit(AttributeCalls, PreAllocStub, sh)
          /\ RowsFit(AttributeCalls, CacheStubs(sh), sh)
          /\ RowsFit(AttributeCalls, ListenerStubs, sh)
          /\ RowsFit(AttributeCalls, CarrierStubs, sh)
        BY DEF RowsFit, AttributeCalls, RequestStubs, FlushStubs, AttachStubs, QueueStubs, 
                        ConnectionStubs, LightStubs, LastStubs, PreAllocStub, CacheStubs, 
                        ListenerStubs, CarrierStubs
    <2>3. RowsFit(AttributeCalls, AttributeStubs, sh)
        BY <1>1, <1>2 DEF RowsFit, AttributeCalls, AttributeStubs
    <2>4. RowsFit(AttributeCalls, SourceStubs, sh)
        BY <1>1, <1>2 DEF RowsFit, AttributeCalls, SourceStubs
    <2>5. \A g \in StubTables(sh) : RowsFit(AttributeCalls, g, sh)
        BY <2>2, <2>3, <2>4 DEF StubTables
    <2> QED BY <2>1, <2>5 DEF TableFits
<1>10. TableFits(SourceCalls, sh)
    <2>1. \A m \in DOMAIN SourceCalls : \E g \in StubTables(sh) : m \in DOMAIN g
        BY DEF StubTables, SourceCalls, SourceStubs, LightStubs, LastStubs
    <2>2. /\ RowsFit(SourceCalls, RequestStubs(sh), sh)
          /\ RowsFit(SourceCalls, FlushStubs(sh), sh)
          /\ RowsFit(SourceCalls, AttachStubs, sh)
          /\ RowsFit(SourceCalls, QueueStubs, sh)
          /\ RowsFit(SourceCalls, ConnectionStubs, sh)
          /\ RowsFit(SourceCalls, AttributeStubs, sh)
          /\ RowsFit(SourceCalls, PreAllocStub, sh)
          /\ RowsFit(SourceCalls, CacheStubs(sh), sh)
          /\ RowsFit(SourceCalls, ListenerStubs, sh)
          /\ RowsFit(SourceCalls, CarrierStubs, sh)
        BY DEF RowsFit, SourceCalls, RequestStubs, FlushStubs, AttachStubs, QueueStubs, 
                        ConnectionStubs, AttributeStubs, PreAllocStub, CacheStubs, 
                        ListenerStubs, CarrierStubs
    <2>3. RowsFit(SourceCalls, SourceStubs, sh)
        BY <1>1, <1>2 DEF RowsFit, SourceCalls, SourceStubs
    <2>4. RowsFit(SourceCalls, LightStubs, sh)
        BY <1>1, <1>2 DEF RowsFit, SourceCalls, LightStubs
    <2>5. RowsFit(SourceCalls, LastStubs, sh)
        BY <1>1, <1>2 DEF RowsFit, SourceCalls, LastStubs
    <2>6. \A g \in StubTables(sh) : RowsFit(SourceCalls, g, sh)
        BY <2>2, <2>3, <2>4, <2>5 DEF StubTables
    <2> QED BY <2>1, <2>6 DEF TableFits
<1>11. TableFits(LastCalls(sh), sh)
    <2>1. \A m \in DOMAIN LastCalls(sh) : \E g \in StubTables(sh) : m \in DOMAIN g
        BY DEF StubTables, LastCalls, ConnectionStubs, LastStubs, PreAllocStub, CacheStubs
    <2>2. /\ RowsFit(LastCalls(sh), RequestStubs(sh), sh)
          /\ RowsFit(LastCalls(sh), FlushStubs(sh), sh)
          /\ RowsFit(LastCalls(sh), AttachStubs, sh)
          /\ RowsFit(LastCalls(sh), QueueStubs, sh)
          /\ RowsFit(LastCalls(sh), AttributeStubs, sh)
          /\ RowsFit(LastCalls(sh), SourceStubs, sh)
          /\ RowsFit(LastCalls(sh), LightStubs, sh)
          /\ RowsFit(LastCalls(sh), ListenerStubs, sh)
          /\ RowsFit(LastCalls(sh), CarrierStubs, sh)
        BY DEF RowsFit, LastCalls, RequestStubs, FlushStubs, AttachStubs, QueueStubs, 
                        AttributeStubs, SourceStubs, LightStubs, ListenerStubs, CarrierStubs
    <2>3. RowsFit(LastCalls(sh), ConnectionStubs, sh)
        BY <1>1, <1>2 DEF RowsFit, LastCalls, ConnectionStubs
    <2>4. RowsFit(LastCalls(sh), LastStubs, sh)
        BY <1>1, <1>2 DEF RowsFit, LastCalls, LastStubs
    <2>5. RowsFit(LastCalls(sh), PreAllocStub, sh)
        BY <1>1, <1>2 DEF RowsFit, LastCalls, PreAllocStub
    <2>6. RowsFit(LastCalls(sh), CacheStubs(sh), sh)
        BY <1>1, <1>2 DEF RowsFit, LastCalls, CacheStubs
    <2>7. \A g \in StubTables(sh) : RowsFit(LastCalls(sh), g, sh)
        BY <2>2, <2>3, <2>4, <2>5, <2>6 DEF StubTables
    <2> QED BY <2>1, <2>7 DEF TableFits
<1>12. TableFits(ListenerCalls, sh)
    <2>1. \A m \in DOMAIN ListenerCalls : \E g \in StubTables(sh) : m \in DOMAIN g
        BY DEF StubTables, ListenerCalls, ListenerStubs
    <2>2. /\ RowsFit(ListenerCalls, RequestStubs(sh), sh)
          /\ RowsFit(ListenerCalls, FlushStubs(sh), sh)
          /\ RowsFit(ListenerCalls, AttachStubs, sh)
          /\ RowsFit(ListenerCalls, QueueStubs, sh)
          /\ RowsFit(ListenerCalls, ConnectionStubs, sh)
          /\ RowsFit(ListenerCalls, AttributeStubs, sh)
          /\ RowsFit(ListenerCalls, SourceStubs, sh)
          /\ RowsFit(ListenerCalls, LightStubs, sh)
          /\ RowsFit(ListenerCalls, LastStubs, sh)
          /\ RowsFit(ListenerCalls, PreAllocStub, sh)
          /\ RowsFit(ListenerCalls, CacheStubs(sh), sh)
          /\ RowsFit(ListenerCalls, CarrierStubs, sh)
        BY DEF RowsFit, ListenerCalls, RequestStubs, FlushStubs, AttachStubs, QueueStubs, 
                        ConnectionStubs, AttributeStubs, SourceStubs, LightStubs, LastStubs, 
                        PreAllocStub, CacheStubs, CarrierStubs
    <2>3. RowsFit(ListenerCalls, ListenerStubs, sh)
        BY <1>1, <1>2 DEF RowsFit, ListenerCalls, ListenerStubs
    <2>4. \A g \in StubTables(sh) : RowsFit(ListenerCalls, g, sh)
        BY <2>2, <2>3 DEF StubTables
    <2> QED BY <2>1, <2>4 DEF TableFits
<1>13. TableFits(CarrierCalls, sh)
    <2>1. \A m \in DOMAIN CarrierCalls : \E g \in StubTables(sh) : m \in DOMAIN g
        BY DEF StubTables, CarrierCalls, CarrierStubs
    <2>2. /\ RowsFit(CarrierCalls, RequestStubs(sh), sh)
          /\ RowsFit(CarrierCalls, FlushStubs(sh), sh)
          /\ RowsFit(CarrierCalls, AttachStubs, sh)
          /\ RowsFit(CarrierCalls, QueueStubs, sh)
          /\ RowsFit(CarrierCalls, ConnectionStubs, sh)
          /\ RowsFit(CarrierCalls, AttributeStubs, sh)
          /\ RowsFit(CarrierCalls, SourceStubs, sh)
          /\ RowsFit(CarrierCalls, LightStubs, sh)
          /\ RowsFit(CarrierCalls, LastStubs, sh)
          /\ RowsFit(CarrierCalls, PreAllocStub, sh)
          /\ RowsFit(CarrierCalls, CacheStubs(sh), sh)
          /\ RowsFit(CarrierCalls, ListenerStubs, sh)
        BY DEF RowsFit, CarrierCalls, RequestStubs, FlushStubs, AttachStubs, QueueStubs, 
                        ConnectionStubs, AttributeStubs, SourceStubs, LightStubs, LastStubs, 
                        PreAllocStub, CacheStubs, ListenerStubs
    <2>3. RowsFit(CarrierCalls, CarrierStubs, sh)
        BY <1>1, <1>2 DEF RowsFit, CarrierCalls, CarrierStubs
    <2>4. \A g \in StubTables(sh) : RowsFit(CarrierCalls, g, sh)
        BY <2>2, <2>3 DEF StubTables
    <2> QED BY <2>1, <2>4 DEF TableFits
<1> QED BY <1>3, <1>4, <1>5, <1>6, <1>7, <1>8, <1>9, <1>10, <1>11, <1>12, <1>13 DEF ClientTables

(* Every row is made of known fields and has its status in a known place.   *)
MessageFields(fields) == fields \in Seq(Field)

RowKnown(row) ==
    /\ MessageFields(row.writes) /\ MessageFields(row.ok) /\ MessageFields(row.err)
    /\ row.form \in {"status", "last", "value", "cast"}

RowsKnown(table) == \A m \in DOMAIN table : RowKnown(table[m])

(* No table of the client names another field or form.                      *)
LEMMA TablesKnown ==
    ASSUME NEW sh \in Shapes
    PROVE  \A f \in ClientTables(sh) : RowsKnown(f)
<1>1. sh.n \in Nat
    BY ShapeAssumption
<1>2. {"i32", "u32", "bool", "f32", "i64", "u64", "str", "fd", "obj"} \union Compound \subseteq Field
    BY DEF Field, Primitive
<1>3. /\ MessageFields(<<>>) /\ \A x \in Field : MessageFields(<<x>>)
      /\ \A x, y \in Field : MessageFields(<<x, y>>)
    BY DEF MessageFields
<1>4. /\ MessageFields(<<"buffer", "bufconfig", "fence", "matrix">>)
      /\ MessageFields(<<"u32", "u32", "hdrset">>) /\ MessageFields(<<"obj", "str">>)
      /\ MessageFields(<<"u32", "bedata", "fence", "flush">>)
      /\ MessageFields(<<"i32", "i32", "u64", "str", "bool", "str", "u64", "i32">>)
      /\ MessageFields(Grant) /\ MessageFields(Frame)
    BY DEF MessageFields, Field, Compound, Primitive, Grant, Frame
<1>5. MessageFields(<<"u32">> \o Times(sh.n, Grant)) /\ MessageFields(<<"seqs">> \o Times(sh.n, Frame))
    <2>1. Len(Grant) \in Nat \ {0} /\ Len(Frame) \in Nat \ {0}
        BY DEF Grant, Frame
    <2>2. Times(sh.n, Grant) \in Seq(Field) /\ Times(sh.n, Frame) \in Seq(Field)
        BY <1>1, <1>4, <2>1, TimesType DEF MessageFields
    <2>3. <<"u32">> \in Seq(Field) /\ <<"seqs">> \in Seq(Field)
        BY <1>2 DEF Compound
    <2> QED BY <2>2, <2>3 DEF MessageFields
<1>6. MessageFields(<<"u32">> \o Times(sh.n, <<"buffer">>))
    <2>1. "u32" \in Field /\ "buffer" \in Field
        BY <1>2 DEF Compound
    <2>2. <<"buffer">> \in Seq(Field) /\ Len(<<"buffer">>) \in Nat \ {0} /\ <<"u32">> \in Seq(Field)
        BY <2>1
    <2>3. Times(sh.n, <<"buffer">>) \in Seq(Field)
        BY <1>1, <2>2, TimesType
    <2> QED BY <2>2, <2>3 DEF MessageFields
<1>7. MessageFields(<<"obj", "str">> \o Optional(sh.given, <<"obj">>))
    <2>1. "obj" \in Field
        BY <1>2
    <2>2. <<"obj">> \in Seq(Field) /\ <<>> \in Seq(Field)
        BY <2>1
    <2>3. Optional(sh.given, <<"obj">>) \in Seq(Field)
        BY <2>2 DEF Optional
    <2> QED BY <1>4, <2>3 DEF MessageFields
<1>8. MessageFields(<<"buffer", "bufconfig">> \o Frame \o <<"bool">>)
    <2>1. "buffer" \in Field /\ "bufconfig" \in Field /\ "bool" \in Field
        BY <1>2 DEF Compound
    <2>2. <<"buffer", "bufconfig">> \in Seq(Field) /\ <<"bool">> \in Seq(Field) /\ Frame \in Seq(Field)
        BY <1>4, <2>1 DEF MessageFields
    <2> QED BY <2>2 DEF MessageFields
<1>9. /\ \A w : MessageFields(w) => RowKnown(Does(w))
      /\ \A w : MessageFields(w) => RowKnown(Casts(w))
      /\ \A w, r : MessageFields(w) => (MessageFields(r) => RowKnown(Asks(w, r)))
      /\ \A w, r : MessageFields(w) =>
            (MessageFields(r) => RowKnown([Asks(w, r) EXCEPT !.err = <<"bool">>]))
      /\ \A r : MessageFields(r) => RowKnown(Reads(r))
    <2>1. MessageFields(<<"bool">>)
        BY <1>2, <1>3
    <2> QED BY <1>3, <2>1 DEF RowKnown, Does, Asks, Reads, Casts
<1>10. /\ "i32" \in Field /\ "u32" \in Field /\ "bool" \in Field /\ "f32" \in Field /\ "i64" \in Field
       /\ "u64" \in Field /\ "str" \in Field /\ "fd" \in Field /\ "obj" \in Field
       /\ "config" \in Field /\ "bufconfig" \in Field /\ "fence?" \in Field /\ "buffer" \in Field
       /\ "whole" \in Field /\ "bedata" \in Field /\ "hdr" \in Field /\ "tunnel" \in Field
       /\ "verify" \in Field /\ "property" \in Field /\ "seqs" \in Field
    BY <1>2 DEF Compound
<1>11. RowsKnown(RequestCalls(sh))
    BY <1>3, <1>4, <1>5, <1>9, <1>10 DEF RowsKnown, RequestCalls
<1>12. RowsKnown(FlushedCalls)
    BY <1>3, <1>4, <1>9, <1>10 DEF RowsKnown, FlushedCalls
<1>13. RowsKnown(FlushCalls(sh))
    <2>1. RowKnown(FlushCalls(sh)["GetProducerInitInfo"])
        BY <1>4, <1>7 DEF RowKnown, FlushCalls
    <2>2. \A m \in {"CancelBuffer", "FlushBuffer", "FlushBuffers"} : RowKnown(FlushCalls(sh)[m])
        BY <1>3, <1>4, <1>5, <1>9, <1>10 DEF FlushCalls
    <2>3. DOMAIN FlushCalls(sh) = {"GetProducerInitInfo", "CancelBuffer", "FlushBuffer", "FlushBuffers"}
        BY DEF FlushCalls
    <2> QED BY <2>1, <2>2, <2>3 DEF RowsKnown
<1>14. RowsKnown(AttachCalls)
    BY <1>3, <1>4, <1>9, <1>10 DEF RowsKnown, AttachCalls
<1>15. RowsKnown(QueueCalls)
    BY <1>3, <1>4, <1>9, <1>10 DEF RowsKnown, QueueCalls
<1>16. RowsKnown(ConnectionCalls)
    BY <1>3, <1>4, <1>9, <1>10 DEF RowsKnown, ConnectionCalls
<1>17. RowsKnown(AttributeCalls)
    BY <1>3, <1>4, <1>9, <1>10 DEF RowsKnown, AttributeCalls
<1>18. RowsKnown(SourceCalls)
    BY <1>3, <1>4, <1>8, <1>9, <1>10 DEF RowsKnown, SourceCalls
<1>19. RowsKnown(LastCalls(sh))
    BY <1>3, <1>4, <1>6, <1>9, <1>10 DEF RowsKnown, LastCalls
<1>20. RowsKnown(ListenerCalls) /\ RowsKnown(CarrierCalls)
    BY <1>3, <1>4, <1>9, <1>10 DEF RowsKnown, ListenerCalls, CarrierCalls
<1> QED BY <1>11, <1>12, <1>13, <1>14, <1>15, <1>16, <1>17, <1>18, <1>19, <1>20 DEF ClientTables

(* Hence every method's row on one side fits its row on the other.          *)
LEMMA RowsMeet ==
    ASSUME NEW sh \in Shapes, NEW m \in Methods
    PROVE  RowFits(m, ClientOf[sh][m], StubOf[sh][m], sh) /\ RowKnown(ClientOf[sh][m])
<1>1. m \in DOMAIN Joined(ClientTables(sh))
    BY MethodsEverywhere
<1>2. PICK f \in ClientTables(sh) : m \in DOMAIN f /\ Joined(ClientTables(sh))[m] = f[m]
    BY <1>1, JoinedSome
<1>3. TableFits(f, sh) /\ RowsKnown(f)
    BY TablesFit, TablesKnown
<1>4. m \in DOMAIN Joined(StubTables(sh))
    <2>1. \E g \in StubTables(sh) : m \in DOMAIN g
        BY <1>2, <1>3 DEF TableFits
    <2> QED BY <2>1 DEF Joined
<1>5. PICK g \in StubTables(sh) : m \in DOMAIN g /\ Joined(StubTables(sh))[m] = g[m]
    BY <1>4, JoinedSome
<1>6. RowFits(m, f[m], g[m], sh) /\ RowKnown(f[m])
    BY <1>2, <1>3, <1>5 DEF TableFits, RowsFit, RowsKnown
<1> QED BY <1>2, <1>5, <1>6 DEF ClientOf, StubOf

(* The size of the queue: an int32_t to one side, a uint32_t to the other.  *)
LEMMA SizeRead ==
    ASSUME NEW sh \in Shapes
    PROVE  OnWire(WrittenAll(<<"i32">>, sh)) = OnWire(ReadAll(<<"u32">>, sh))
<1> DEFINE A == [i \in DOMAIN <<"i32">> |-> Written(<<"i32">>[i], sh)]
           B == [i \in DOMAIN <<"u32">> |-> Read(<<"u32">>[i], sh)]
<1>1. SameLayout(<<"i32">>, <<"u32">>)
    <2>1. Width("i32") = Width("u32")
        BY DEF Width
    <2>2. "i32" \in Primitive /\ "u32" \in Primitive
        BY DEF Primitive
    <2> QED BY <2>1, <2>2 DEF SameLayout
<1>2. Written("i32", sh) = <<"i32">> /\ Read("u32", sh) = <<"u32">>
    BY DEF Written, Read
<1>3. Len(A) = 1 /\ Len(B) = 1 /\ A[1] = <<"i32">> /\ B[1] = <<"u32">>
    BY <1>2
<1>4. WrittenAll(<<"i32">>, sh) = FlattenSeq(A) /\ ReadAll(<<"u32">>, sh) = FlattenSeq(B)
    BY DEF WrittenAll, ReadAll
<1> HIDE DEF A, B
<1>5. Len(A) \in Nat \ {0} /\ Len(B) = Len(A) /\ \A i \in 1..Len(A) : SameLayout(A[i], B[i])
    BY <1>1, <1>3
<1>6. SameLayout(FlattenSeq(A), FlattenSeq(B))
    BY <1>5, FlattenLayouts
<1> QED BY <1>4, <1>6, LayoutOnWire

(* What a stub answers the client can read.                                 *)
LEMMA ReplyRead ==
    ASSUME NEW sh \in Shapes, NEW m \in Methods, NEW outcome
    PROVE  OnWire(WrittenAll(Reply(m, sh, outcome), sh)) = OnWire(ReadAll(Expected(m, sh, outcome), sh))
<1> DEFINE sent == ClientOf[sh][m]
           stub == StubOf[sh][m]
           gives == IF outcome = "OK" THEN stub.ok ELSE stub.err
           reads == IF outcome = "OK" THEN sent.ok ELSE sent.err
<1>1. RowFits(m, sent, stub, sh) /\ RowKnown(sent)
    BY RowsMeet
<1>2. /\ Reply(m, sh, outcome) = Placed(stub.form, <<"i32">>, gives)
      /\ Expected(m, sh, outcome) = Placed(sent.form, <<"i32">>, reads)
    BY DEF Reply, Expected
<1>3. reads \in Seq(Field) /\ sent.form \in {"status", "last", "value", "cast"} /\ sent.form = stub.form
    BY <1>1 DEF RowFits, RowKnown, MessageFields
<1>4. \/ gives = reads
      \/ reads = <<"u32">> /\ gives = <<"i32">> /\ sent.form = "value"
    BY <1>1 DEF RowFits
<1> HIDE DEF sent, stub, gives, reads
<1>5. CASE gives = reads
    <2>1. <<"i32">> \in Seq(Field)
        <3>1. "i32" \in Field
            BY DEF Field, Primitive
        <3> QED BY <3>1
    <2>2. <<"i32">> \o reads \in Seq(Field) /\ reads \o <<"i32">> \in Seq(Field) /\ <<>> \in Seq(Field)
        BY <1>3, <2>1, ConcatProperties
    <2>3. Placed(sent.form, <<"i32">>, reads) \in Seq(Field)
        BY <1>3, <2>2 DEF Placed
    <2>4. Reply(m, sh, outcome) = Placed(sent.form, <<"i32">>, reads)
        BY <1>2, <1>3, <1>5
    <2> QED BY <1>2, <2>3, <2>4, MessageRead
<1>6. CASE reads = <<"u32">> /\ gives = <<"i32">> /\ sent.form = "value"
    <2>1. Reply(m, sh, outcome) = <<"i32">> /\ Expected(m, sh, outcome) = <<"u32">>
        BY <1>2, <1>3, <1>6 DEF Placed
    <2> QED BY <2>1, SizeRead
<1> QED BY <1>4, <1>5, <1>6

(* What one side writes the other side reads, field for field, for every    *)
(* method, in requests and in replies.                                      *)
THEOREM MessagesAreRead == ProtocolSpec => []MessagesParse
<1>1. CallsSound => MessagesParse
    <2> SUFFICES ASSUME CallsSound, NEW t \in Client
                 PROVE  LET m == msg[t].m  sh == msg[t].sh IN
                        /\ msg[t].at = "sent" /\ ~StubUnfit(m, sh) =>
                              OnWire(WrittenAll(ClientOf[sh][m].writes, sh))
                                = OnWire(ReadAll(StubOf[sh][m].takes, sh))
                        /\ msg[t].at = "answered" /\ ~(StubOf[sh][m].hides /\ msg[t].served = "ERR") =>
                              OnWire(WrittenAll(Reply(m, sh, msg[t].served), sh))
                                = OnWire(ReadAll(Expected(m, sh, msg[t].served), sh))
        BY DEF MessagesParse
    <2> DEFINE m == msg[t].m
               sh == msg[t].sh
    <2>1. msg[t].at \in {"sent", "answered"} => m \in Methods /\ sh \in Shapes
        BY DEF CallsSound, CallSound
    <2> HIDE DEF m, sh
    <2>2. ASSUME msg[t].at = "sent", ~StubUnfit(m, sh)
          PROVE  OnWire(WrittenAll(ClientOf[sh][m].writes, sh)) = OnWire(ReadAll(StubOf[sh][m].takes, sh))
        <3>1. m \in Methods /\ sh \in Shapes
            BY <2>1, <2>2
        <3>2. RowFits(m, ClientOf[sh][m], StubOf[sh][m], sh) /\ RowKnown(ClientOf[sh][m])
            BY <3>1, RowsMeet
        <3>3. ClientOf[sh][m].writes = StubOf[sh][m].takes
            BY <2>2, <3>2 DEF RowFits, StubUnfit
        <3>4. ClientOf[sh][m].writes \in Seq(Field)
            BY <3>2 DEF RowKnown, MessageFields
        <3> QED BY <3>1, <3>3, <3>4, MessageRead
    <2>3. ASSUME msg[t].at = "answered"
          PROVE  OnWire(WrittenAll(Reply(m, sh, msg[t].served), sh))
                   = OnWire(ReadAll(Expected(m, sh, msg[t].served), sh))
        BY <2>1, <2>3, ReplyRead
    <2> QED BY <2>2, <2>3 DEF m, sh
<1>2. ProtocolSound => CallsSound
    BY DEF ProtocolSound
<1> QED BY <1>1, <1>2, ProtocolStart, ProtocolStep, PTL DEF ProtocolSpec

-----------------------------------------------------------------------------
(* Settings.                                                                *)
Names(layer) == DOMAIN TableOf[layer]

Answers == {"status", "nothing", "value", "OK"}

(* The settings the queue takes unchecked: the surfaces check their values. *)
CheckedAbove ==
    [SetScalingModeOf           |-> Legal.scalingMode,
     SetScalingMode             |-> Legal.scalingMode,
     SetVideoDimensionType      |-> Legal.videoDimension,
     SetHdrWhitePointBrightness |-> Legal.hdrBrightness,
     SetSdrWhitePointBrightness |-> Legal.sdrBrightness,
     SetGlobalAlpha             |-> Legal.globalAlpha,
     SetPresentTimestamp        |-> Legal.presentTime]

Kept(m, row) == m \in DOMAIN CheckedAbove => row.within \subseteq CheckedAbove[m]

WindowRow(row) ==
    /\ row.kind = "pass" /\ row.to = "psurface"
    /\ row.as \in Names("psurface") \ {"same", "SetBufferName"}
    /\ row.gives \in Answers

SurfacePass(m, row) ==
    /\ row.kind = "pass" /\ row.to \in {"producer", "consumer"} /\ row.as = "same"
    /\ m \in Names(row.to)
    /\ Kept(m, row)

OwnRow(row) == row.kind \in {"sets", "gets"} /\ row.of \notin DOMAIN Legal

SurfaceRow(m, row) ==
    /\ SurfacePass(m, row) \/ OwnRow(row)
    /\ row.gives \in Answers
    /\ row.gives = "OK" => m = "SetBufferName"

StubRow(m, row) ==
    /\ row.kind = "pass" /\ row.to = "queue" /\ row.as = "same"
    /\ m \in Names("queue")
    /\ row.gives \in Answers \ {"OK"}

QueueRow(m, row) ==
    /\ row.kind \in {"sets", "gets", "takes"}
    /\ row.kind = "takes" => row.of \notin DOMAIN Legal
    /\ (row.kind = "sets" /\ row.of \in DOMAIN Legal) =>
          \/ row.within \subseteq Legal[row.of]
          \/ m \in DOMAIN CheckedAbove /\ CheckedAbove[m] = Legal[row.of]

(* Every name of a stretch is a name of its layer.                          *)
LEMMA JoinedNames ==
    ASSUME NEW tables, NEW f \in tables
    PROVE  DOMAIN f \subseteq DOMAIN Joined(tables)
BY DEF Joined

(* The layers, and the tables of each taken together.                       *)
LEMMA LayersJoined ==
    /\ DOMAIN TableOf = {"window", "psurface", "csurface", "producer", "consumer", "queue"}
    /\ \A layer \in DOMAIN TableOf : TableOf[layer] = Joined(LayerTables[layer])
BY DEF TableOf, LayerTables

(* A method of one of a layer's tables is a method of the layer.             *)
LEMMA LayerHasNames ==
    ASSUME NEW layer \in DOMAIN TableOf, NEW f \in LayerTables[layer]
    PROVE  DOMAIN f \subseteq Names(layer)
BY LayersJoined, JoinedNames DEF Names

(* The methods of the queue.                                                *)
LEMMA QueueNames ==
    /\ DOMAIN QueueSizes \subseteq Names("queue")
    /\ DOMAIN QueueTransforms \subseteq Names("queue")
    /\ DOMAIN QueueSources \subseteq Names("queue")
    /\ DOMAIN QueueModes \subseteq Names("queue")
    /\ DOMAIN QueueMetadata \subseteq Names("queue")
    /\ DOMAIN QueueTimes \subseteq Names("queue")
    /\ DOMAIN QueueAlphas \subseteq Names("queue")
    /\ DOMAIN QueueLevels \subseteq Names("queue")
    /\ DOMAIN QueueRotations \subseteq Names("queue")
    /\ DOMAIN QueueLimits \subseteq Names("queue")
    /\ DOMAIN QueueLast \subseteq Names("queue")
<1>1. LayerTables["queue"] = {QueueSizes, QueueTransforms, QueueSources, QueueModes, QueueMetadata,
                              QueueTimes, QueueAlphas, QueueLevels, QueueRotations, QueueLimits,
                              QueueLast}
    BY DEF LayerTables
<1> QED BY <1>1, LayersJoined, LayerHasNames

(* Each stub row passes a method the queue has.                             *)
LEMMA StubRows ==
    ASSUME NEW layer \in {"producer", "consumer"}, NEW m \in Names(layer)
    PROVE  StubRow(m, TableOf[layer][m])
<1>1. \A n \in Names("queue") :
          StubRow(n, Pass("queue")) /\ StubRow(n, Value("queue")) /\ StubRow(n, Void("queue"))
    BY DEF StubRow, Pass, Value, Void, Answers
<1>2. LayerTables["producer"] = {StubSizes, StubSources, StubBuffers, StubRotations, StubSingle}
    BY DEF LayerTables
<1>3. LayerTables["consumer"] = {ConsumerStubBuffers, ConsumerStubSources, ConsumerStubRotations}
    BY DEF LayerTables
<1>4. \A n \in DOMAIN StubSizes : n \in Names("queue")
    BY QueueNames DEF StubSizes, QueueSizes
<1>5. \A n \in DOMAIN StubSources : n \in Names("queue")
    BY QueueNames DEF StubSources, QueueSources, QueueTransforms
<1>6. \A n \in DOMAIN StubBuffers : n \in Names("queue")
    BY QueueNames DEF StubBuffers, QueueModes, QueueMetadata, QueueSources, QueueAlphas
<1>7. \A n \in DOMAIN StubRotations : n \in Names("queue")
    BY QueueNames DEF StubRotations, QueueRotations, QueueLast
<1>8. \A n \in DOMAIN StubSingle : n \in Names("queue")
    BY QueueNames DEF StubSingle, QueueLast
<1>9. \A n \in DOMAIN ConsumerStubBuffers : n \in Names("queue")
    BY QueueNames DEF ConsumerStubBuffers, QueueSizes, QueueTransforms, QueueModes, QueueMetadata
<1>10. \A n \in DOMAIN ConsumerStubSources : n \in Names("queue")
    BY QueueNames DEF ConsumerStubSources, QueueTimes, QueueSources, QueueAlphas, QueueLast
<1>11. \A n \in DOMAIN ConsumerStubRotations : n \in Names("queue")
    BY QueueNames DEF ConsumerStubRotations, QueueRotations, QueueLimits, QueueLast, QueueLevels
<1>12. \A n \in DOMAIN StubSizes : StubRow(n, StubSizes[n])
    BY <1>1, <1>4 DEF StubSizes
<1>13. \A n \in DOMAIN StubSources : StubRow(n, StubSources[n])
    BY <1>1, <1>5 DEF StubSources
<1>14. \A n \in DOMAIN StubBuffers : StubRow(n, StubBuffers[n])
    BY <1>1, <1>6 DEF StubBuffers
<1>15. \A n \in DOMAIN StubRotations : StubRow(n, StubRotations[n])
    BY <1>1, <1>7 DEF StubRotations
<1>16. \A n \in DOMAIN StubSingle : StubRow(n, StubSingle[n])
    BY <1>1, <1>8 DEF StubSingle
<1>17. \A n \in DOMAIN ConsumerStubBuffers : StubRow(n, ConsumerStubBuffers[n])
    BY <1>1, <1>9 DEF ConsumerStubBuffers
<1>18. \A n \in DOMAIN ConsumerStubSources : StubRow(n, ConsumerStubSources[n])
    BY <1>1, <1>10 DEF ConsumerStubSources
<1>19. \A n \in DOMAIN ConsumerStubRotations : StubRow(n, ConsumerStubRotations[n])
    BY <1>1, <1>11 DEF ConsumerStubRotations
<1>20. \E f \in LayerTables[layer] : m \in DOMAIN f /\ TableOf[layer][m] = f[m]
    BY LayersJoined, JoinedSome DEF Names
<1>21. CASE layer = "producer"
    BY <1>2, <1>12, <1>13, <1>14, <1>15, <1>16, <1>20, <1>21
<1>22. CASE layer = "consumer"
    BY <1>3, <1>17, <1>18, <1>19, <1>20, <1>22
<1> QED BY <1>21, <1>22

(* What is legal, and which setting's values the surfaces check.            *)
LEMMA LegalNames ==
    /\ DOMAIN Legal = {"scalingMode", "videoDimension", "hdrBrightness", "sdrBrightness", "globalAlpha",
                       "metadata", "presentTime", "defaultSize", "appFrameworkType", "cycleBuffers",
                       "frameGravity", "fixedRotation", "maxQueueSize", "alphaType", "dropFrameLevel"}
    /\ DOMAIN CheckedAbove = {"SetScalingModeOf", "SetScalingMode", "SetVideoDimensionType",
                              "SetHdrWhitePointBrightness", "SetSdrWhitePointBrightness",
                              "SetGlobalAlpha", "SetPresentTimestamp"}
BY DEF Legal, CheckedAbove

(* The ranges the queue checks lie within what is legal.                    *)
LEMMA QueueChecks ==
    /\ NotEmpty \subseteq Legal["defaultSize"] /\ NotEmpty \subseteq Legal["metadata"]
    /\ (1..64) \subseteq Legal["appFrameworkType"]
    /\ (1..2 * MaxQueue) \subseteq Legal["cycleBuffers"]
    /\ (-1..15) \subseteq Legal["frameGravity"]
    /\ (-1..1) \subseteq Legal["fixedRotation"]
    /\ (1..MaxQueue) \subseteq Legal["maxQueueSize"]
    /\ (0..3) \subseteq Legal["alphaType"]
    /\ Nat \subseteq Legal["dropFrameLevel"]
<1>1. Legal["defaultSize"] = NotEmpty
    BY DEF Legal
<1>5. Legal["metadata"] = 0..4096
    BY DEF Legal
<1>2. /\ Legal["appFrameworkType"] = 1..64
      /\ Legal["cycleBuffers"] = 1..2 * MaxQueue
      /\ Legal["frameGravity"] = -1..15
      /\ Legal["fixedRotation"] = -1..1
      /\ Legal["maxQueueSize"] = 1..MaxQueue
      /\ Legal["alphaType"] = 0..3
      /\ Legal["dropFrameLevel"] = Nat
    BY DEF Legal
<1>3. NotEmpty \subseteq Legal["metadata"]
    <2>1. \A n \in NotEmpty : n \in 0..4096
        BY DEF NotEmpty
    <2> QED BY <1>5, <2>1
<1>4. NotEmpty \subseteq Legal["defaultSize"]
    BY <1>1
<1> QED BY <1>2, <1>3, <1>4, Zenon

(* Each row of the queue sets only what is legal or what a surface checks.  *)
LEMMA QueueRows ==
    ASSUME NEW m \in Names("queue")
    PROVE  QueueRow(m, TableOf["queue"][m])
<1>1. /\ \A n, of : QueueRow(n, Gets(of)) /\ QueueRow(n, ForBuffer(Gets(of)))
      /\ \A n, of : of \notin DOMAIN Legal => QueueRow(n, Sets(of))
      /\ \A n, of : of \notin DOMAIN Legal => QueueRow(n, [Gets(of) EXCEPT !.kind = "takes"])
    BY DEF QueueRow, Gets, Sets, Pass, ForBuffer
<1>2. /\ \A n, of, values : values \subseteq Legal[of] => QueueRow(n, SetsWithin(of, values))
      /\ \A n, of, values : values \subseteq Legal[of] => QueueRow(n, ForBuffer(SetsWithin(of, values)))
    BY DEF QueueRow, SetsWithin, Sets, Pass, ForBuffer
<1>3. \A n \in DOMAIN CheckedAbove : \A of : CheckedAbove[n] = Legal[of] =>
          QueueRow(n, Sets(of)) /\ QueueRow(n, ForBuffer(Sets(of)))
    BY DEF QueueRow, Sets, Pass, ForBuffer
<1>4. /\ CheckedAbove["SetScalingModeOf"] = Legal["scalingMode"]
      /\ CheckedAbove["SetScalingMode"] = Legal["scalingMode"]
      /\ CheckedAbove["SetVideoDimensionType"] = Legal["videoDimension"]
      /\ CheckedAbove["SetHdrWhitePointBrightness"] = Legal["hdrBrightness"]
      /\ CheckedAbove["SetSdrWhitePointBrightness"] = Legal["sdrBrightness"]
      /\ CheckedAbove["SetGlobalAlpha"] = Legal["globalAlpha"]
      /\ CheckedAbove["SetPresentTimestamp"] = Legal["presentTime"]
    BY DEF CheckedAbove
<1>5. \A n \in DOMAIN QueueSizes : QueueRow(n, QueueSizes[n])
    BY <1>1, <1>2, QueueChecks, LegalNames DEF QueueSizes
<1>6. \A n \in DOMAIN QueueTransforms : QueueRow(n, QueueTransforms[n])
    BY <1>1, LegalNames DEF QueueTransforms
<1>7. \A n \in DOMAIN QueueSources : QueueRow(n, QueueSources[n])
    BY <1>1, <1>2, <1>3, <1>4, QueueChecks, LegalNames DEF QueueSources
<1>8. \A n \in DOMAIN QueueModes : QueueRow(n, QueueModes[n])
    BY <1>1, <1>3, <1>4, LegalNames DEF QueueModes
<1>9. \A n \in DOMAIN QueueMetadata : QueueRow(n, QueueMetadata[n])
    BY <1>1, <1>2, QueueChecks DEF QueueMetadata
<1>10. \A n \in DOMAIN QueueTimes : QueueRow(n, QueueTimes[n])
    BY <1>3, <1>4, LegalNames DEF QueueTimes
<1>11. \A n \in DOMAIN QueueAlphas : QueueRow(n, QueueAlphas[n])
    BY <1>1, <1>3, <1>4, LegalNames DEF QueueAlphas
<1>12. \A n \in DOMAIN QueueLevels : QueueRow(n, QueueLevels[n])
    BY <1>2, QueueChecks DEF QueueLevels
<1>13. \A n \in DOMAIN QueueRotations : QueueRow(n, QueueRotations[n])
    <2>1. \A n : QueueRow(n, SetsWithin("cycleBuffers", 1..2 * MaxQueue))
        BY <1>2, QueueChecks, Zenon
    <2>2. /\ \A n : QueueRow(n, SetsWithin("frameGravity", -1..15))
          /\ \A n : QueueRow(n, SetsWithin("fixedRotation", -1..1))
        BY <1>2, QueueChecks, Zenon
    <2> QED BY <1>1, <2>1, <2>2 DEF QueueRotations
<1>14. \A n \in DOMAIN QueueLimits : QueueRow(n, QueueLimits[n])
    <2>1. \A n : QueueRow(n, SetsWithin("maxQueueSize", 1..MaxQueue))
        BY <1>2, QueueChecks, Zenon
    <2> QED BY <1>1, <2>1 DEF QueueLimits
<1>15. \A n \in DOMAIN QueueLast : QueueRow(n, QueueLast[n])
    BY <1>1, <1>2, QueueChecks, LegalNames DEF QueueLast
<1>16. LayerTables["queue"] = {QueueSizes, QueueTransforms, QueueSources, QueueModes, QueueMetadata,
                              QueueTimes, QueueAlphas, QueueLevels, QueueRotations, QueueLimits,
                              QueueLast}
    BY DEF LayerTables
<1>17. \E f \in LayerTables["queue"] : m \in DOMAIN f /\ TableOf["queue"][m] = f[m]
    BY LayersJoined, JoinedSome DEF Names
<1> QED BY <1>5, <1>6, <1>7, <1>8, <1>9, <1>10, <1>11, <1>12, <1>13, <1>14, <1>15, <1>16, <1>17

(* The methods of the stubs, the producer's and the consumer's.             *)
LEMMA StubNames ==
    /\ DOMAIN StubSizes \subseteq Names("producer")
    /\ DOMAIN StubSources \subseteq Names("producer")
    /\ DOMAIN StubBuffers \subseteq Names("producer")
    /\ DOMAIN StubRotations \subseteq Names("producer")
    /\ DOMAIN StubSingle \subseteq Names("producer")
    /\ DOMAIN ConsumerStubBuffers \subseteq Names("consumer")
    /\ DOMAIN ConsumerStubSources \subseteq Names("consumer")
    /\ DOMAIN ConsumerStubRotations \subseteq Names("consumer")
<1>1. /\ LayerTables["producer"] = {StubSizes, StubSources, StubBuffers, StubRotations, StubSingle}
      /\ LayerTables["consumer"] = {ConsumerStubBuffers, ConsumerStubSources, ConsumerStubRotations}
    BY DEF LayerTables
<1> QED BY <1>1, LayersJoined, LayerHasNames

(* What the surfaces pass on without a check, and with one.                 *)
LEMMA PassingRows ==
    /\ \A to \in {"producer", "consumer"} : \A n \in Names(to) \ DOMAIN CheckedAbove :
          /\ SurfaceRow(n, Pass(to)) /\ SurfaceRow(n, Value(to)) /\ SurfaceRow(n, Void(to))
          /\ \A values : SurfaceRow(n, Within(to, values))
          /\ n = "SetBufferName" => SurfaceRow(n, Blind(to))
    /\ \A n, of : of \notin DOMAIN Legal => SurfaceRow(n, Sets(of)) /\ SurfaceRow(n, Gets(of))
<1>1. \A to \in {"producer", "consumer"} : \A n \in Names(to) \ DOMAIN CheckedAbove :
          /\ SurfaceRow(n, Pass(to)) /\ SurfaceRow(n, Value(to)) /\ SurfaceRow(n, Void(to))
          /\ \A values : SurfaceRow(n, Within(to, values))
          /\ n = "SetBufferName" => SurfaceRow(n, Blind(to))
    BY DEF SurfaceRow, SurfacePass, Kept, Answers, Pass, Value, Void, Within, Blind
<1>3. \A n, of : of \notin DOMAIN Legal => SurfaceRow(n, Sets(of)) /\ SurfaceRow(n, Gets(of))
    BY DEF SurfaceRow, OwnRow, Answers, Pass, Sets, Gets
<1> QED BY <1>1, <1>3

(* What the surfaces check before they pass it on: exactly the settings the *)
(* queue takes unchecked.                                                   *)
LEMMA CheckedRows ==
    ASSUME NEW to \in {"producer", "consumer"}
    PROVE  /\ "SetScalingModeOf" \in Names(to) =>
                  SurfaceRow("SetScalingModeOf", Within(to, ScalingModes))
           /\ "SetScalingMode" \in Names(to) =>
                  SurfaceRow("SetScalingMode", Within(to, ScalingModes))
           /\ "SetVideoDimensionType" \in Names(to) =>
                  SurfaceRow("SetVideoDimensionType", Within(to, DimensionTypes))
           /\ "SetHdrWhitePointBrightness" \in Names(to) =>
                  SurfaceRow("SetHdrWhitePointBrightness", Within(to, Brightnesses))
           /\ "SetSdrWhitePointBrightness" \in Names(to) =>
                  SurfaceRow("SetSdrWhitePointBrightness", Within(to, Brightnesses))
           /\ "SetGlobalAlpha" \in Names(to) =>
                  SurfaceRow("SetGlobalAlpha", Within(to, GlobalAlphas))
           /\ "SetPresentTimestamp" \in Names(to) =>
                  SurfaceRow("SetPresentTimestamp", Within(to, Int \ {0}))
<1>1. /\ CheckedAbove["SetScalingModeOf"] = ScalingModes
      /\ CheckedAbove["SetScalingMode"] = ScalingModes
      /\ CheckedAbove["SetVideoDimensionType"] = DimensionTypes
      /\ CheckedAbove["SetHdrWhitePointBrightness"] = Brightnesses
      /\ CheckedAbove["SetSdrWhitePointBrightness"] = Brightnesses
      /\ CheckedAbove["SetGlobalAlpha"] = GlobalAlphas
      /\ CheckedAbove["SetPresentTimestamp"] = Int \ {0}
    BY DEF CheckedAbove, Legal
<1>2. \A n \in Names(to) : \A values :
          values = CheckedAbove[n] => SurfaceRow(n, Within(to, values))
    BY DEF SurfaceRow, SurfacePass, Kept, Answers, Pass, Within
<1> QED BY <1>1, <1>2, Zenon

(* Each row of a surface checks what the queue does not, and passes a       *)
(* method its stub has, or keeps a setting of its own.                      *)
LEMMA ProducerRows ==
    ASSUME NEW m \in Names("psurface")
    PROVE  SurfaceRow(m, TableOf["psurface"][m])
<1> USE PassingRows, StubNames, LegalNames
<1>1. \A n \in DOMAIN ProducerCalls : SurfaceRow(n, ProducerCalls[n])
    BY DEF ProducerCalls, StubSizes, StubSources
<1>2. \A n \in DOMAIN ProducerTransformCalls : SurfaceRow(n, ProducerTransformCalls[n])
    BY DEF ProducerTransformCalls, StubSources
<1>3. \A n \in DOMAIN ProducerScalingCalls : SurfaceRow(n, ProducerScalingCalls[n])
    BY CheckedRows DEF ProducerScalingCalls, StubBuffers
<1>4. \A n \in DOMAIN ProducerBufferCalls : SurfaceRow(n, ProducerBufferCalls[n])
    BY CheckedRows DEF ProducerBufferCalls, StubBuffers
<1>5. \A n \in DOMAIN WindowConfigCalls : SurfaceRow(n, WindowConfigCalls[n])
    BY DEF WindowConfigCalls, StubBuffers
<1>6. \A n \in DOMAIN ProducerLightCalls : SurfaceRow(n, ProducerLightCalls[n])
    BY CheckedRows DEF ProducerLightCalls, StubSources, StubBuffers, StubSingle
<1>7. \A n \in DOMAIN ProducerRotationCalls : SurfaceRow(n, ProducerRotationCalls[n])
    BY DEF ProducerRotationCalls, StubRotations
<1>8. \A n \in DOMAIN ProducerAlphaCalls : SurfaceRow(n, ProducerAlphaCalls[n])
    BY DEF ProducerAlphaCalls, StubRotations
<1>9. LayerTables["psurface"] =
          {ProducerCalls, ProducerTransformCalls, ProducerScalingCalls, ProducerBufferCalls,
           WindowConfigCalls, ProducerLightCalls, ProducerRotationCalls, ProducerAlphaCalls}
    BY DEF LayerTables
<1>10. \E f \in LayerTables["psurface"] : m \in DOMAIN f /\ TableOf["psurface"][m] = f[m]
    BY LayersJoined, JoinedSome DEF Names
<1> QED BY <1>1, <1>2, <1>3, <1>4, <1>5, <1>6, <1>7, <1>8, <1>9, <1>10

(* The same of the consumer's surface.                                      *)
LEMMA ConsumerRows ==
    ASSUME NEW m \in Names("csurface")
    PROVE  SurfaceRow(m, TableOf["csurface"][m])
<1> USE PassingRows, StubNames, LegalNames
<1>1. \A n \in DOMAIN ConsumerSizeCalls : SurfaceRow(n, ConsumerSizeCalls[n])
    BY DEF ConsumerSizeCalls, ConsumerStubBuffers, StubSizes
<1>2. \A n \in DOMAIN ConsumerBufferCalls : SurfaceRow(n, ConsumerBufferCalls[n])
    BY CheckedRows DEF ConsumerBufferCalls, ConsumerStubBuffers, StubSources, StubBuffers
<1>3. \A n \in DOMAIN ConsumerSourceCalls : SurfaceRow(n, ConsumerSourceCalls[n])
    BY CheckedRows DEF ConsumerSourceCalls, ConsumerStubSources, StubSources
<1>4. \A n \in DOMAIN ConsumerGets : SurfaceRow(n, ConsumerGets[n])
    BY DEF ConsumerGets, ConsumerStubSources
<1>5. \A n \in DOMAIN ConsumerRotationCalls : SurfaceRow(n, ConsumerRotationCalls[n])
    BY DEF ConsumerRotationCalls, ConsumerStubRotations, ConsumerStubSources
<1>6. LayerTables["csurface"] = {ConsumerSizeCalls, ConsumerBufferCalls, ConsumerSourceCalls,
                                 ConsumerGets, ConsumerRotationCalls}
    BY DEF LayerTables
<1>7. \E f \in LayerTables["csurface"] : m \in DOMAIN f /\ TableOf["csurface"][m] = f[m]
    BY LayersJoined, JoinedSome DEF Names
<1> QED BY <1>1, <1>2, <1>3, <1>4, <1>5, <1>6, <1>7

(* Each row of the window calls a method of the producer's surface.         *)
LEMMA WindowRows ==
    ASSUME NEW m \in Names("window")
    PROVE  WindowRow(TableOf["window"][m])
<1>1. LayerTables["psurface"] =
          {ProducerCalls, ProducerTransformCalls, ProducerScalingCalls, ProducerBufferCalls,
           WindowConfigCalls, ProducerLightCalls, ProducerRotationCalls, ProducerAlphaCalls}
    BY DEF LayerTables
<1>2. /\ DOMAIN ProducerCalls \subseteq Names("psurface")
      /\ DOMAIN ProducerTransformCalls \subseteq Names("psurface")
      /\ DOMAIN ProducerScalingCalls \subseteq Names("psurface")
      /\ DOMAIN ProducerBufferCalls \subseteq Names("psurface")
      /\ DOMAIN WindowConfigCalls \subseteq Names("psurface")
      /\ DOMAIN ProducerLightCalls \subseteq Names("psurface")
    BY <1>1, LayersJoined, LayerHasNames
<1> DEFINE Called == Names("psurface") \ {"same", "SetBufferName"}
<1>11. /\ {"SetWindowConfigUsage", "SetWindowConfigWidthAndHeight", "SetWindowConfigFormat",
           "SetWindowConfigStride", "SetWindowConfigTimeout", "SetWindowConfigColorGamut",
           "GetWindowConfigUsage", "GetWindowConfigWidthAndHeight", "GetWindowConfigFormat",
           "GetWindowConfigStride", "GetWindowConfigTimeout", "GetWindowConfigColorGamut",
           "SetRequestWidthAndHeight", "SetWindowConfigTransform"} \subseteq Called
       /\ {"SetTransform", "GetTransform", "SetSurfaceSourceType", "GetSurfaceSourceType",
           "SetSurfaceAppFrameworkType", "GetSurfaceAppFrameworkType",
           "SetHdrWhitePointBrightness", "SetSdrWhitePointBrightness"} \subseteq Called
       /\ {"SetScalingModeOf", "SetScalingMode", "SetMetaData", "SetMetaDataSet", "SetBufferHold",
           "SetVideoDimensionType", "GetVideoDimensionType"} \subseteq Called
    BY <1>2 DEF ProducerCalls, ProducerTransformCalls, ProducerScalingCalls, ProducerBufferCalls,
                WindowConfigCalls, ProducerLightCalls
<1>3. /\ \A n \in Called : WindowRow(Option(Pass("psurface"), n))
      /\ \A n \in Called : WindowRow([Option(Pass("psurface"), n) EXCEPT !.within = 1..64])
      /\ \A n \in Called : WindowRow(Named(Pass("psurface"), n))
      /\ \A n \in Called : WindowRow(Named(Void("psurface"), n))
      /\ \A n \in Called : \A values : WindowRow(Named(Within("psurface", values), n))
    BY DEF WindowRow, Option, Pass, Named, Void, Within, Answers
<1> HIDE DEF Called
<1>4. \A n \in DOMAIN WindowSetOptions : WindowRow(WindowSetOptions[n])
    BY <1>3, <1>11 DEF WindowSetOptions
<1>5. \A n \in DOMAIN WindowGetOptions : WindowRow(WindowGetOptions[n])
    BY <1>3, <1>11 DEF WindowGetOptions
<1>6. \A n \in DOMAIN WindowCalls : WindowRow(WindowCalls[n])
    BY <1>3, <1>11 DEF WindowCalls
<1>7. \A n \in DOMAIN WindowSizeCalls : WindowRow(WindowSizeCalls[n])
    BY <1>3, <1>11 DEF WindowSizeCalls
<1>8. \A n \in DOMAIN WindowDimensionCalls : WindowRow(WindowDimensionCalls[n])
    BY <1>3, <1>11 DEF WindowDimensionCalls
<1>9. LayerTables["window"] = {WindowSetOptions, WindowGetOptions, WindowCalls, WindowSizeCalls,
                               WindowDimensionCalls}
    BY DEF LayerTables
<1>10. \E f \in LayerTables["window"] : m \in DOMAIN f /\ TableOf["window"][m] = f[m]
    BY LayersJoined, JoinedSome DEF Names
<1> QED BY <1>4, <1>5, <1>6, <1>7, <1>8, <1>9, <1>10

-----------------------------------------------------------------------------
(* Where a call of m at the layer ends.                                     *)
Below(layer, m) == IF TableOf[layer][m].kind = "pass" THEN <<"queue", m>> ELSE <<layer, m>>
EndFrom(layer, m) ==
    IF layer = "window" THEN Below("psurface", TableOf["window"][m].as) ELSE Below(layer, m)

Step(lm) == IF TableOf[lm[1]][lm[2]].kind = "pass" THEN NextOf(lm[1], lm[2]) ELSE lm

(* The steps of a call on its way down.                                     *)
LEMMA StubStep ==
    ASSUME NEW layer \in {"producer", "consumer"}, NEW m \in Names(layer)
    PROVE  /\ Step(<<layer, m>>) = <<"queue", m>>
           /\ Below(layer, m) = <<"queue", m>>
           /\ m \in Names("queue")
BY StubRows DEF StubRow, Step, Below, NextOf

(* A call that is in the queue has arrived.                                 *)
LEMMA QueueStep ==
    ASSUME NEW m \in Names("queue")
    PROVE  /\ Step(<<"queue", m>>) = <<"queue", m>>
           /\ Below("queue", m) = <<"queue", m>>
           /\ TableOf["queue"][m].kind # "pass"
BY QueueRows DEF QueueRow, Step, Below

(* A surface passes a call to a stub or keeps it.                           *)
LEMMA SurfaceStep ==
    ASSUME NEW layer \in {"psurface", "csurface"}, NEW m \in Names(layer)
    PROVE  LET row == TableOf[layer][m] IN
           \/ /\ row.kind = "pass" /\ row.to \in {"producer", "consumer"} /\ row.as = "same"
              /\ m \in Names(row.to)
              /\ Step(<<layer, m>>) = <<row.to, m>>
              /\ Below(layer, m) = <<"queue", m>>
           \/ /\ row.kind # "pass"
              /\ Step(<<layer, m>>) = <<layer, m>>
              /\ Below(layer, m) = <<layer, m>>
<1>1. SurfaceRow(m, TableOf[layer][m])
    BY ProducerRows, ConsumerRows
<1> QED BY <1>1 DEF SurfaceRow, SurfacePass, OwnRow, Step, Below, NextOf

(* A window calls its producer's surface.                                   *)
LEMMA WindowStep ==
    ASSUME NEW m \in Names("window")
    PROVE  LET n == TableOf["window"][m].as IN
           /\ Step(<<"window", m>>) = <<"psurface", n>>
           /\ n \in Names("psurface")
BY WindowRows DEF WindowRow, Step, NextOf

(* Four steps take a call to its end.                                       *)
LEMMA EndIsFrom ==
    ASSUME NEW layer \in EntryLayers, NEW m \in Names(layer)
    PROVE  EndOf[layer][m] = EndFrom(layer, m)
<1>1. EndOf[layer][m] = Step(Step(Step(Step(<<layer, m>>))))
    BY DEF EndOf, Step, Names
<1>2. \A s \in {"psurface", "csurface"} : \A n \in Names(s) :
          /\ Step(Step(Step(<<s, n>>))) = Below(s, n)
          /\ Step(Below(s, n)) = Below(s, n)
    BY SurfaceStep, StubStep, QueueStep
<1>3. CASE layer = "window"
    BY <1>1, <1>2, <1>3, WindowStep DEF EndFrom
<1>4. CASE layer \in {"psurface", "csurface"}
    BY <1>1, <1>2, <1>4 DEF EndFrom
<1> QED BY <1>3, <1>4 DEF EntryLayers

-----------------------------------------------------------------------------
(* A call on its way: it ends where its entry says, about the topic; a value*)
(* the queue does not check has been checked; and it may only have promised *)
(* OK where the entry's answer says nothing.                                *)
Goes(c) ==
    /\ call[c].at \in DOMAIN TableOf
    /\ call[c].m \in Names(call[c].at)
    /\ call[c].entry[1] \in EntryLayers
    /\ call[c].entry[2] \in Names(call[c].entry[1])

Promises(c) ==
    /\ call[c].gives \in Answers
    /\ call[c].gives = "OK" => AnswersBlindly(call[c].entry)
    /\ call[c].at = "window" => call[c].entry = <<"window", call[c].m>>
    /\ (call[c].at \in {"psurface", "csurface"} /\ call[c].m = "SetBufferName") =>
          AnswersBlindly(call[c].entry)

EndsThere(c) ==
    LET end == EndFrom(call[c].at, call[c].m) IN
    /\ end = EndOf[call[c].entry[1]][call[c].entry[2]]
    /\ topic = TableOf[end[1]][end[2]].of

Checked(c) ==
    (/\ call[c].at \in {"producer", "consumer", "queue"}
     /\ call[c].m \in DOMAIN CheckedAbove
     /\ TableOf["queue"][call[c].m].kind = "sets") => call[c].v \in CheckedAbove[call[c].m]

OnTheWay(c) == Goes(c) /\ Promises(c) /\ EndsThere(c) /\ Checked(c)

Answered(c) ==
    /\ (call[c].answer = "OK" /\ ~AnswersBlindly(call[c].entry)) => call[c].took
    /\ call[c].answer = "refused" => ~call[c].took

CallShape(c) == DOMAIN call[c] = DOMAIN Waiting

CallFits(c) ==
    /\ CallShape(c)
    /\ \/ call[c].at = "idle"
       \/ call[c].at = "done" /\ Answered(c)
       \/ OnTheWay(c)

LayersInv ==
    /\ DOMAIN call = Caller
    /\ \A c \in Caller : CallFits(c)
    /\ SettingsInRange

(* The fields of a call.                                                    *)
LEMMA WaitingShape ==
    DOMAIN Waiting = {"at", "entry", "m", "v", "seq", "gives", "answer", "took"}
BY DEF Waiting

(* What a layer answers keeps the promise of the entry.                     *)
LEMMA GivesKept ==
    ASSUME NEW c \in Caller, Goes(c), Promises(c),
           TableOf[call[c].at][call[c].m].kind = "pass"
    PROVE  LET gives == GivesSoFar(c, TableOf[call[c].at][call[c].m]) IN
           /\ gives \in Answers
           /\ gives = "OK" => AnswersBlindly(call[c].entry)
<1> DEFINE at == call[c].at
           m == call[c].m
           row == TableOf[at][m]
<1>1. at \in {"window", "psurface", "csurface", "producer", "consumer", "queue"} /\ m \in Names(at)
    BY LayersJoined DEF Goes
<1>2. CASE at = "window"
    BY <1>1, <1>2, WindowRows DEF WindowRow, Promises, GivesSoFar, AnswersBlindly
<1>3. CASE at \in {"psurface", "csurface"}
    BY <1>1, <1>3, ProducerRows, ConsumerRows DEF SurfaceRow, Promises, GivesSoFar
<1>4. CASE at \in {"producer", "consumer"}
    BY <1>1, <1>4, StubRows DEF StubRow, Promises, GivesSoFar
<1>5. CASE at = "queue"
    BY <1>1, <1>5, QueueStep
<1> QED BY <1>1, <1>2, <1>3, <1>4, <1>5

(* A call that ends is answered as its entry promises.                      *)
LEMMA EndsAnswered ==
    ASSUME NEW c \in Caller, NEW gives \in Answers, NEW took \in BOOLEAN, NEW answer,
           DOMAIN call = Caller, CallShape(c),
           gives = "OK" => AnswersBlindly(call[c].entry),
           answer = IF took THEN "OK" ELSE "refused",
           Ends(c, gives, answer, took)
    PROVE  CallFits(c)' /\ DOMAIN call' = Caller
<1>1. /\ call'[c].at = "done" /\ call'[c].took = took
      /\ call'[c].answer = Told(gives, answer)
      /\ call'[c].entry = call[c].entry
      /\ DOMAIN call'[c] = DOMAIN call[c]
      /\ DOMAIN call' = Caller
    BY WaitingShape DEF Ends, CallShape
<1>2. Answered(c)'
    BY <1>1 DEF Answered, Told, Answers
<1> QED BY <1>1, <1>2 DEF CallFits, CallShape

(* The other calls stay as they are.                                        *)
LEMMA OthersStay ==
    ASSUME NEW c \in Caller, CallFits(c), call'[c] = call[c], topic' = topic
    PROVE  CallFits(c)'
<1>1. CASE ~OnTheWay(c)
    BY <1>1 DEF CallFits, CallShape, Answered
<1>2. CASE OnTheWay(c)
    <2>1. Goes(c)' /\ Promises(c)' /\ EndsThere(c)' /\ Checked(c)'
        BY <1>2 DEF OnTheWay, Goes, Promises, EndsThere, Checked
    <2> QED BY <2>1, <1>2 DEF CallFits, CallShape, OnTheWay
<1> QED BY <1>1, <1>2

(* A caller enters a layer: its call is on the way.                         *)
LEMMA EntersFits ==
    ASSUME NEW c \in Caller, NEW e \in Entries, NEW v, NEW seq,
           DOMAIN call = Caller, Enters(c, e, v, seq)
    PROVE  CallFits(c)'
<1>1. e[1] \in EntryLayers /\ e[2] \in Names(e[1]) /\ e = <<e[1], e[2]>>
    BY DEF Entries, Names
<1>2. /\ call'[c].at = e[1] /\ call'[c].m = e[2] /\ call'[c].entry = e
      /\ call'[c].gives = "status"
      /\ DOMAIN call'[c] = DOMAIN Waiting
    BY WaitingShape DEF Enters, Waiting
<1>3. topic' = topic /\ topic = TopicOf[e[1]][e[2]]
    BY DEF Enters
<1>4. Goes(c)'
    BY <1>1, <1>2, LayersJoined DEF Goes, EntryLayers
<1>5. Promises(c)'
    BY <1>1, <1>2 DEF Promises, Answers, AnswersBlindly
<1>6. EndsThere(c)'
    <2>1. EndOf[e[1]][e[2]] = EndFrom(e[1], e[2])
        BY <1>1, EndIsFrom
    <2>2. TopicOf[e[1]][e[2]] = TableOf[EndOf[e[1]][e[2]][1]][EndOf[e[1]][e[2]][2]].of
        BY <1>1 DEF TopicOf, Names
    <2> QED BY <1>2, <1>3, <2>1, <2>2 DEF EndsThere
<1>7. Checked(c)'
    BY <1>1, <1>2 DEF Checked, EntryLayers
<1> QED BY <1>2, <1>4, <1>5, <1>6, <1>7 DEF CallFits, CallShape, OnTheWay

(* A layer that passes a call on hands it to a layer that has the method,   *)
(* nearer to the same end.                                                  *)
LEMMA PassesCloser ==
    ASSUME NEW layer \in DOMAIN TableOf, NEW m \in Names(layer),
           TableOf[layer][m].kind = "pass"
    PROVE  LET row == TableOf[layer][m]
               n   == NextOf(layer, m)[2]
           IN
           /\ row.to \in DOMAIN TableOf /\ n \in Names(row.to)
           /\ EndFrom(row.to, n) = EndFrom(layer, m)
           /\ row.to # "window"
           /\ row.to \in {"psurface", "csurface"} => layer = "window" /\ n # "SetBufferName"
           /\ row.to \in {"producer", "consumer", "queue"} => layer # "window" /\ n = m
<1>1. layer \in {"window", "psurface", "csurface", "producer", "consumer", "queue"}
    BY LayersJoined
<1>2. CASE layer = "window"
    BY <1>2, WindowRows, LayersJoined DEF WindowRow, NextOf, EndFrom
<1>3. CASE layer \in {"psurface", "csurface"}
    BY <1>3, SurfaceStep, StubStep, LayersJoined DEF NextOf, EndFrom
<1>4. CASE layer \in {"producer", "consumer"}
    BY <1>4, StubRows, StubStep, QueueStep, LayersJoined DEF StubRow, NextOf, EndFrom
<1>5. CASE layer = "queue"
    BY <1>5, QueueStep
<1> QED BY <1>1, <1>2, <1>3, <1>4, <1>5

(* A surface checks the values the queue takes unchecked.                   *)
LEMMA SurfaceKeeps ==
    ASSUME NEW layer \in {"psurface", "csurface"}, NEW m \in Names(layer),
           TableOf[layer][m].kind = "pass", m \in DOMAIN CheckedAbove
    PROVE  TableOf[layer][m].within \subseteq CheckedAbove[m]
<1>1. SurfaceRow(m, TableOf[layer][m])
    BY ProducerRows, ConsumerRows
<1> QED BY <1>1 DEF SurfaceRow, SurfacePass, OwnRow, Kept

(* PassesOn keeps the call on its way, or ends it with a refusal.           *)
LEMMA PassesFits ==
    ASSUME NEW c \in Caller, DOMAIN call = Caller, CallFits(c), PassesOn(c)
    PROVE  CallFits(c)' /\ DOMAIN call' = Caller
<1> DEFINE at == call[c].at
           m == call[c].m
           row == TableOf[at][m]
           gives == GivesSoFar(c, row)
           end == EndOf[call[c].entry[1]][call[c].entry[2]]
           isSet == TableOf[end[1]][end[2]].kind = "sets"
<1>1. at \in DOMAIN TableOf /\ row.kind = "pass" /\ topic' = topic
    BY DEF PassesOn
<1>2. OnTheWay(c) /\ CallShape(c)
    BY <1>1, LayersJoined DEF CallFits
<1>3. m \in Names(at)
    BY <1>2 DEF OnTheWay, Goes
<1>4. gives \in Answers /\ (gives = "OK" => AnswersBlindly(call[c].entry))
    BY <1>1, <1>2, GivesKept DEF OnTheWay
<1>5. \/ Ends(c, gives, "refused", FALSE)
      \/ /\ ~(isSet /\ call[c].v \notin row.within)
         /\ call' = [call EXCEPT ![c].at = row.to, ![c].gives = gives, ![c].m = NextOf(at, m)[2]]
    BY DEF PassesOn
<1> HIDE DEF gives
<1>6. CASE Ends(c, gives, "refused", FALSE)
    BY <1>2, <1>4, <1>6, EndsAnswered
<1>7. CASE /\ ~(isSet /\ call[c].v \notin row.within)
           /\ call' = [call EXCEPT ![c].at = row.to, ![c].gives = gives, ![c].m = NextOf(at, m)[2]]
    <2> DEFINE n == NextOf(at, m)[2]
               to == row.to
    <2>1. /\ call'[c].at = to /\ call'[c].gives = gives /\ call'[c].m = n
          /\ call'[c].entry = call[c].entry /\ call'[c].v = call[c].v
          /\ DOMAIN call'[c] = DOMAIN call[c]
          /\ DOMAIN call' = Caller
        BY <1>2, <1>7, WaitingShape DEF CallShape
    <2>2. /\ to \in DOMAIN TableOf /\ n \in Names(to)
          /\ EndFrom(to, n) = EndFrom(at, m)
          /\ to # "window"
          /\ to \in {"psurface", "csurface"} => at = "window" /\ n # "SetBufferName"
          /\ to \in {"producer", "consumer", "queue"} => at # "window" /\ n = m
        BY <1>1, <1>3, PassesCloser
    <2> HIDE DEF n, to
    <2>3. Goes(c)'
        BY <1>2, <2>1, <2>2 DEF OnTheWay, Goes
    <2>4. Promises(c)'
        BY <1>4, <2>1, <2>2 DEF Promises
    <2>5. EndsThere(c)'
        BY <1>1, <1>2, <2>1, <2>2 DEF OnTheWay, EndsThere
    <2>6. Checked(c)'
        <3> SUFFICES ASSUME to \in {"producer", "consumer", "queue"}, m \in DOMAIN CheckedAbove,
                            TableOf["queue"][m].kind = "sets"
                     PROVE  call[c].v \in CheckedAbove[m]
            BY <2>1, <2>2 DEF Checked
        <3>1. at \in {"psurface", "csurface", "producer", "consumer", "queue"}
            BY <1>1, <2>2, LayersJoined
        <3>2. CASE at \in {"producer", "consumer", "queue"}
            BY <1>2, <3>2 DEF OnTheWay, Checked
        <3>3. CASE at \in {"psurface", "csurface"}
            <4>1. end = <<"queue", m>>
                BY <1>1, <1>2, <3>3 DEF OnTheWay, EndsThere, EndFrom, Below
            <4>2. call[c].v \in row.within
                BY <1>7, <4>1
            <4>3. row.within \subseteq CheckedAbove[m]
                BY <1>1, <1>3, <3>3, SurfaceKeeps
            <4> QED BY <4>2, <4>3
        <3> QED BY <3>1, <3>2, <3>3
    <2> QED BY <1>2, <2>1, <2>3, <2>4, <2>5, <2>6 DEF CallFits, CallShape, OnTheWay
<1> QED BY <1>5, <1>6, <1>7

(* The last layer answers, and what it sets is legal.                       *)
LEMMA SettlesFits ==
    ASSUME NEW c \in Caller, DOMAIN call = Caller, CallFits(c), SettingsInRange, Settles(c)
    PROVE  CallFits(c)' /\ DOMAIN call' = Caller /\ SettingsInRange'
<1> DEFINE at == call[c].at
           m == call[c].m
           row == TableOf[at][m]
           refused == (row.perBuffer /\ call[c].seq = "gone")
                        \/ (row.kind = "sets" /\ call[c].v \notin row.within)
<1>1. at \in DOMAIN TableOf /\ row.kind # "pass" /\ topic' = topic
    BY DEF Settles
<1>2. OnTheWay(c) /\ CallShape(c)
    BY <1>1, LayersJoined DEF CallFits
<1>3. m \in Names(at)
    BY <1>2 DEF OnTheWay, Goes
<1>4. call[c].gives \in Answers /\ (call[c].gives = "OK" => AnswersBlindly(call[c].entry))
    BY <1>2 DEF OnTheWay, Promises
<1>5. \/ /\ Ends(c, call[c].gives, "refused", FALSE)
         /\ setting' = setting
      \/ /\ ~refused
         /\ Ends(c, call[c].gives, "OK", TRUE)
         /\ setting' = CASE row.kind = "sets"  -> call[c].v
                         [] row.kind = "takes" -> 0
                         [] row.kind = "gets"  -> setting
    BY DEF Settles
<1>6. CallFits(c)' /\ DOMAIN call' = Caller
    BY <1>2, <1>4, <1>5, EndsAnswered
<1>7. CASE setting' = setting
    BY <1>1, <1>6, <1>7 DEF SettingsInRange
<1>8. CASE /\ ~refused
           /\ setting' = CASE row.kind = "sets"  -> call[c].v
                           [] row.kind = "takes" -> 0
                           [] row.kind = "gets"  -> setting
    <2>1. at \in {"window", "psurface", "csurface", "producer", "consumer", "queue"}
        BY <1>1, LayersJoined
    <2>2. at # "window"
        BY <1>1, <1>3, WindowRows DEF WindowRow
    <2>3. at \notin {"producer", "consumer"}
        BY <1>1, <1>3, StubRows DEF StubRow
    <2>4. topic = row.of
        BY <1>1, <1>2, <2>2 DEF OnTheWay, EndsThere, EndFrom, Below
    <2>5. CASE at \in {"psurface", "csurface"}
        <3>1. row.of \notin DOMAIN Legal
            BY <1>1, <1>3, <2>5, ProducerRows, ConsumerRows DEF SurfaceRow, SurfacePass, OwnRow
        <3> QED BY <1>1, <1>6, <2>4, <3>1 DEF SettingsInRange
    <2>6. CASE at = "queue"
        <3>1. QueueRow(m, row)
            BY <1>3, <2>6, QueueRows
        <3>2. CASE row.of \notin DOMAIN Legal
            BY <1>1, <1>6, <2>4, <3>2 DEF SettingsInRange
        <3>3. CASE row.kind = "sets" /\ row.of \in DOMAIN Legal
            <4>1. setting' = call[c].v /\ call[c].v \in row.within
                BY <1>8, <3>3
            <4>2. call[c].v \in Legal[row.of]
                BY <1>2, <2>6, <3>1, <3>3, <4>1 DEF QueueRow, OnTheWay, Checked
            <4> QED BY <1>1, <1>6, <2>4, <4>1, <4>2 DEF SettingsInRange
        <3>4. CASE row.kind = "gets"
            BY <1>1, <1>6, <1>8, <3>4 DEF SettingsInRange
        <3> QED BY <3>1, <3>2, <3>3, <3>4 DEF QueueRow
    <2> QED BY <2>1, <2>2, <2>3, <2>5, <2>6
<1> QED BY <1>5, <1>6, <1>7, <1>8

(* No call is under way at first, and nothing is set.                       *)
LEMMA LayersStart == LayersInit => LayersInv
<1> SUFFICES ASSUME LayersInit PROVE LayersInv
    OBVIOUS
<1>1. \A c \in Caller : call[c] = Waiting
    BY DEF LayersInit
<1>2. Waiting.at = "idle"
    BY DEF Waiting
<1> QED BY <1>1, <1>2 DEF LayersInit, LayersInv, CallFits, CallShape, SettingsInRange

(* Each step keeps every call as it should be, and what is set legal.       *)
LEMMA LayersStep == LayersInv /\ [SettingNext]_layerVars => LayersInv'
<1> SUFFICES ASSUME LayersInv, [SettingNext]_layerVars PROVE LayersInv'
    OBVIOUS
<1>1. CASE UNCHANGED layerVars
    <2>1. \A c \in Caller : CallFits(c)'
        BY <1>1, OthersStay DEF LayersInv, layerVars
    <2> QED BY <1>1, <2>1 DEF LayersInv, layerVars, SettingsInRange
<1>2. ASSUME NEW c \in Caller,
             \/ \E e \in Entries, v \in Offers(topic), seq \in {"cached", "gone"} : Enters(c, e, v, seq)
             \/ PassesOn(c) \/ Settles(c) \/ Ready(c)
      PROVE  LayersInv'
    <2>1. topic' = topic /\ DOMAIN call = Caller /\ \A d \in Caller : CallFits(d)
        BY <1>2 DEF LayersInv, Enters, PassesOn, Settles, Ready
    <2>2. \A d \in Caller \ {c} : call'[d] = call[d]
        BY <1>2, <2>1 DEF Enters, PassesOn, Settles, Ready, Ends
    <2>3. \A d \in Caller \ {c} : CallFits(d)'
        BY <2>1, <2>2, OthersStay
    <2>4. CallFits(c)' /\ DOMAIN call' = Caller /\ SettingsInRange'
        <3>1. CASE \E e \in Entries, v \in Offers(topic), seq \in {"cached", "gone"} : Enters(c, e, v, seq)
            <4>1. CallFits(c)'
                BY <2>1, <3>1, EntersFits
            <4> QED BY <2>1, <3>1, <4>1 DEF LayersInv, SettingsInRange, Enters
        <3>2. CASE PassesOn(c)
            BY <2>1, <3>2, PassesFits DEF LayersInv, SettingsInRange, PassesOn
        <3>3. CASE Settles(c)
            BY <2>1, <3>3, SettlesFits DEF LayersInv
        <3>4. CASE Ready(c)
            <4>1. call'[c] = Waiting /\ DOMAIN call' = Caller
                BY <2>1, <3>4 DEF Ready
            <4>2. Waiting.at = "idle"
                BY DEF Waiting
            <4> QED BY <2>1, <3>4, <4>1, <4>2 DEF LayersInv, SettingsInRange, Ready, CallFits, CallShape
        <3> QED BY <1>2, <3>1, <3>2, <3>3, <3>4
    <2> QED BY <2>3, <2>4 DEF LayersInv
<1> QED BY <1>1, <1>2 DEF SettingNext

(* A call that is done has been answered by then.                           *)
LEMMA CallsAnswered == LayersInv => OkMeansDone
<1> SUFFICES ASSUME LayersInv, NEW c \in Caller, call[c].at = "done"
             PROVE  Answered(c)
    BY DEF OkMeansDone, Answered
<1>1. ~OnTheWay(c)
    BY LayersJoined DEF OnTheWay, Goes
<1> QED BY <1>1 DEF LayersInv, CallFits

(***************************************************************************)
(* A caller who is told OK got its value to where it belongs, and one that  *)
(* is refused changed nothing, whichever layers the call went through; the  *)
(* window's options and the buffer name, whose answers say nothing, apart.  *)
(* NativeWindowHandleOpt returns OK whatever the surface answered; every    *)
(* other layer hands the answer of the layer below on.                      *)
(***************************************************************************)
THEOREM OKsAreDone == SettingSpec => []OkMeansDone
BY LayersStart, LayersStep, CallsAnswered, PTL DEF SettingSpec

(***************************************************************************)
(* The queue is never left with a value its readers do not expect.  It      *)
(* checks some of the settings itself; the scaling mode, the dimension      *)
(* type, the two brightnesses, the alpha and the present time it takes as   *)
(* they come, and every way into it leads through a surface that checks     *)
(* them: ProducerSurface and ConsumerSurface.                               *)
(***************************************************************************)
THEOREM SettingsAreLegal == SettingSpec => []SettingsInRange
<1>1. LayersInv => SettingsInRange
    BY DEF LayersInv
<1> QED BY <1>1, LayersStart, LayersStep, PTL DEF SettingSpec
=============================================================================
