-------------------------- MODULE StreamPump_proofs -------------------------
(* Theorems about StreamPump: what a client has read of a stream, for any   *)
(* number of pieces and any room on the connection.                         *)
EXTENDS StreamPump, SequenceTheorems, TLAPS

Events == [type : {"role", "calls", "token", "finish", "end"}, n : Nat]

IsToken(i) == sent[i].type = "token"
HasToken(j) == \E i \in 1 .. Len(sent) : IsToken(i) /\ sent[i].n = j
HasCalls == \E i \in 1 .. Len(sent) : sent[i].type = "calls"

\* The variables and what each control point says about them.
StateInv ==
    /\ pc \in {"open", "recv"} \cup WritePoints \cup Final
    /\ kind \in Kinds /\ stream \in {"none", "open", "closed"}
    /\ up \in {"running", "eof", "error"} /\ conn \in {"up", "gone"}
    /\ produced \in Seq(Pieces) /\ taken \in 0 .. Len(produced)
    /\ sent \in Seq(Events) /\ seen \in 0 .. Len(sent)
    /\ pc \in {"open", "role"} => sent = <<>> /\ taken = 0
    /\ kind = "ask" => pc \notin {"role", "calls"}
    /\ kind = "tools" => pc \notin {"recv", "write"} /\ taken = 0
    /\ pc = "calls" => kind = "tools"
    /\ pc = "write" => taken > 0
    /\ pc = "finish" /\ kind # "tools" => up = "eof" /\ taken = Len(produced)

\* Tokens are sent in the order of their pieces, and none for a piece not received.
OrderInv ==
    /\ \A i \in 1 .. Len(sent) : sent[i].n <= taken /\ (pc = "write" /\ IsToken(i) => sent[i].n < taken)
    /\ \A i, k \in 1 .. Len(sent) : i < k /\ IsToken(i) /\ IsToken(k) => sent[i].n < sent[k].n

\* While the client is there, everything received is on the connection but the piece
\* about to be written; and a token is there only after those before it.
GapInv ==
    /\ conn = "up" /\ pc \in {"recv", "write", "finish"} =>
          \A j \in 1 .. taken : produced[j] # "blank" => HasToken(j) \/ (pc = "write" /\ j = taken)
    /\ \A i \in 1 .. Len(sent) : IsToken(i) =>
          \A j \in 1 .. sent[i].n : produced[j] # "blank" => HasToken(j)

\* The end marker is the last event, and the whole answer is before it.
EndInv ==
    /\ conn = "up" /\ kind = "tools" /\ pc = "finish" => HasCalls
    /\ \A i \in 1 .. Len(sent) : sent[i].type = "end" =>
          /\ pc = "ended" /\ stream # "open" /\ i = Len(sent)
          /\ kind = "tools" => HasCalls
          /\ kind # "tools" =>
                up = "eof" /\ \A j \in 1 .. Len(produced) : produced[j] # "blank" => HasToken(j)

\* The role is the first event of a chat stream.
RoleInv ==
    kind # "ask" =>
        /\ Len(sent) > 0 => sent[1].type = "role"
        /\ conn = "up" /\ pc \in {"recv", "write", "calls", "finish"} => Len(sent) > 0

IInv == StateInv /\ OrderInv /\ GapInv /\ EndInv /\ RoleInv

-----------------------------------------------------------------------------
\* What a write of one event adds to the connection.
LEMMA OneMore ==
  ASSUME sent \in Seq(Events), NEW e \in Events, sent' = sent \o <<e>>
  PROVE  /\ sent' \in Seq(Events) /\ Len(sent) \in Nat /\ Len(sent') = Len(sent) + 1
         /\ \A i \in 1 .. Len(sent) : sent'[i] = sent[i]
         /\ sent'[Len(sent) + 1] = e
  OBVIOUS

LEMMA TwoMore ==
  ASSUME sent \in Seq(Events), NEW e \in Events, NEW f \in Events, sent' = sent \o <<e, f>>
  PROVE  /\ sent' \in Seq(Events) /\ Len(sent) \in Nat /\ Len(sent') = Len(sent) + 2
         /\ \A i \in 1 .. Len(sent) : sent'[i] = sent[i]
         /\ sent'[Len(sent) + 1] = e /\ sent'[Len(sent) + 2] = f
  OBVIOUS

LEMMA Initially == Init => IInv
  BY DEF Init, IInv, StateInv, OrderInv, GapInv, EndInv, RoleInv, IsToken, HasToken, HasCalls,
         Kinds, WritePoints, Final, Events

\* Steps that send nothing and leave the pieces and the client as they are.
LEMMA QuietSteps ==
  ASSUME IInv, UNCHANGED <<kind, produced, sent, conn>>,
         OpenStream \/ OpenFails \/ Recv \/ RecvEof \/ RecvError \/ EndOfModel \/ ClientReads \/ Kill
  PROVE  IInv'
<1> USE DEF IInv, upVars
<1>0. \A i \in 1 .. Len(sent) : sent[i].n \in Nat
  <2>1. \A i \in 1 .. Len(sent) : sent[i] \in Events
    BY DEF StateInv
  <2> QED
    BY <2>1 DEF Events
<1>1. StateInv'
  BY DEF StateInv, OpenStream, OpenFails, Recv, RecvEof, RecvError, EndOfModel, ClientReads, Kill,
         AfterError, Close, Wanted, Kinds, WritePoints, Final
<1>2. taken' = taken \/ (Recv /\ taken' = taken + 1)
  BY DEF OpenStream, OpenFails, Recv, RecvEof, RecvError, EndOfModel, ClientReads, Kill
<1>3. ~Recv => (pc' = pc \/ pc' \in {"recv", "role", "refused", "finish", "ended", "killed"})
               /\ (pc' \in {"recv", "finish"} => pc \in {"open", "recv", "finish"})
               /\ (pc = "open" => taken' = taken /\ sent = <<>>)
  BY DEF StateInv, OpenStream, OpenFails, RecvEof, RecvError, EndOfModel, ClientReads, Kill, AfterError
<1>4. OrderInv'
  <2>1. CASE Recv
    BY <2>1, <1>0 DEF StateInv, OrderInv, IsToken, Recv
  <2>2. CASE ~Recv
    BY <2>2, <1>0, <1>2, <1>3 DEF StateInv, OrderInv, IsToken
  <2> QED
    BY <2>1, <2>2
<1>5. GapInv'
  <2>1. CASE Recv
    <3>1. \A j : HasToken(j)' <=> HasToken(j)
      BY DEF HasToken, IsToken
    <3>2. /\ pc = "recv" /\ taken' = taken + 1 /\ taken \in Nat
          /\ produced[taken'] # "blank" => pc' = "write"
          /\ kind' = kind /\ conn' = conn /\ produced' = produced /\ sent' = sent
      BY <2>1 DEF Recv, Wanted, StateInv
    <3>3. conn = "up" => \A j \in 1 .. taken : produced[j] # "blank" => HasToken(j)
      BY <3>2 DEF GapInv
    <3>4. conn = "up" => \A j \in 1 .. taken' : produced[j] # "blank" => HasToken(j) \/ (pc' = "write" /\ j = taken')
      BY <3>2, <3>3
    <3> QED
      BY <3>1, <3>2, <3>4 DEF GapInv, IsToken
  <2>2. CASE OpenStream
    BY <2>2, <1>0 DEF StateInv, GapInv, HasToken, IsToken, OpenStream
  <2>3. CASE ~Recv /\ ~OpenStream
    BY <2>3, <1>0 DEF StateInv, GapInv, HasToken, IsToken, OpenFails, RecvEof, RecvError, EndOfModel,
                      ClientReads, Kill, AfterError
  <2> QED
    BY <2>1, <2>2, <2>3
<1>6. EndInv'
  BY DEF StateInv, EndInv, HasToken, HasCalls, IsToken, OpenStream, OpenFails, Recv, RecvEof, RecvError,
         EndOfModel, ClientReads, Kill, AfterError, Close, Final
<1>7. RoleInv'
  BY DEF StateInv, RoleInv, OpenStream, OpenFails, Recv, RecvEof, RecvError, EndOfModel, ClientReads, Kill,
         AfterError, Close
<1> QED
  BY <1>1, <1>4, <1>5, <1>6, <1>7

\* The model sends a piece; the pieces before it stay.
LEMMA ProduceKeeps ==
  ASSUME IInv, Produce
  PROVE  IInv'
<1> USE DEF IInv
<1>1. PICK p \in Pieces : produced' = Append(produced, p)
  BY DEF Produce
<1>2. /\ stream = "open" /\ up = "running"
      /\ UNCHANGED <<pc, kind, stream, up, taken, conn, sent, seen>>
  BY DEF Produce
<1>3. /\ produced' \in Seq(Pieces) /\ Len(produced') = Len(produced) + 1 /\ Len(produced) \in Nat
      /\ \A j \in 1 .. Len(produced) : produced'[j] = produced[j]
  BY <1>1 DEF StateInv
<1>4. StateInv'
  BY <1>2, <1>3 DEF StateInv
<1>5. OrderInv' /\ RoleInv'
  BY <1>2 DEF OrderInv, RoleInv, IsToken
<1>6. \A i \in 1 .. Len(sent) : sent[i].n <= taken /\ sent[i].n \in Nat
  <2>1. \A i \in 1 .. Len(sent) : sent[i] \in Events
    BY DEF StateInv
  <2> QED
    BY <2>1 DEF Events, OrderInv
<1>7. GapInv'
  <2>1. \A j : HasToken(j)' <=> HasToken(j)
    BY <1>2 DEF HasToken, IsToken
  <2>2. \A j \in 1 .. taken : produced'[j] = produced[j]
    BY <1>3 DEF StateInv
  <2>3. \A i \in 1 .. Len(sent) : \A j \in 1 .. sent[i].n : j \in 1 .. taken
    BY <1>6 DEF StateInv
  <2> QED
    BY <1>2, <2>1, <2>2, <2>3 DEF GapInv, IsToken
<1>8. EndInv'
  BY <1>2 DEF EndInv, HasCalls
<1> QED
  BY <1>4, <1>5, <1>7, <1>8

\* The client leaves; what it has read stays read.
LEMMA LeaveKeeps ==
  ASSUME IInv, ClientLeaves
  PROVE  IInv'
  BY DEF IInv, StateInv, OrderInv, GapInv, EndInv, RoleInv, HasToken, HasCalls, IsToken, ClientLeaves, upVars

\* A write to a client that is gone adds nothing, whether it fails or is swallowed.
LEMMA LostWrites ==
  ASSUME IInv, conn = "gone", WriteRole \/ WriteCalls \/ WriteToken \/ WriteEnd
  PROVE  IInv'
<1>1. /\ UNCHANGED <<kind, upVars, taken, conn, seen, sent>>
      /\ pc \in WritePoints
      /\ \/ pc = "role" /\ pc' = (IF kind = "tools" THEN "calls" ELSE "recv")
         \/ pc = "calls" /\ pc' = "finish"
         \/ pc = "write" /\ pc' = "recv"
         \/ pc' = "ended"
      /\ stream' \in {stream, "closed"}
  BY DEF WriteRole, WriteCalls, WriteToken, WriteEnd, Write, Close, WritePoints
<1>2. StateInv'
  BY <1>1 DEF IInv, StateInv, upVars, WritePoints, Final, Kinds
<1>3. OrderInv' /\ GapInv' /\ RoleInv'
  BY <1>1 DEF IInv, StateInv, OrderInv, GapInv, RoleInv, HasToken, IsToken, upVars
<1>4. EndInv'
  BY <1>1 DEF IInv, EndInv, HasToken, IsToken, HasCalls, upVars, WritePoints
<1> QED
  BY <1>2, <1>3, <1>4 DEF IInv

\* Whatever is added to the connection, what is there stays.
LEMMA StaysSent ==
  ASSUME sent \in Seq(Events), sent' \in Seq(Events), Len(sent) <= Len(sent'),
         \A i \in 1 .. Len(sent) : sent'[i] = sent[i]
  PROVE  /\ \A j : HasToken(j) => HasToken(j)'
         /\ HasCalls => HasCalls'
  BY DEF HasToken, HasCalls, IsToken

\* The role goes out first.
LEMMA RoleKeeps ==
  ASSUME IInv, conn = "up", WriteRole
  PROVE  IInv'
<1> USE DEF IInv
<1>1. /\ sent = <<>> /\ sent' = sent \o <<Event("role")>> /\ taken = 0 /\ kind # "ask"
      /\ pc' = IF kind = "tools" THEN "calls" ELSE "recv"
      /\ UNCHANGED <<kind, stream, upVars, taken, conn, seen>>
  BY DEF WriteRole, Write, StateInv
<1>2. Event("role") \in Events
  BY DEF Event, Events
<1>3. /\ sent' \in Seq(Events) /\ Len(sent') = 1
      /\ sent'[1].type = "role" /\ sent'[1].n = 0
  BY <1>1, <1>2, OneMore DEF StateInv, Event
<1>4. StateInv'
  BY <1>1, <1>3 DEF StateInv, upVars, WritePoints, Final, Kinds
<1>5. OrderInv' /\ GapInv' /\ EndInv' /\ RoleInv'
  BY <1>1, <1>3 DEF StateInv, OrderInv, GapInv, EndInv, RoleInv, IsToken, upVars
<1> QED
  BY <1>4, <1>5

\* The calls of a tool-call response go out after the role.
LEMMA CallsKeeps ==
  ASSUME IInv, conn = "up", WriteCalls
  PROVE  IInv'
<1> USE DEF IInv
<1>1. /\ sent' = sent \o <<Event("calls")>> /\ kind = "tools" /\ pc = "calls" /\ pc' = "finish"
      /\ UNCHANGED <<kind, stream, upVars, taken, conn, seen>>
  BY DEF WriteCalls, Write, StateInv
<1>2. Event("calls") \in Events /\ Event("calls").type = "calls" /\ Event("calls").n = 0
  BY DEF Event, Events
<1>3. /\ sent' \in Seq(Events) /\ Len(sent) \in Nat /\ Len(sent') = Len(sent) + 1
      /\ \A i \in 1 .. Len(sent) : sent'[i] = sent[i]
      /\ sent'[Len(sent) + 1].type = "calls" /\ sent'[Len(sent) + 1].n = 0
  BY <1>1, <1>2, OneMore DEF StateInv
<1>4. (\A j : HasToken(j) => HasToken(j)') /\ HasCalls'
  BY <1>3, StaysSent DEF HasCalls, StateInv
<1>5. StateInv'
  BY <1>1, <1>3 DEF StateInv, upVars, WritePoints, Final, Kinds
<1>6. OrderInv'
  BY <1>1, <1>3 DEF StateInv, OrderInv, IsToken
<1>7. GapInv'
  <2>1. \A i \in 1 .. Len(sent') : sent'[i].type = "token" =>
            i \in 1 .. Len(sent) /\ sent'[i] = sent[i]
    BY <1>3
  <2>2. taken' = 0
    BY <1>1 DEF StateInv
  <2> QED
    BY <1>1, <1>4, <2>1, <2>2 DEF GapInv, IsToken, upVars
<1>8. EndInv' /\ RoleInv'
  BY <1>1, <1>3, <1>4 DEF StateInv, EndInv, RoleInv, upVars
<1> QED
  BY <1>5, <1>6, <1>7, <1>8

\* The piece just received goes out after all those before it.
LEMMA TokenKeeps ==
  ASSUME IInv, conn = "up", WriteToken
  PROVE  IInv'
<1> USE DEF IInv
<1>1. /\ sent' = sent \o <<TokenEvent>> /\ kind # "tools" /\ pc = "write" /\ pc' = "recv"
      /\ UNCHANGED <<kind, stream, upVars, taken, conn, seen>>
      /\ taken \in Nat /\ taken > 0
  BY DEF WriteToken, Write, StateInv
<1>2. TokenEvent \in Events /\ TokenEvent.type = "token" /\ TokenEvent.n = taken
  BY <1>1 DEF TokenEvent, Events
<1>3. /\ sent' \in Seq(Events) /\ Len(sent) \in Nat /\ Len(sent') = Len(sent) + 1
      /\ \A i \in 1 .. Len(sent) : sent'[i] = sent[i]
      /\ sent'[Len(sent) + 1].type = "token" /\ sent'[Len(sent) + 1].n = taken
  BY <1>1, <1>2, OneMore DEF StateInv
<1>4. \A j : HasToken(j) => HasToken(j)'
  BY <1>3, StaysSent DEF StateInv
<1>5. HasToken(taken)'
  BY <1>1, <1>3 DEF HasToken, IsToken
<1>6. StateInv'
  BY <1>1, <1>3 DEF StateInv, upVars, WritePoints, Final, Kinds
<1>7. OrderInv'
  BY <1>1, <1>3 DEF StateInv, OrderInv, IsToken
<1>8. GapInv'
  <2>1. \A j \in 1 .. taken : produced[j] # "blank" => HasToken(j)'
    BY <1>1, <1>4, <1>5 DEF GapInv
  <2>2. ASSUME NEW i \in 1 .. Len(sent'), IsToken(i)', NEW j \in 1 .. sent'[i].n, produced[j] # "blank"
        PROVE  HasToken(j)'
    <3>1. CASE i \in 1 .. Len(sent)
      BY <1>3, <1>4, <2>2, <3>1 DEF GapInv, IsToken
    <3>2. CASE i = Len(sent) + 1
      BY <1>3, <2>1, <2>2, <3>2
    <3> QED
      BY <1>3, <3>1, <3>2
  <2> QED
    BY <1>1, <2>1, <2>2 DEF GapInv, upVars
<1>9. EndInv' /\ RoleInv'
  BY <1>1, <1>3, <1>4 DEF StateInv, EndInv, RoleInv, upVars
<1> QED
  BY <1>6, <1>7, <1>8, <1>9

\* The end goes out when everything else has.
LEMMA EndKeeps ==
  ASSUME IInv, conn = "up", WriteEnd
  PROVE  IInv'
<1> USE DEF IInv
<1>1. /\ sent' = sent \o LastEvents /\ pc = "finish" /\ pc' = "ended" /\ Close
      /\ UNCHANGED <<kind, upVars, taken, conn, seen>>
  BY DEF WriteEnd, Write
<1>2. /\ stream' # "open" /\ stream' \in {"none", "closed"}
  BY <1>1 DEF Close, StateInv
<1>3. /\ Event("finish") \in Events /\ Event("end") \in Events
      /\ Event("finish").type = "finish" /\ Event("end").type = "end"
      /\ Event("finish").n = 0 /\ Event("end").n = 0
  BY DEF Event, Events
<1>4. /\ sent' \in Seq(Events) /\ Len(sent) \in Nat /\ Len(sent') \in Nat /\ Len(sent) < Len(sent')
      /\ \A i \in 1 .. Len(sent) : sent'[i] = sent[i]
      /\ \A i \in 1 .. Len(sent') : i > Len(sent) =>
            sent'[i].type \in {"finish", "end"} /\ sent'[i].n = 0
      /\ \A i \in 1 .. Len(sent') : i > Len(sent) /\ sent'[i].type = "end" => i = Len(sent')
  <2>1. CASE kind = "ask"
    <3>1. sent' = sent \o <<Event("end")>>
      BY <1>1, <2>1 DEF LastEvents
    <3>2. /\ sent' \in Seq(Events) /\ Len(sent) \in Nat /\ Len(sent') = Len(sent) + 1
          /\ \A i \in 1 .. Len(sent) : sent'[i] = sent[i]
          /\ sent'[Len(sent) + 1] = Event("end")
      BY <1>3, <3>1, OneMore DEF StateInv
    <3> QED
      BY <1>3, <3>2
  <2>2. CASE kind # "ask"
    <3>1. sent' = sent \o <<Event("finish"), Event("end")>>
      BY <1>1, <2>2 DEF LastEvents
    <3>2. /\ sent' \in Seq(Events) /\ Len(sent) \in Nat /\ Len(sent') = Len(sent) + 2
          /\ \A i \in 1 .. Len(sent) : sent'[i] = sent[i]
          /\ sent'[Len(sent) + 1] = Event("finish") /\ sent'[Len(sent) + 2] = Event("end")
      BY <1>3, <3>1, TwoMore DEF StateInv
    <3>3. \A i \in 1 .. Len(sent') : i > Len(sent) => i = Len(sent) + 1 \/ i = Len(sent) + 2
      BY <3>2
    <3> QED
      BY <1>3, <3>2, <3>3
  <2> QED
    BY <2>1, <2>2
<1>5. (\A j : HasToken(j) => HasToken(j)') /\ (HasCalls => HasCalls')
  BY <1>4, StaysSent DEF StateInv
<1>6. StateInv'
  BY <1>1, <1>2, <1>4 DEF StateInv, upVars, WritePoints, Final, Kinds
<1>7. OrderInv'
  <2>1. \A i \in 1 .. Len(sent') : sent'[i].type = "token" =>
            i \in 1 .. Len(sent) /\ sent'[i] = sent[i]
    BY <1>4
  <2>2. \A i \in 1 .. Len(sent') : sent'[i].n <= taken'
    <3>1. taken' = taken /\ taken \in Nat
      BY <1>1 DEF StateInv
    <3> QED
      BY <1>4, <3>1 DEF OrderInv
  <2> QED
    BY <1>1, <2>1, <2>2 DEF OrderInv, IsToken
<1>8. GapInv'
  <2>1. \A i \in 1 .. Len(sent') : sent'[i].type = "token" =>
            i \in 1 .. Len(sent) /\ sent'[i] = sent[i]
    BY <1>4
  <2> QED
    BY <1>1, <1>5, <2>1 DEF GapInv, IsToken, upVars
<1>9. EndInv'
  <2>1. \A i \in 1 .. Len(sent) : sent[i].type # "end"
    BY <1>1 DEF EndInv
  <2>2. kind = "tools" => HasCalls'
    BY <1>1, <1>5 DEF EndInv
  <2>3. kind # "tools" => up = "eof" /\ \A j \in 1 .. Len(produced) : produced[j] # "blank" => HasToken(j)'
    BY <1>1, <1>5 DEF StateInv, GapInv
  <2>4. \A i \in 1 .. Len(sent') : sent'[i].type = "end" => i = Len(sent')
    BY <1>4, <2>1
  <2> QED
    BY <1>1, <1>2, <2>2, <2>3, <2>4 DEF EndInv, upVars
<1>10. RoleInv'
  BY <1>1, <1>4 DEF StateInv, RoleInv
<1> QED
  BY <1>6, <1>7, <1>8, <1>9, <1>10

-----------------------------------------------------------------------------
(* The theorems.                                                           *)

LEMMA Inductive == Spec => []IInv
<1>1. ASSUME IInv, [Next]_vars PROVE IInv'
  <2>1. CASE UNCHANGED vars
    BY <1>1, <2>1 DEF IInv, StateInv, OrderInv, GapInv, EndInv, RoleInv, HasToken, HasCalls, IsToken,
                      vars, upVars
  <2>2. CASE OpenStream \/ OpenFails \/ Recv \/ RecvEof \/ RecvError \/ EndOfModel \/ ClientReads \/ Kill
    <3>1. UNCHANGED <<kind, produced, sent, conn>>
      BY <2>2 DEF OpenStream, OpenFails, Recv, RecvEof, RecvError, EndOfModel, ClientReads, Kill, upVars
    <3> QED
      BY <1>1, <2>2, <3>1, QuietSteps
  <2>3. CASE Produce \/ ClientLeaves
    BY <1>1, <2>3, ProduceKeeps, LeaveKeeps
  <2>4. CASE WriteRole \/ WriteCalls \/ WriteToken \/ WriteEnd
    <3>1. conn \in {"up", "gone"}
      BY <1>1 DEF IInv, StateInv
    <3> QED
      BY <1>1, <2>4, <3>1, LostWrites, RoleKeeps, CallsKeeps, TokenKeeps, EndKeeps
  <2> QED
    BY <1>1, <2>1, <2>2, <2>3, <2>4 DEF Next, Pump, Model
<1> QED
  BY Initially, <1>1, PTL DEF Spec

\* The pumps and both their ends keep their variables in their types, and no token event
\* names a piece the model never sent.
THEOREM TypeCorrect == Spec => []TypeOK
<1>1. ASSUME IInv PROVE TypeOK
  <2> DEFINE E == [type : {"role", "calls", "token", "finish", "end"}, n : 0 .. Len(produced)]
  <2>1. Len(produced) \in Nat /\ taken \in 0 .. Len(produced)
    BY <1>1 DEF IInv, StateInv
  <2>2. ASSUME NEW i \in 1 .. Len(sent) PROVE sent[i] \in E
    <3>1. sent[i] \in Events
      BY <1>1 DEF IInv, StateInv
    <3>2. sent[i].n <= taken
      BY <1>1 DEF IInv, OrderInv
    <3> QED
      BY <2>1, <3>1, <3>2 DEF Events
  <2>3. sent \in Seq(E)
    <3>1. sent \in [1 .. Len(sent) -> Events] /\ Len(sent) \in Nat
      BY <1>1, LenProperties DEF IInv, StateInv
    <3> HIDE DEF E
    <3>2. sent \in [1 .. Len(sent) -> E]
      BY <3>1, <2>2
    <3> QED
      BY <3>1, <3>2, SeqDef
  <2> QED
    BY <1>1, <2>3 DEF IInv, StateInv, TypeOK
<1> QED
  BY Inductive, <1>1, PTL

\* Every writer: a response whose end marker was read is complete, whatever failed.
THEOREM DoneIsComplete == Spec => []DoneMeansComplete
<1>1. ASSUME IInv, Saw("end") PROVE DoneMeansComplete
  <2>1. Len(sent) \in Nat /\ seen \in 0 .. Len(sent)
    BY <1>1 DEF IInv, StateInv
  <2>2. PICK i \in 1 .. seen : sent[i].type = "end"
    BY <1>1 DEF Saw
  <2>3. /\ seen = Len(sent)
        /\ kind = "tools" => HasCalls
        /\ kind # "tools" => up = "eof" /\ \A j \in 1 .. Len(produced) : produced[j] # "blank" => HasToken(j)
    BY <1>1, <2>1, <2>2 DEF IInv, EndInv
  <2>4. DOMAIN produced = 1 .. Len(produced)
    BY <1>1 DEF IInv, StateInv
  <2>5. \A j : HasToken(j) => j \in SeenTokens
    BY <2>3 DEF HasToken, IsToken, SeenTokens
  <2> QED
    BY <2>3, <2>4, <2>5 DEF DoneMeansComplete, Saw, HasCalls
<1>2. IInv => DoneMeansComplete
  BY <1>1 DEF DoneMeansComplete
<1> QED
  BY Inductive, <1>2, PTL

\* Every writer: what a client has read is the text up to some point.
THEOREM SeenStaysPrefix == Spec => []SeenIsPrefix
<1>1. ASSUME IInv PROVE SeenIsPrefix
  <2>1. Len(sent) \in Nat /\ seen \in 0 .. Len(sent)
    BY <1>1 DEF IInv, StateInv
  <2>2. \A i \in 1 .. seen : i \in 1 .. Len(sent)
    BY <2>1
  <2>3. \A i, k \in 1 .. seen : i < k /\ IsToken(i) /\ IsToken(k) => sent[i].n < sent[k].n
    BY <1>1, <2>2 DEF IInv, OrderInv
  <2>4. ASSUME NEW n \in SeenTokens, NEW j \in 1 .. n, produced[j] # "blank"
        PROVE  j \in SeenTokens
    <3>1. PICK i \in 1 .. seen : IsToken(i) /\ sent[i].n = n
      BY DEF SeenTokens, IsToken
    <3>2. PICK k \in 1 .. Len(sent) : IsToken(k) /\ sent[k].n = j
      BY <1>1, <2>2, <2>4, <3>1 DEF IInv, GapInv, HasToken
    <3>3. n \in Nat
      <4>1. sent[i] \in Events
        BY <1>1, <2>2 DEF IInv, StateInv
      <4> QED
        BY <3>1, <4>1 DEF Events
    <3>4. ~(i < k)
      BY <1>1, <2>2, <3>1, <3>2, <3>3 DEF IInv, OrderInv
    <3>5. k \in 1 .. seen
      BY <2>1, <3>4
    <3> QED
      BY <3>2, <3>5 DEF SeenTokens, IsToken
  <2>5. kind # "ask" /\ seen > 0 => sent[1].type = "role"
    BY <1>1, <2>1 DEF IInv, RoleInv
  <2> QED
    BY <2>3, <2>4, <2>5 DEF SeenIsPrefix, IsToken
<1> QED
  BY Inductive, <1>1, PTL

-----------------------------------------------------------------------------
(* The pumps implement TextChannel.                                        *)

\* A token stands for a piece that is not blank, and only a model's stream has tokens.
TextInv ==
    /\ kind = "tools" => stream = "none"
    /\ Len(produced) <= MaxPieces
    /\ pc = "write" => produced[taken] # "blank"
    /\ \A i \in 1 .. Len(sent) : IsToken(i) =>
          sent[i].n \in 1 .. taken /\ produced[sent[i].n] # "blank"

\* What a write adds: the events of its control point, a token for the last piece only.
LEMMA Written ==
  ASSUME sent \in Seq(Events), taken \in Nat, sent' # sent,
         WriteRole \/ WriteCalls \/ WriteToken \/ WriteEnd
  PROVE  /\ sent' \in Seq(Events) /\ Len(sent) \in Nat /\ Len(sent') \in Nat /\ Len(sent) <= Len(sent')
         /\ \A i \in 1 .. Len(sent) : sent'[i] = sent[i]
         /\ \A i \in 1 .. Len(sent') : i \notin 1 .. Len(sent) /\ sent'[i].type = "token" =>
               pc = "write" /\ sent'[i].n = taken
<1>1. /\ Event("role") \in Events /\ Event("calls") \in Events /\ TokenEvent \in Events
      /\ Event("finish") \in Events /\ Event("end") \in Events
      /\ Event("role").type = "role" /\ Event("calls").type = "calls" /\ TokenEvent.n = taken
      /\ Event("finish").type = "finish" /\ Event("end").type = "end"
  BY DEF Event, TokenEvent, Events
<1>2. \/ sent' = sent \o <<Event("role")>>
      \/ sent' = sent \o <<Event("calls")>>
      \/ sent' = sent \o <<TokenEvent>> /\ pc = "write"
      \/ sent' = sent \o <<Event("end")>>
      \/ sent' = sent \o <<Event("finish"), Event("end")>>
  BY DEF WriteRole, WriteCalls, WriteToken, WriteEnd, Write, LastEvents
<1>3. CASE sent' = sent \o <<Event("finish"), Event("end")>>
  BY <1>1, <1>3, TwoMore
<1>4. ASSUME NEW e \in Events, sent' = sent \o <<e>>, e.type = "token" => pc = "write" /\ e.n = taken
      PROVE  /\ sent' \in Seq(Events) /\ Len(sent) \in Nat /\ Len(sent') \in Nat /\ Len(sent) <= Len(sent')
             /\ \A i \in 1 .. Len(sent) : sent'[i] = sent[i]
             /\ \A i \in 1 .. Len(sent') : i \notin 1 .. Len(sent) /\ sent'[i].type = "token" =>
                   pc = "write" /\ sent'[i].n = taken
  BY <1>4, OneMore
<1> QED
  BY <1>1, <1>2, <1>3, <1>4

\* Every step keeps that.
LEMMA TextStep ==
  ASSUME IInv, TextInv, [Next]_vars
  PROVE  TextInv'
<1>0. /\ sent \in Seq(Events) /\ Len(sent) \in Nat /\ taken \in Nat /\ Len(produced) \in Nat
      /\ taken <= Len(produced) /\ produced \in Seq(Pieces)
      /\ kind = "tools" => stream = "none"
      /\ pc = "write" => taken > 0 /\ produced[taken] # "blank"
  BY DEF IInv, StateInv, TextInv
<1>1. kind' = kind /\ (kind = "tools" => stream' = "none")
  <2>1. CASE OpenStream \/ OpenFails \/ Recv \/ RecvEof \/ RecvError \/ UNCHANGED vars
    BY <1>0, <2>1 DEF OpenStream, OpenFails, Recv, RecvEof, RecvError, AfterError, Close, vars
  <2>2. CASE WriteRole \/ WriteCalls \/ WriteToken \/ WriteEnd
    BY <1>0, <2>2 DEF WriteRole, WriteCalls, WriteToken, WriteEnd, Write, Close
  <2>3. CASE Model \/ ClientReads \/ ClientLeaves \/ Kill
    BY <1>0, <2>3 DEF Model, Produce, EndOfModel, ClientReads, ClientLeaves, Kill, Close
  <2> QED
    BY <2>1, <2>2, <2>3 DEF Next, Pump
<1>2. CASE Produce
  <2>1. UNCHANGED <<pc, taken, sent>> /\ Len(produced') <= MaxPieces
    BY <1>0, <1>2, PumpAssumption DEF Produce
  <2>2. \A j \in 1 .. taken : produced'[j] = produced[j]
    BY <1>0, <1>2 DEF Produce
  <2>3. pc = "write" => taken \in 1 .. taken
    BY <1>0
  <2> QED
    BY <1>0, <1>1, <2>1, <2>2, <2>3 DEF TextInv, IsToken
<1>3. CASE Recv
  <2>1. /\ UNCHANGED <<sent, produced>> /\ taken' = taken + 1
        /\ pc' = IF produced[taken'] # "blank" THEN "write" ELSE "recv"
    BY <1>3 DEF Recv, upVars, Wanted
  <2> QED
    BY <1>0, <1>1, <2>1 DEF TextInv, IsToken
<1>4. CASE OpenStream \/ OpenFails \/ RecvEof \/ RecvError \/ EndOfModel \/ ClientReads \/ ClientLeaves
           \/ Kill \/ UNCHANGED vars
  <2>1. UNCHANGED <<sent, produced, taken>> /\ (pc' = "write" => pc = "write")
    BY <1>4 DEF OpenStream, OpenFails, RecvEof, RecvError, EndOfModel, ClientReads, ClientLeaves, Kill,
       AfterError, upVars, vars
  <2> QED
    BY <1>1, <2>1 DEF TextInv, IsToken
<1>5. CASE WriteRole \/ WriteCalls \/ WriteToken \/ WriteEnd
  <2>1. UNCHANGED <<produced, taken>> /\ pc' # "write"
    BY <1>5 DEF WriteRole, WriteCalls, WriteToken, WriteEnd, Write, upVars
  <2>2. CASE sent' = sent
    BY <1>1, <2>1, <2>2 DEF TextInv, IsToken
  <2>3. CASE sent' # sent
    <3>1. /\ \A i \in 1 .. Len(sent) : sent'[i] = sent[i]
          /\ \A i \in 1 .. Len(sent') : i \notin 1 .. Len(sent) /\ sent'[i].type = "token" =>
                pc = "write" /\ sent'[i].n = taken
      BY <1>0, <1>5, <2>3, Written
    <3> QED
      BY <1>0, <1>1, <2>1, <3>1 DEF TextInv, IsToken
  <2> QED
    BY <2>2, <2>3
<1> QED
  BY <1>2, <1>3, <1>4, <1>5 DEF Next, Pump, Model

\* The initial states map to initial states: nothing is shown of an empty text, or of
\* the calls there are already.
LEMMA MappedInit == Init => Channel!Init
<1> SUFFICES ASSUME Init PROVE Channel!Init
  OBVIOUS
<1>1. seen = 0 /\ produced = <<>> /\ up = "running"
  BY DEF Init
<1>2. 1 .. seen = {} /\ DOMAIN produced = {}
  BY <1>1
<1>3. Shown = {} /\ Done = FALSE
  BY <1>2 DEF Shown, SeenTokens, Done, Saw
<1>4. CASE kind = "tools"
  <2>1. Text = {0} /\ Source = "whole" /\ 0 \in 0 .. MaxPieces
    BY <1>4, PumpAssumption DEF Text, Source
  <2> QED
    BY <1>3, <2>1 DEF Channel!Init
<1>5. CASE kind # "tools"
  <2>1. Text = {} /\ Source = "writing"
    BY <1>1, <1>2, <1>5 DEF Text, Source
  <2> QED
    BY <1>3, <2>1 DEF Channel!Init
<1> QED
  BY <1>4, <1>5

\* While the client reads nothing new, what it has is the same whatever is sent.
LEMMA SameSeen ==
  ASSUME IInv, IInv', seen' = seen, kind' = kind,
         \A i \in 1 .. Len(sent) : sent'[i] = sent[i]
  PROVE  Shown' = Shown /\ Done' = Done
<1>1. \A i \in 1 .. seen : i \in 1 .. Len(sent) /\ sent'[i] = sent[i]
  BY DEF IInv, StateInv
<1>2. \A type : Saw(type)' <=> Saw(type)
  BY <1>1 DEF Saw
<1>3. SeenTokens' = SeenTokens
  BY <1>1 DEF SeenTokens
<1>4. Done' = Done
  BY <1>2 DEF Done, Saw
<1> QED
  BY <1>2, <1>3, <1>4 DEF Shown

\* The steps of the pumps, of a client that leaves and of the end of the process are none
\* of the channel: the client has what it has.
LEMMA MappedPump ==
  ASSUME IInv, IInv', Pump \/ ClientLeaves \/ Kill \/ UNCHANGED vars
  PROVE  UNCHANGED Channel!vars
<1>1. UNCHANGED <<kind, up, produced, seen>>
  <2>1. CASE OpenStream \/ OpenFails \/ Recv \/ RecvEof \/ RecvError \/ UNCHANGED vars
    BY <2>1 DEF OpenStream, OpenFails, Recv, RecvEof, RecvError, upVars, vars
  <2>2. CASE WriteRole \/ WriteCalls \/ WriteToken \/ WriteEnd
    BY <2>2 DEF WriteRole, WriteCalls, WriteToken, WriteEnd, upVars
  <2>3. CASE ClientLeaves \/ Kill
    BY <2>3 DEF ClientLeaves, Kill, upVars
  <2> QED
    BY <2>1, <2>2, <2>3 DEF Pump
<1>2. \A i \in 1 .. Len(sent) : sent'[i] = sent[i]
  <2>1. CASE WriteRole \/ WriteCalls \/ WriteToken \/ WriteEnd
    BY <2>1, Written DEF IInv, StateInv
  <2>2. CASE ~(WriteRole \/ WriteCalls \/ WriteToken \/ WriteEnd)
    <3>1. sent' = sent
      BY <2>2 DEF Pump, OpenStream, OpenFails, Recv, RecvEof, RecvError, ClientLeaves, Kill, vars
    <3> QED
      BY <3>1
  <2> QED
    BY <2>1, <2>2
<1>3. Text' = Text /\ Source' = Source
  BY <1>1 DEF Text, Source
<1> QED
  BY <1>1, <1>2, <1>3, SameSeen DEF Channel!vars

\* A piece of the model grows the text at its end, a blank one not at all.
LEMMA MappedProduce ==
  ASSUME IInv, IInv', TextInv, Produce
  PROVE  [Channel!Next]_(Channel!vars)
<1> DEFINE n == Len(produced) + 1
<1>1. /\ kind # "tools" /\ up = "running" /\ Len(produced) < MaxPieces
      /\ UNCHANGED <<kind, up, sent, seen>>
  BY DEF Produce, TextInv
<1>2. PICK p \in Pieces : produced' = Append(produced, p)
  BY DEF Produce
<1>3. /\ Len(produced) \in Nat /\ DOMAIN produced = 1 .. Len(produced)
      /\ DOMAIN produced' = DOMAIN produced \cup {n} /\ produced'[n] = p
      /\ \A j \in DOMAIN produced : produced'[j] = produced[j] /\ j < n
  BY <1>2 DEF IInv, StateInv
<1>4. Source = "writing" /\ Source' = "writing"
  BY <1>1 DEF Source
<1>5. Shown' = Shown /\ Done' = Done
  BY <1>1, SameSeen
<1>6. n \in 0 .. MaxPieces
  BY <1>1, <1>3, PumpAssumption
<1> HIDE DEF n
<1>7. Text' = IF p = "blank" THEN Text ELSE Text \cup {n}
  BY <1>1, <1>3 DEF Text
<1>8. \A m \in Text : m < n
  BY <1>1, <1>3 DEF Text
<1>9. CASE p = "blank"
  BY <1>4, <1>5, <1>7, <1>9 DEF Channel!vars
<1>10. CASE p # "blank"
  <2>1. Channel!Grow(n)
    BY <1>4, <1>5, <1>7, <1>8, <1>10 DEF Channel!Grow
  <2> QED
    BY <1>6, <2>1 DEF Channel!Next
<1> QED
  BY <1>9, <1>10

\* The end of the model's stream is the end of the source.
LEMMA MappedEnd ==
  ASSUME IInv, IInv', TextInv, EndOfModel
  PROVE  Channel!EndSource
<1>1. kind # "tools" /\ up = "running" /\ up' \in {"eof", "error"} /\ UNCHANGED <<kind, produced, sent, seen>>
  BY DEF EndOfModel, TextInv
<1>2. Source = "writing" /\ Source' \in {"whole", "broken"} /\ Text' = Text
  BY <1>1 DEF Source, Text
<1> QED
  BY <1>1, <1>2, SameSeen DEF Channel!EndSource

\* Reading an event adds it to what the client has.
LEMMA OneRead ==
  ASSUME IInv, ClientReads, NEW e, e = sent[seen + 1]
  PROVE  /\ seen + 1 \in 1 .. Len(sent) /\ seen' = seen + 1
         /\ UNCHANGED <<kind, up, produced, sent, stream>>
         /\ Done' = (Done \/ e.type = "end")
         /\ Shown' = IF kind = "tools" THEN IF e.type = "calls" THEN {0} ELSE Shown
                     ELSE IF e.type = "token" THEN Shown \cup {e.n} ELSE Shown
<1>1. /\ seen \in Nat /\ Len(sent) \in Nat /\ seen < Len(sent) /\ seen' = seen + 1
      /\ UNCHANGED <<kind, up, produced, sent, stream>>
  BY DEF IInv, StateInv, ClientReads, upVars
<1>2. 1 .. seen' = (1 .. seen) \cup {seen + 1}
  BY <1>1
<1>3. \A type : Saw(type)' <=> Saw(type) \/ e.type = type
  BY <1>1, <1>2 DEF Saw
<1>4. SeenTokens' = IF e.type = "token" THEN SeenTokens \cup {e.n} ELSE SeenTokens
  BY <1>1, <1>2, Zenon DEF SeenTokens
<1>5. Done' = (Done \/ e.type = "end")
  BY <1>3, Zenon DEF Done, Saw
<1>6. ASSUME kind = "tools"
      PROVE  Shown' = IF e.type = "calls" THEN {0} ELSE Shown
  <2>1. Shown = {n \in {0} : Saw("calls")} /\ Shown' = {n \in {0} : Saw("calls")'}
    BY <1>1, <1>6, Zenon DEF Shown
  <2>2. Saw("calls")' <=> Saw("calls") \/ e.type = "calls"
    BY <1>3, Zenon
  <2>3. CASE e.type = "calls"
    <3>1. Shown' = {0}
      BY <2>1, <2>2, <2>3, Zenon
    <3> QED
      BY <2>3, <3>1
  <2>4. CASE e.type # "calls"
    <3>1. Shown' = Shown
      BY <2>1, <2>2, <2>4, Zenon
    <3> QED
      BY <2>4, <3>1
  <2> QED
    BY <2>3, <2>4
<1>7. ASSUME kind # "tools"
      PROVE  Shown' = IF e.type = "token" THEN Shown \cup {e.n} ELSE Shown
  BY <1>1, <1>4, <1>7 DEF Shown
<1> QED
  BY <1>1, <1>5, <1>6, <1>7

\* The token read next names the first piece of the text that was not shown.
LEMMA NextToken ==
  ASSUME IInv, TextInv, NEW i \in 1 .. Len(sent), i = seen + 1, IsToken(i)
  PROVE  /\ kind # "tools" /\ sent[i].n \in Text
         /\ \A m \in Text : m < sent[i].n => m \in SeenTokens
<1>1. /\ seen \in Nat /\ Len(sent) \in Nat /\ taken \in Nat /\ taken <= Len(produced) /\ Len(produced) \in Nat
      /\ DOMAIN produced = 1 .. Len(produced)
      /\ kind = "tools" => taken = 0
  BY DEF IInv, StateInv
<1>2. sent[i].n \in 1 .. taken /\ produced[sent[i].n] # "blank"
  BY DEF TextInv
<1>3. kind # "tools"
  BY <1>1, <1>2
<1>4. ASSUME NEW m \in Text, m < sent[i].n
      PROVE  m \in SeenTokens
  <2>1. m \in 1 .. sent[i].n /\ produced[m] # "blank"
    BY <1>1, <1>2, <1>3, <1>4 DEF Text
  <2>2. PICK k \in 1 .. Len(sent) : IsToken(k) /\ sent[k].n = m
    BY <2>1 DEF IInv, GapInv, HasToken
  <2>3. k # i /\ ~(i < k)
    BY <1>1, <1>2, <1>4, <2>1, <2>2 DEF IInv, OrderInv
  <2>4. k \in 1 .. seen
    BY <1>1, <2>3
  <2> QED
    BY <2>2, <2>4 DEF SeenTokens, IsToken
<1> QED
  BY <1>1, <1>2, <1>3, <1>4 DEF Text

\* When the end marker is next, the client has all of a text that is whole.
LEMMA EndOfText ==
  ASSUME IInv, TextInv, NEW i \in 1 .. Len(sent), i = seen + 1, sent[i].type = "end"
  PROVE  Source = "whole" /\ Shown = Text
<1>1. /\ seen \in Nat /\ Len(sent) \in Nat /\ taken \in Nat /\ taken <= Len(produced) /\ Len(produced) \in Nat
      /\ DOMAIN produced = 1 .. Len(produced)
  BY DEF IInv, StateInv
<1>2. /\ i = Len(sent)
      /\ kind = "tools" => HasCalls
      /\ kind # "tools" => up = "eof" /\ \A j \in 1 .. Len(produced) : produced[j] # "blank" => HasToken(j)
  BY DEF IInv, EndInv
<1>3. \A k \in 1 .. Len(sent) : k # i => k \in 1 .. seen
  BY <1>1, <1>2
<1>4. CASE kind = "tools"
  <2>1. Saw("calls")
    BY <1>2, <1>3, <1>4 DEF HasCalls, Saw
  <2> QED
    BY <1>4, <2>1 DEF Source, Shown, Text
<1>5. CASE kind # "tools"
  <2>1. \A j \in Text : j \in SeenTokens
    BY <1>1, <1>2, <1>3, <1>5 DEF Text, HasToken, IsToken, SeenTokens
  <2>2. \A n \in SeenTokens : n \in Text
    BY <1>1, <1>5 DEF Text, SeenTokens, TextInv, IsToken
  <2> QED
    BY <1>2, <1>5, <2>1, <2>2 DEF Source, Shown
<1> QED
  BY <1>4, <1>5

\* Every event the client reads is the next piece, the end of a complete text, or no part of it.
LEMMA MappedRead ==
  ASSUME IInv, TextInv, ClientReads
  PROVE  [Channel!Next]_(Channel!vars)
<1> DEFINE e == sent[seen + 1]
<1>1. /\ seen + 1 \in 1 .. Len(sent)
      /\ UNCHANGED <<kind, up, produced, sent, stream>>
      /\ Done' = (Done \/ e.type = "end")
      /\ Shown' = IF kind = "tools" THEN IF e.type = "calls" THEN {0} ELSE Shown
                  ELSE IF e.type = "token" THEN Shown \cup {e.n} ELSE Shown
  BY OneRead
<1>2. Text' = Text /\ Source' = Source
  BY <1>1 DEF Text, Source
<1>3. Done \in BOOLEAN
  BY DEF Done, Saw
<1>4. CASE e.type = "token"
  <2>1. /\ kind # "tools" /\ e.n \in Text /\ \A m \in Text : m < e.n => m \in SeenTokens
    BY <1>1, <1>4, NextToken DEF IsToken
  <2>2. Shown = SeenTokens /\ Shown' = SeenTokens \cup {e.n} /\ Done' = Done
    BY <1>1, <1>3, <1>4, <2>1 DEF Shown
  <2> HIDE DEF e
  <2>3. CASE e.n \in Shown
    BY <1>2, <2>2, <2>3 DEF Channel!vars
  <2>4. CASE e.n \notin Shown
    <3>1. Channel!Show(e.n)
      BY <1>2, <2>1, <2>2, <2>4 DEF Channel!Show
    <3>2. e.n \in 0 .. MaxPieces
      BY <2>1, PumpAssumption DEF Text, TextInv, IInv, StateInv
    <3> QED
      BY <3>1, <3>2 DEF Channel!Next
  <2> QED
    BY <2>3, <2>4
<1>5. CASE e.type = "end"
  <2>1. Source = "whole" /\ Shown = Text
    BY <1>1, <1>5, EndOfText
  <2>2. Done' = TRUE /\ Shown' = Shown
    BY <1>1, <1>3, <1>5
  <2>3. Channel!Complete
    BY <1>2, <2>1, <2>2 DEF Channel!Complete
  <2> QED
    BY <2>3 DEF Channel!Next
<1>6. CASE e.type \notin {"token", "end"}
  <2> HIDE DEF e
  <2>1. Done' = Done
    BY <1>1, <1>3, <1>6
  <2>2. CASE Shown' = Shown
    BY <1>2, <2>1, <2>2 DEF Channel!vars
  <2>3. CASE Shown' # Shown
    <3>1. kind = "tools" /\ Shown' = {0} /\ Text = {0} /\ 0 \in 0 .. MaxPieces
      BY <1>1, <1>6, <2>3, PumpAssumption DEF Text
    <3>2. Shown = {}
      BY <2>3, <3>1 DEF Shown
    <3>3. Channel!Show(0)
      BY <1>2, <2>1, <3>1, <3>2 DEF Channel!Show
    <3> QED
      BY <3>1, <3>3 DEF Channel!Next
  <2> QED
    BY <2>2, <2>3
<1> QED
  BY <1>4, <1>5, <1>6

\* Every writer implements TextChannel, for any number of pieces and any room on the
\* connection: each step shows the next piece, completes a whole text, or shows nothing.
THEOREM Refinement == Spec => DeliversText
<1>1. Init => TextInv
  BY PumpAssumption DEF Init, TextInv, IsToken
<1>2. IInv /\ TextInv /\ [Next]_vars => TextInv'
  BY TextStep
<1>3. IInv /\ IInv' /\ TextInv /\ [Next]_vars => [Channel!Next]_(Channel!vars)
  <2> SUFFICES ASSUME IInv, IInv', TextInv, [Next]_vars PROVE [Channel!Next]_(Channel!vars)
    OBVIOUS
  <2>1. CASE Pump \/ ClientLeaves \/ Kill \/ UNCHANGED vars
    BY <2>1, MappedPump
  <2>2. CASE Produce
    BY <2>2, MappedProduce
  <2>3. CASE EndOfModel
    BY <2>3, MappedEnd DEF Channel!Next
  <2>4. CASE ClientReads
    BY <2>4, MappedRead
  <2> QED
    BY <2>1, <2>2, <2>3, <2>4 DEF Next, Model
<1> QED
  BY Inductive, MappedInit, <1>1, <1>2, <1>3, PTL DEF Spec, DeliversText, Channel!Spec

=============================================================================
