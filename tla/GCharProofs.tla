---------------------------- MODULE GCharProofs -----------------------------
(***************************************************************************)
(* Theorems about GChar, for any number of readers, writers and set_alts.  *)
(***************************************************************************)
EXTENDS GChar, SequenceTheorems, TLAPS

CallType == [dir : Dirs, at : At, req : Reqs \cup {NoReq}]

(* What set_alt and disable change. *)
CoreTypeOK ==
  /\ enabled \in [Dirs -> BOOLEAN]
  /\ owner   \in [Dirs -> {"cdev", "priv", "null"}]
  /\ core    \in {Nothing} \cup (Stages \X Dirs)
  /\ setting \in BOOLEAN
  /\ alts    \in 0 .. MaxAlts
  /\ req     \in [Dirs -> Reqs \cup {NoReq}]
  /\ freed   \subseteq Reqs

(* The controller has requests of enabled endpoints only.  The driver data *)
(* of an enabled endpoint is priv, apart from the moment before set_alt    *)
(* assigns it; it is cleared when the endpoint is disabled.                *)
Ends ==
  /\ \A d \in Dirs : queue[d] # <<>> => enabled[d]
  /\ \A d \in Dirs : enabled[d] => Completes(d) \/ core = <<"claim", d>>
  /\ \A d \in Dirs : core = <<"forget", d>> => ~enabled[d]

(* Between the two allocations of set_alt there is a request to the host.  *)
Allocated ==
  core \in {<<"complete", In>>, <<"alloc", Out>>, <<"free", In>>} =>
    alts \in Reqs /\ req[In] \in Reqs

(* How far a call that has never met another has come: it has not queued its *)
(* request, or the controller has it, or gave it back empty, or with the one *)
(* packet that crossed the bus.                                              *)
Progress(c, d) ==
  \/ /\ call[c].at = "queue"
     /\ queue[d] = <<>> /\ crossed[d] = 0 /\ ~able[d]
  \/ /\ call[c].at \in {"wait", "interrupted"}
     /\ call[c].req \in Reqs
     /\ \/ /\ queue[d] = <<call[c].req>> /\ crossed[d] = 0 /\ ~able[d]
           /\ actual[d][call[c].req] = "empty"
        \/ /\ queue[d] = <<>> /\ crossed[d] = 0 /\ able[d]
           /\ actual[d][call[c].req] = "empty"
        \/ /\ queue[d] = <<>> /\ crossed[d] = 1 /\ able[d]
           /\ actual[d][call[c].req] = "new"

Quiet(d) ==
  /\ \A c \in Callers : ~InCall(c, d)
  /\ queue[d] = <<>> /\ crossed[d] = 0

Busy(d) ==
  \E c \in Callers :
    /\ InCall(c, d)
    /\ \A other \in Callers : InCall(other, d) => other = c
    /\ Progress(c, d)

Solo(d) == ~mixed[d] => Quiet(d) \/ Busy(d)

(* The data in a request to the host is that of the call which uses it. *)
Filled ==
  ~mixed[In] =>
    \A c \in Callers : InCall(c, In) /\ call[c].req \in Reqs => buf[call[c].req] = c

IInv == TypeOK /\ Ends /\ Allocated /\ Filled /\ \A d \in Dirs : Solo(d)

-----------------------------------------------------------------------------
(* A controller that has one request. *)
LEMMA OneRequest ==
  ASSUME NEW S, NEW r \in S
  PROVE  /\ Append(<<>>, r) = <<r>>
         /\ <<r>> # <<>> /\ Head(<<r>>) = r /\ Tail(<<r>>) = <<>>
         /\ \A k \in 1 .. Len(<<r>>) : k = 1 /\ <<r>>[k] = r
         /\ Without(<<r>>, 1) = <<>>
<1>1. Len(<<r>>) = 1 /\ <<r>>[1] = r /\ <<r>> # <<>>
  OBVIOUS
<1>2. Append(<<>>, r) = <<r>> /\ Head(<<r>>) = r
  OBVIOUS
<1>3. Tail(<<r>>) = <<>>
  OBVIOUS
<1>4. SubSeq(<<r>>, 1, 0) = <<>> /\ SubSeq(<<r>>, 2, 1) = <<>>
  BY SubSeqEmpty
<1>5. <<>> \o <<>> = <<>>
  BY EmptySeq, ConcatEmptySeq
<1>6. Without(<<r>>, 1) = <<>>
  BY <1>1, <1>4, <1>5 DEF Without
<1>7. QED
  BY <1>1, <1>2, <1>3, <1>6

LEMMA WithoutTyped ==
  ASSUME NEW S, NEW s \in Seq(S), NEW k \in 1 .. Len(s)
  PROVE  Without(s, k) \in Seq(S)
<1>1. Len(s) \in Nat /\ \A i \in 1 .. Len(s) : s[i] \in S
  BY LenProperties, ElementOfSeq
<1>2. SubSeq(s, 1, k - 1) \in Seq(S)
  BY <1>1, SubSeqProperties
<1>3. SubSeq(s, k + 1, Len(s)) \in Seq(S)
  BY <1>1, SubSeqProperties
<1>4. QED
  BY <1>2, <1>3, ConcatProperties DEF Without

(* A caller moves on to its next step, or ends its call. *)
LEMMA MoveTo ==
  ASSUME TypeOK, NEW c \in Callers, NEW at \in At, call' = [call EXCEPT ![c].at = at]
  PROVE  /\ call' \in [Callers -> CallType]
         /\ call'[c].at = at /\ call'[c].dir = call[c].dir /\ call'[c].req = call[c].req
         /\ \A other \in Callers \ {c} : call'[other] = call[other]
BY DEF TypeOK, CallType

LEMMA ReturnEffect ==
  ASSUME TypeOK, NEW c \in Callers, Return(c)
  PROVE  /\ call' \in [Callers -> CallType]
         /\ call'[c].at = "idle"
         /\ \A other \in Callers \ {c} : call'[other] = call[other]
         /\ crossed' \in [Dirs -> 0 .. 2] /\ crossed'[call[c].dir] = 0
         /\ actual' \in [Dirs -> [Reqs -> Packets]]
         /\ \A d \in Dirs \ {call[c].dir} : crossed'[d] = crossed[d] /\ actual'[d] = actual[d]
         /\ buf' \in [Reqs -> Callers \cup {Nobody}]
         /\ \A r \in Reqs : buf[r] # c => buf'[r] = buf[r]
<1> DEFINE d == call[c].dir
           idle == [dir |-> d, at |-> "idle", req |-> NoReq]
           aged == [r \in Reqs |-> IF actual[d][r] = "new" THEN "old" ELSE actual[d][r]]
<1>1. d \in Dirs /\ idle \in CallType /\ idle.at = "idle"
  BY DEF TypeOK, CallType, At
<1>2. actual[d] \in [Reqs -> Packets]
  BY <1>1 DEF TypeOK
<1>3. aged \in [Reqs -> Packets]
  BY <1>2 DEF Packets
<1>4. /\ call' = [call EXCEPT ![c] = idle] /\ crossed' = [crossed EXCEPT ![d] = 0]
      /\ actual' = [actual EXCEPT ![d] = aged]
      /\ buf' = [r \in Reqs |-> IF buf[r] = c THEN Nobody ELSE buf[r]]
  BY DEF Return
<1>5. call \in [Callers -> CallType] /\ 0 \in 0 .. 2
  BY DEF TypeOK, CallType
<1> HIDE DEF d, idle, aged
<1>6. /\ call' \in [Callers -> CallType] /\ call'[c].at = "idle"
      /\ \A other \in Callers \ {c} : call'[other] = call[other]
  BY <1>1, <1>4, <1>5
<1>7. /\ crossed' \in [Dirs -> 0 .. 2] /\ crossed'[d] = 0
      /\ actual' \in [Dirs -> [Reqs -> Packets]]
      /\ \A e \in Dirs \ {d} : crossed'[e] = crossed[e] /\ actual'[e] = actual[e]
  BY <1>1, <1>3, <1>4, <1>5 DEF TypeOK
<1>8. /\ buf' \in [Reqs -> Callers \cup {Nobody}]
      /\ \A r \in Reqs : buf[r] # c => buf'[r] = buf[r]
  BY <1>4 DEF TypeOK
<1>9. QED
  BY <1>6, <1>7, <1>8 DEF d

(* A step that leaves a direction alone keeps what is known about it. *)
LEMMA SoloElsewhere ==
  ASSUME NEW d \in Dirs, Solo(d),
         queue'[d] = queue[d], crossed'[d] = crossed[d], able'[d] = able[d],
         actual'[d] = actual[d], mixed'[d] = mixed[d],
         \A c \in Callers : (InCall(c, d) <=> InCall(c, d)')
                            /\ (InCall(c, d) => call'[c] = call[c])
  PROVE  Solo(d)'
<1> SUFFICES ASSUME ~mixed[d] PROVE (Quiet(d) \/ Busy(d))'
  BY DEF Solo
<1>1. CASE Quiet(d)
  BY <1>1 DEF Quiet
<1>2. CASE Busy(d)
  BY <1>2 DEF Busy, Progress
<1>3. QED
  BY <1>1, <1>2 DEF Solo

(* A call ends with nothing left at the controller. *)
LEMMA SoloReturned ==
  ASSUME NEW c \in Callers, NEW d \in Dirs, Solo(d), InCall(c, d), mixed'[d] = mixed[d],
         ~mixed[d] => queue'[d] = <<>>, crossed'[d] = 0, call'[c].at = "idle",
         \A other \in Callers \ {c} : call'[other] = call[other]
  PROVE  Solo(d)'
<1> SUFFICES ASSUME ~mixed[d] PROVE Quiet(d)'
  BY DEF Solo
<1>1. \A other \in Callers : InCall(other, d) => other = c
  BY DEF Solo, Quiet, Busy
<1>2. \A other \in Callers : ~InCall(other, d)'
  BY <1>1 DEF InCall
<1>3. QED
  BY <1>2 DEF Quiet

-----------------------------------------------------------------------------
LEMMA InitIInv ==
  ASSUME MaxAlts \in Nat
  PROVE  Init => IInv
<1> SUFFICES ASSUME Init PROVE IInv
  OBVIOUS
<1>1. <<>> \in Seq(Reqs)
  BY EmptySeq
<1>2. TypeOK
  <2>1. CoreTypeOK
    <3>1. alts \in 0 .. MaxAlts /\ freed \subseteq Reqs
          /\ core \in {Nothing} \cup (Stages \X Dirs)
      BY DEF Init
    <3>2. /\ enabled \in [Dirs -> BOOLEAN]
          /\ owner   \in [Dirs -> {"cdev", "priv", "null"}]
          /\ req     \in [Dirs -> Reqs \cup {NoReq}]
      BY DEF Init
    <3>3. setting \in BOOLEAN
      BY DEF Init
    <3>4. QED
      BY <3>1, <3>2, <3>3 DEF CoreTypeOK
  <2>2. call \in [Callers -> CallType] /\ queue \in [Dirs -> Seq(Reqs)]
    BY <1>1 DEF Init, CallType, Dirs, At
  <2>3. wild \in BOOLEAN
    BY DEF Init
  <2>4. /\ able    \in [Dirs -> BOOLEAN]
        /\ buf     \in [Reqs -> Callers \cup {Nobody}]
        /\ crossed \in [Dirs -> 0 .. 2]
        /\ mixed   \in [Dirs -> BOOLEAN]
    BY DEF Init
  <2>5. actual \in [Dirs -> [Reqs -> Packets]]
    BY DEF Init, Packets
  <2>6. QED
    BY <2>1, <2>2, <2>3, <2>4, <2>5 DEF TypeOK, CoreTypeOK, CallType
<1>3. Ends
  <2>1. \A d \in Dirs : queue[d] = <<>> /\ ~enabled[d]
    BY DEF Init
  <2>2. QED
    BY <2>1 DEF Ends
<1>5. Allocated
  BY DEF Init, Allocated, Nothing, In, Out
<1>4. Filled /\ \A d \in Dirs : Solo(d)
  BY DEF Init, Filled, Solo, Quiet, InCall
<1>6. QED
  BY <1>2, <1>3, <1>4, <1>5 DEF IInv

LEMMA BeginIInv ==
  ASSUME MaxAlts \in Nat, IInv, NEW d \in Dirs, NEW c \in Threads(d), Begin(c, d)
  PROVE  IInv'
<1> USE DEF IInv
<1> DEFINE begun == [dir |-> d, req |-> req[d], at |-> "queue"]
<1>1. c \in Callers /\ "queue" \in At
  BY DEF Threads, Callers, At
<1>2. begun \in CallType /\ begun.dir = d /\ begun.at = "queue" /\ begun.req = req[d]
  BY <1>1 DEF CallType, TypeOK
<1>3. call[c].at = "idle" /\ call' = [call EXCEPT ![c] = begun] /\ call \in [Callers -> CallType]
  BY DEF Begin, TypeOK, CallType
<1> HIDE DEF begun
<1>4. /\ call' \in [Callers -> CallType] /\ call'[c] = begun
      /\ \A other \in Callers \ {c} : call'[other] = call[other]
  BY <1>1, <1>2, <1>3
<1>5. TypeOK'
  <2>1. buf' \in [Reqs -> Callers \cup {Nobody}]
    BY <1>1 DEF Begin, TypeOK
  <2>2. able' \in [Dirs -> BOOLEAN] /\ mixed' \in [Dirs -> BOOLEAN]
    BY DEF Begin, TypeOK
  <2>3. QED
    BY <1>4, <2>1, <2>2 DEF Begin, TypeOK, CallType, ends
<1>6. Ends' /\ Allocated'
  BY DEF Begin, Ends, Allocated, Completes, Reqs, ends
<1>7. mixed'[d] = (mixed[d] \/ \E other \in Callers \ {c} : InCall(other, d))
  BY DEF Begin, TypeOK
<1>8. Solo(d)'
  <2> SUFFICES ASSUME ~mixed'[d] PROVE (Quiet(d) \/ Busy(d))'
    BY DEF Solo
  <2>1. \A other \in Callers : ~InCall(other, d)
    BY <1>3, <1>7 DEF InCall
  <2>2. queue[d] = <<>> /\ crossed[d] = 0
    BY <1>7, <2>1 DEF Solo, Quiet, Busy
  <2>3. queue'[d] = <<>> /\ crossed'[d] = 0 /\ ~able'[d]
    BY <2>2 DEF Begin, TypeOK
  <2>4. \A other \in Callers \ {c} : ~InCall(other, d)'
    BY <1>4, <2>1 DEF InCall
  <2>5. QED
    BY <1>1, <1>2, <1>4, <2>3, <2>4 DEF Busy, InCall, Progress
<1>9. ASSUME NEW e \in Dirs \ {d} PROVE Solo(e)'
  <2>1. /\ queue'[e] = queue[e] /\ crossed'[e] = crossed[e] /\ able'[e] = able[e]
        /\ actual'[e] = actual[e] /\ mixed'[e] = mixed[e]
    BY <1>9 DEF Begin, TypeOK
  <2>2. \A o \in Callers : (InCall(o, e) <=> InCall(o, e)') /\ (InCall(o, e) => call'[o] = call[o])
    BY <1>2, <1>3, <1>4 DEF InCall
  <2>3. QED
    BY <2>1, <2>2, SoloElsewhere
<1>10. Filled'
  <2> SUFFICES ASSUME ~mixed'[In], NEW o \in Callers, InCall(o, In)', call'[o].req \in Reqs
               PROVE  buf'[call'[o].req] = o
    BY DEF Filled, Reqs
  <2>1. ~mixed[In]
    BY DEF Begin, TypeOK, Dirs
  <2>2. CASE d = In
    <3>1. o = c
      BY <1>4, <1>7, <2>2 DEF InCall
    <3>2. call'[o].req = req[In] /\ req[In] \in Reqs
      BY <1>2, <1>4, <2>2, <3>1
    <3>3. QED
      BY <2>2, <3>1, <3>2 DEF Begin, TypeOK
  <2>3. CASE d # In
    <3>1. o # c /\ call'[o] = call[o] /\ InCall(o, In)
      BY <1>2, <1>4, <2>3 DEF InCall
    <3>2. buf' = buf
      BY <2>3 DEF Begin
    <3>3. QED
      BY <2>1, <3>1, <3>2 DEF Filled
  <2>4. QED
    BY <2>2, <2>3
<1>11. QED
  BY <1>5, <1>6, <1>8, <1>9, <1>10

(* What every end of a call has in common. *)
LEMMA ReturnIInv ==
  ASSUME MaxAlts \in Nat, IInv, NEW c \in Callers, NEW d \in Dirs, InCall(c, d), Return(c),
         UNCHANGED <<ends, alts, req, freed, mixed, wild>>,
         queue' \in [Dirs -> Seq(Reqs)], able' \in [Dirs -> BOOLEAN],
         \A e \in Dirs \ {d} : queue'[e] = queue[e] /\ able'[e] = able[e],
         queue'[d] # <<>> => queue[d] # <<>>,
         ~mixed[d] => queue'[d] = <<>>
  PROVE  IInv'
<1> USE DEF IInv
<1>1. /\ call' \in [Callers -> CallType] /\ call'[c].at = "idle"
      /\ \A other \in Callers \ {c} : call'[other] = call[other]
      /\ crossed' \in [Dirs -> 0 .. 2] /\ crossed'[d] = 0
      /\ actual' \in [Dirs -> [Reqs -> Packets]]
      /\ \A e \in Dirs \ {d} : crossed'[e] = crossed[e] /\ actual'[e] = actual[e]
      /\ buf' \in [Reqs -> Callers \cup {Nobody}]
      /\ \A r \in Reqs : buf[r] # c => buf'[r] = buf[r]
  BY ReturnEffect DEF InCall
<1>2. TypeOK'
  BY <1>1 DEF TypeOK, CallType, ends
<1>3. Ends' /\ Allocated'
  BY DEF Ends, Allocated, Completes, Reqs, ends
<1>4. Solo(d)'
  BY <1>1, SoloReturned
<1>5. ASSUME NEW e \in Dirs \ {d} PROVE Solo(e)'
  <2>1. \A o \in Callers : (InCall(o, e) <=> InCall(o, e)') /\ (InCall(o, e) => call'[o] = call[o])
    BY <1>1 DEF InCall
  <2>2. QED
    BY <1>1, <2>1, SoloElsewhere
<1>6. Filled'
  <2> SUFFICES ASSUME ~mixed[In], NEW o \in Callers, InCall(o, In)', call'[o].req \in Reqs
               PROVE  buf'[call'[o].req] = o
    BY DEF Filled, Reqs
  <2>1. o # c /\ call'[o] = call[o] /\ InCall(o, In)
    BY <1>1 DEF InCall
  <2>2. buf[call[o].req] = o /\ buf[call[o].req] # c
    BY <2>1 DEF Filled
  <2>3. QED
    BY <1>1, <2>1, <2>2
<1>7. QED
  BY <1>2, <1>3, <1>4, <1>5, <1>6

LEMMA SoloCall ==
  ASSUME NEW c \in Callers, NEW d \in Dirs, Solo(d), InCall(c, d), ~mixed[d]
  PROVE  Progress(c, d) /\ \A other \in Callers : InCall(other, d) => other = c
BY DEF Solo, Quiet, Busy

(* The calls that end without touching the controller or the flag. *)
LEMMA PlainReturnIInv ==
  ASSUME MaxAlts \in Nat, IInv, NEW c \in Callers,
         WriteFaults(c) \/ EnqueueFails(c) \/ Wake(c)
  PROVE  IInv'
<1> USE DEF IInv
<1>0. PICK d \in Dirs : d = call[c].dir
  BY DEF TypeOK
<1>1. InCall(c, d) /\ Return(c)
  BY <1>0 DEF WriteFaults, EnqueueFails, Wake, InCall, TypeOK
<1>2. UNCHANGED <<ends, alts, req, freed, able, queue, mixed, wild>>
  BY DEF WriteFaults, EnqueueFails, Wake
<1>3. ~mixed[d] => queue[d] = <<>>
  BY <1>0, <1>1, SoloCall DEF WriteFaults, EnqueueFails, Wake, Progress
<1>4. queue' \in [Dirs -> Seq(Reqs)] /\ able' \in [Dirs -> BOOLEAN]
  BY <1>2 DEF TypeOK
<1>5. QED
  BY <1>1, <1>2, <1>3, <1>4, ReturnIInv

LEMMA DequeueIInv ==
  ASSUME MaxAlts \in Nat, IInv, NEW c \in Callers, Dequeue(c)
  PROVE  IInv'
<1> USE DEF IInv
<1>0. PICK d \in Dirs : d = call[c].dir
  BY DEF TypeOK
<1> DEFINE r == call[c].req
<1>1. InCall(c, d) /\ Return(c) /\ call[c].at = "interrupted"
  BY <1>0 DEF Dequeue, InCall
<1>2. UNCHANGED <<ends, alts, req, freed, mixed, wild>>
  BY DEF Dequeue
<1>3. queue[d] \in Seq(Reqs)
  BY DEF TypeOK
<1>4. ~mixed[d] => \/ queue[d] = <<r>> /\ r \in Reqs
                   \/ queue[d] = <<>>
  BY <1>1, SoloCall DEF Progress
<1>5. CASE r \notin Queued(d) /\ UNCHANGED <<queue, able>>
  <2>1. ~mixed[d] => queue'[d] = <<>>
    <3>1. queue[d] = <<r>> => r \in Queued(d)
      BY DEF Queued
    <3>2. QED
      BY <1>4, <1>5, <3>1
  <2>2. queue' \in [Dirs -> Seq(Reqs)] /\ able' \in [Dirs -> BOOLEAN]
    BY <1>5 DEF TypeOK
  <2>3. QED
    BY <1>1, <1>2, <1>5, <2>1, <2>2, ReturnIInv
<1>6. ASSUME NEW k \in 1 .. Len(queue[d]), queue[d][k] = r,
             queue' = [queue EXCEPT ![d] = Without(queue[d], k)],
             able' = [able EXCEPT ![d] = TRUE]
      PROVE  IInv'
  <2>1. Without(queue[d], k) \in Seq(Reqs)
    BY <1>3, WithoutTyped
  <2>2. queue' \in [Dirs -> Seq(Reqs)] /\ queue'[d] = Without(queue[d], k)
    BY <1>1, <1>6, <2>1 DEF TypeOK
  <2>3. able' \in [Dirs -> BOOLEAN]
    BY <1>1, <1>6 DEF TypeOK
  <2>4. \A e \in Dirs \ {d} : queue'[e] = queue[e] /\ able'[e] = able[e]
    BY <1>1, <1>6 DEF TypeOK
  <2>5. queue[d] # <<>>
    BY <1>6, EmptySeq
  <2>6. ~mixed[d] => queue'[d] = <<>>
    BY <1>4, <1>6, <2>2, <2>5, OneRequest
  <2>7. QED
    BY <1>1, <1>2, <2>2, <2>3, <2>4, <2>5, <2>6, ReturnIInv
<1>7. QED
  BY <1>0, <1>5, <1>6 DEF Dequeue

(* A caller goes on to wait or to be interrupted. *)
LEMMA StepEffect ==
  ASSUME TypeOK, NEW c \in Callers, NEW at \in {"wait", "interrupted"},
         InCall(c, call[c].dir), call' = [call EXCEPT ![c].at = at]
  PROVE  /\ call' \in [Callers -> CallType]
         /\ call'[c].at = at /\ call'[c].req = call[c].req
         /\ \A o \in Callers, d \in Dirs : InCall(o, d)' <=> InCall(o, d)
         /\ \A o \in Callers \ {c} : call'[o] = call[o]
<1>1. at \in At
  BY DEF At
<1>2. QED
  BY <1>1, MoveTo DEF InCall

LEMMA EnqueueIInv ==
  ASSUME MaxAlts \in Nat, IInv, NEW c \in Callers, Enqueue(c)
  PROVE  IInv'
<1> USE DEF IInv
<1>0. PICK d \in Dirs, r \in Reqs : d = call[c].dir /\ r = call[c].req
  BY DEF Enqueue, Accepts, TypeOK
<1>1. InCall(c, d) /\ call[c].at = "queue" /\ enabled[d]
  BY <1>0 DEF Enqueue, Accepts, InCall
<1>2. /\ queue' = [queue EXCEPT ![d] = Append(queue[d], r)]
      /\ actual' = [actual EXCEPT ![d] = [actual[d] EXCEPT ![r] = "empty"]]
      /\ call' = [call EXCEPT ![c].at = "wait"]
      /\ UNCHANGED <<ends, requests, able, history, wild>>
  BY <1>0 DEF Enqueue
<1>3. /\ call' \in [Callers -> CallType]
      /\ call'[c].at = "wait" /\ call'[c].req = r
      /\ \A o \in Callers, e \in Dirs : InCall(o, e)' <=> InCall(o, e)
      /\ \A o \in Callers \ {c} : call'[o] = call[o]
  BY <1>0, <1>1, <1>2, StepEffect
<1>4. queue[d] \in Seq(Reqs) /\ actual[d] \in [Reqs -> Packets] /\ "empty" \in Packets
  BY DEF TypeOK, Packets
<1>5. Append(queue[d], r) \in Seq(Reqs)
  BY <1>1, <1>4, AppendProperties
<1>6. /\ queue' \in [Dirs -> Seq(Reqs)] /\ queue'[d] = Append(queue[d], r)
      /\ \A e \in Dirs \ {d} : queue'[e] = queue[e]
  BY <1>1, <1>2, <1>5 DEF TypeOK
<1>7. /\ actual' \in [Dirs -> [Reqs -> Packets]] /\ actual'[d][r] = "empty"
      /\ \A e \in Dirs \ {d} : actual'[e] = actual[e]
  BY <1>1, <1>2, <1>4 DEF TypeOK
<1>8. TypeOK'
  BY <1>2, <1>3, <1>6, <1>7 DEF TypeOK, CallType, ends, requests, history
<1>9. Ends' /\ Allocated'
  BY <1>1, <1>2, <1>6 DEF Ends, Allocated, Completes, Reqs, ends, requests
<1>10. Solo(d)'
  <2> SUFFICES ASSUME ~mixed[d] PROVE Busy(d)'
    BY <1>2 DEF Solo, history
  <2>1. Progress(c, d) /\ \A o \in Callers : InCall(o, d) => o = c
    BY <1>1, SoloCall
  <2>2. queue[d] = <<>> /\ crossed[d] = 0 /\ ~able[d]
    BY <1>1, <2>1 DEF Progress
  <2>3. queue'[d] = <<r>>
    BY <1>1, <1>6, <2>2, OneRequest
  <2>4. Progress(c, d)'
    BY <1>0, <1>2, <1>3, <1>7, <2>2, <2>3 DEF Progress, history
  <2>5. QED
    BY <1>1, <1>3, <2>1, <2>4 DEF Busy
<1>11. ASSUME NEW e \in Dirs \ {d} PROVE Solo(e)'
  <2>1. \A o \in Callers : InCall(o, e) => call'[o] = call[o]
    BY <1>1, <1>3 DEF InCall
  <2>2. QED
    BY <1>2, <1>3, <1>6, <1>7, <2>1, SoloElsewhere DEF history
<1>12. Filled'
  <2>1. \A o \in Callers : call'[o].req = call[o].req
    BY <1>0, <1>3
  <2>2. QED
    BY <1>2, <1>3, <2>1 DEF Filled, requests, history, Reqs, Dirs
<1>13. QED
  BY <1>8, <1>9, <1>10, <1>11, <1>12

LEMMA InterruptIInv ==
  ASSUME MaxAlts \in Nat, IInv, NEW c \in Callers, Interrupt(c)
  PROVE  IInv'
<1> USE DEF IInv
<1>0. PICK d \in Dirs : d = call[c].dir
  BY DEF TypeOK
<1>1. InCall(c, d) /\ call[c].at = "wait"
  BY <1>0 DEF Interrupt, InCall
<1>2. /\ call' = [call EXCEPT ![c].at = "interrupted"]
      /\ UNCHANGED <<ends, requests, able, queue, actual, history, wild>>
  BY DEF Interrupt
<1>3. /\ call' \in [Callers -> CallType]
      /\ call'[c].at = "interrupted" /\ call'[c].req = call[c].req
      /\ \A o \in Callers, e \in Dirs : InCall(o, e)' <=> InCall(o, e)
      /\ \A o \in Callers \ {c} : call'[o] = call[o]
  BY <1>0, <1>1, <1>2, StepEffect
<1>4. TypeOK'
  BY <1>2, <1>3 DEF TypeOK, CallType, ends, requests, history
<1>5. Ends' /\ Allocated'
  BY <1>2 DEF Ends, Allocated, Completes, Reqs, ends, requests
<1>6. Solo(d)'
  <2> SUFFICES ASSUME ~mixed[d] PROVE Busy(d)'
    BY <1>2 DEF Solo, history
  <2>1. Progress(c, d) /\ \A o \in Callers : InCall(o, d) => o = c
    BY <1>1, SoloCall
  <2>2. Progress(c, d)'
    BY <1>1, <1>2, <1>3, <2>1 DEF Progress, history, Reqs
  <2>3. QED
    BY <1>1, <1>3, <2>1, <2>2 DEF Busy
<1>7. ASSUME NEW e \in Dirs \ {d} PROVE Solo(e)'
  <2>1. \A o \in Callers : InCall(o, e) => call'[o] = call[o]
    BY <1>1, <1>3 DEF InCall
  <2>2. QED
    BY <1>2, <1>3, <2>1, SoloElsewhere DEF history
<1>8. Filled'
  <2>1. \A o \in Callers : call'[o].req = call[o].req
    BY <1>3
  <2>2. QED
    BY <1>2, <1>3, <2>1 DEF Filled, requests, history, Reqs, Dirs
<1>9. QED
  BY <1>4, <1>5, <1>6, <1>7, <1>8

(* A packet crosses the bus. *)
LEMMA TransferEffect ==
  ASSUME TypeOK, NEW d \in Dirs, HostTransfers(d)
  PROVE  /\ queue[d] # <<>>
         /\ queue' \in [Dirs -> Seq(Reqs)] /\ queue'[d] = Tail(queue[d])
         /\ crossed' \in [Dirs -> 0 .. 2] /\ crossed'[d] = IF crossed[d] = 2 THEN 2 ELSE crossed[d] + 1
         /\ able' \in [Dirs -> BOOLEAN] /\ able'[d] = TRUE
         /\ actual' \in [Dirs -> [Reqs -> Packets]] /\ actual'[d][Head(queue[d])] = "new"
         /\ \A e \in Dirs \ {d} : /\ queue'[e] = queue[e] /\ crossed'[e] = crossed[e]
                                  /\ able'[e] = able[e] /\ actual'[e] = actual[e]
         /\ UNCHANGED <<ends, requests, call, mixed, wild>>
<1> DEFINE head  == Head(queue[d])
           count == IF crossed[d] = 2 THEN 2 ELSE crossed[d] + 1
           row   == [actual[d] EXCEPT ![head] = "new"]
<1>1. queue[d] # <<>> /\ queue[d] \in Seq(Reqs) /\ crossed[d] \in 0 .. 2
      /\ actual[d] \in [Reqs -> Packets] /\ "new" \in Packets
  BY DEF HostTransfers, TypeOK, Packets
<1>2. head \in Reqs /\ Tail(queue[d]) \in Seq(Reqs)
  BY <1>1, HeadTailProperties
<1>3. count \in 0 .. 2
  BY <1>1
<1>4. /\ crossed' = [crossed EXCEPT ![d] = count] /\ able' = [able EXCEPT ![d] = TRUE]
      /\ queue' = [queue EXCEPT ![d] = Tail(queue[d])]
      /\ actual' = [actual EXCEPT ![d] = row]
      /\ UNCHANGED <<ends, requests, call, mixed, wild>>
  BY DEF HostTransfers
<1> HIDE DEF head, count
<1>5. row \in [Reqs -> Packets] /\ row[head] = "new"
  BY <1>1, <1>2
<1> HIDE DEF row
<1>6. queue' \in [Dirs -> Seq(Reqs)] /\ queue'[d] = Tail(queue[d])
      /\ \A e \in Dirs \ {d} : queue'[e] = queue[e]
  BY <1>2, <1>4 DEF TypeOK
<1>7. crossed' \in [Dirs -> 0 .. 2] /\ crossed'[d] = count
      /\ \A e \in Dirs \ {d} : crossed'[e] = crossed[e]
  BY <1>3, <1>4 DEF TypeOK
<1>8. able' \in [Dirs -> BOOLEAN] /\ able'[d] = TRUE
      /\ \A e \in Dirs \ {d} : able'[e] = able[e]
  BY <1>4 DEF TypeOK
<1>9. actual' \in [Dirs -> [Reqs -> Packets]] /\ actual'[d][head] = "new"
      /\ \A e \in Dirs \ {d} : actual'[e] = actual[e]
  BY <1>4, <1>5 DEF TypeOK
<1>10. QED
  BY <1>1, <1>4, <1>6, <1>7, <1>8, <1>9 DEF head, count

LEMMA TransferIInv ==
  ASSUME MaxAlts \in Nat, IInv, NEW d \in Dirs, HostTransfers(d)
  PROVE  IInv'
<1> USE DEF IInv
<1>1. /\ queue[d] # <<>>
      /\ queue' \in [Dirs -> Seq(Reqs)] /\ queue'[d] = Tail(queue[d])
      /\ crossed' \in [Dirs -> 0 .. 2] /\ crossed'[d] = IF crossed[d] = 2 THEN 2 ELSE crossed[d] + 1
      /\ able' \in [Dirs -> BOOLEAN] /\ able'[d] = TRUE
      /\ actual' \in [Dirs -> [Reqs -> Packets]] /\ actual'[d][Head(queue[d])] = "new"
      /\ \A e \in Dirs \ {d} : /\ queue'[e] = queue[e] /\ crossed'[e] = crossed[e]
                               /\ able'[e] = able[e] /\ actual'[e] = actual[e]
      /\ UNCHANGED <<ends, requests, call, mixed, wild>>
  BY TransferEffect
<1>2. TypeOK'
  BY <1>1 DEF TypeOK, ends, requests
<1>3. Ends' /\ Allocated'
  <2>1. queue[d] # <<>> /\ \A e \in Dirs \ {d} : queue'[e] = queue[e]
    BY <1>1
  <2>2. QED
    BY <1>1, <2>1 DEF Ends, Allocated, Completes, Reqs, ends, requests
<1>4. Solo(d)'
  <2> SUFFICES ASSUME ~mixed[d] PROVE Busy(d)'
    BY <1>1 DEF Solo
  <2>1. PICK c \in Callers : /\ InCall(c, d) /\ Progress(c, d)
                             /\ \A o \in Callers : InCall(o, d) => o = c
    BY <1>1 DEF Solo, Quiet, Busy
  <2>2. /\ call[c].at \in {"wait", "interrupted"} /\ call[c].req \in Reqs
        /\ queue[d] = <<call[c].req>> /\ crossed[d] = 0
    BY <1>1, <2>1 DEF Progress
  <2>3. queue'[d] = <<>> /\ crossed'[d] = 1 /\ actual'[d][call[c].req] = "new"
    BY <1>1, <2>2, OneRequest
  <2>4. Progress(c, d)'
    BY <1>1, <2>2, <2>3 DEF Progress, Reqs
  <2>5. QED
    BY <1>1, <2>1, <2>4 DEF Busy, InCall
<1>5. ASSUME NEW e \in Dirs \ {d} PROVE Solo(e)'
  BY <1>1, SoloElsewhere DEF InCall
<1>6. Filled'
  BY <1>1 DEF Filled, InCall, requests, Reqs
<1>7. QED
  BY <1>2, <1>3, <1>4, <1>5, <1>6

-----------------------------------------------------------------------------
(* What set_alt and disable do with the queues: an endpoint that is        *)
(* disabled gives back what it has, and nothing else is touched.           *)
GivesBack ==
  \/ \E d \in Dirs : GiveBack(d) /\ ~enabled'[d]
  \/ UNCHANGED <<queue, able>>

LEMMA GiveBackEffect ==
  ASSUME TypeOK, GivesBack
  PROVE  /\ queue' \in [Dirs -> Seq(Reqs)] /\ able' \in [Dirs -> BOOLEAN]
         /\ \A d \in Dirs :
              \/ queue'[d] = <<>> /\ able'[d] = (able[d] \/ queue[d] # <<>>)
              \/ queue'[d] = queue[d] /\ able'[d] = able[d]
<1>1. CASE UNCHANGED <<queue, able>>
  BY <1>1 DEF TypeOK
<1>2. ASSUME NEW e \in Dirs, GiveBack(e)
      PROVE  /\ queue' \in [Dirs -> Seq(Reqs)] /\ able' \in [Dirs -> BOOLEAN]
             /\ queue'[e] = <<>> /\ able'[e] = (able[e] \/ queue[e] # <<>>)
             /\ \A d \in Dirs \ {e} : queue'[d] = queue[d] /\ able'[d] = able[d]
  <2>1. <<>> \in Seq(Reqs)
    BY EmptySeq
  <2>2. queue' \in [Dirs -> Seq(Reqs)] /\ queue'[e] = <<>>
        /\ \A d \in Dirs \ {e} : queue'[d] = queue[d]
    BY <1>2, <2>1 DEF GiveBack, TypeOK
  <2>3. able' \in [Dirs -> BOOLEAN] /\ able'[e] = (able[e] \/ queue[e] # <<>>)
        /\ \A d \in Dirs \ {e} : able'[d] = able[d]
    BY <1>2 DEF GiveBack, TypeOK
  <2>4. QED
    BY <2>2, <2>3
<1>3. QED
  BY <1>1, <1>2 DEF GivesBack

LEMMA GiveBackSolo ==
  ASSUME IInv, NEW d \in Dirs, UNCHANGED <<actual, call, history>>,
         \/ queue'[d] = <<>> /\ able'[d] = (able[d] \/ queue[d] # <<>>)
         \/ queue'[d] = queue[d] /\ able'[d] = able[d]
  PROVE  Solo(d)'
<1> SUFFICES ASSUME ~mixed[d] PROVE (Quiet(d) \/ Busy(d))'
  BY DEF Solo, history
<1>1. CASE Quiet(d)
  BY <1>1 DEF Quiet, InCall, history
<1>2. CASE Busy(d)
  <2>1. PICK c \in Callers : /\ InCall(c, d) /\ Progress(c, d)
                             /\ \A o \in Callers : InCall(o, d) => o = c
    BY <1>2 DEF Busy
  <2>2. queue[d] = <<call[c].req>> => queue[d] # <<>>
    BY OneRequest
  <2>3. Progress(c, d)'
    BY <2>1, <2>2 DEF Progress, history, Reqs
  <2>4. QED
    BY <2>1, <2>3 DEF Busy, InCall
<1>3. QED
  BY <1>1, <1>2 DEF IInv, Solo

(* What is left to show of a statement of set_alt or disable. *)
LEMMA CoreKeeps ==
  ASSUME IInv, UNCHANGED <<buf, actual, call, history, wild>>, GivesBack,
         CoreTypeOK', Ends', Allocated'
  PROVE  IInv'
<1> USE DEF IInv
<1>1. TypeOK'
  BY GiveBackEffect DEF TypeOK, CoreTypeOK, history
<1>2. ASSUME NEW d \in Dirs PROVE Solo(d)'
  BY GiveBackEffect, GiveBackSolo
<1>3. Filled'
  BY DEF Filled, InCall, history, Reqs
<1>4. QED
  BY <1>1, <1>2, <1>3

(* Statements that touch neither the endpoints nor the requests. *)
LEMMA PassingIInv ==
  ASSUME MaxAlts \in Nat, IInv, NEW d \in Dirs,
         \/ Disable \/ SetAlt \/ SkipEp(d) \/ EnableFails(d) \/ SetComplete(d)
  PROVE  IInv'
<1> DEFINE Passes ==
      /\ core' \in {Nothing} \cup (Stages \X Dirs) /\ setting' \in BOOLEAN
      /\ \A e \in Dirs : core # <<"claim", e>> /\ core' # <<"claim", e>> /\ core' # <<"forget", e>>
      /\ core' \notin {<<"complete", In>>, <<"free", In>>}
      /\ core' = <<"alloc", Out>> => core = <<"complete", In>>
<1>1. UNCHANGED <<enabled, owner, alts, req, freed, buf, able, queue, actual, call, history, wild>>
  BY DEF Disable, SetAlt, SkipEp, EnableFails, SetComplete, requests
<1>2. ASSUME Disable PROVE Passes
  BY <1>2 DEF Disable, IInv, TypeOK, Nothing, Stages, Dirs, In, Out
<1>3. ASSUME SetAlt PROVE Passes
  BY <1>3 DEF SetAlt, Nothing, Stages, Dirs, In, Out
<1>4. ASSUME SkipEp(d) PROVE Passes
  BY <1>4 DEF SkipEp, AfterDisable, IInv, TypeOK, Nothing, Stages, Dirs, In, Out
<1>5. ASSUME EnableFails(d) PROVE Passes
  <2>1. core = <<"enable", d>>
        /\ core' \in {Nothing, <<"shut", In>>} /\ setting' \in BOOLEAN
    BY <1>5 DEF EnableFails, Over, IInv, TypeOK
  <2>2. QED
    BY <2>1 DEF Nothing, Stages, Dirs
<1>6. ASSUME SetComplete(d) PROVE Passes
  <2>1. core = <<"complete", d>> /\ setting' \in BOOLEAN
        /\ core' = IF d = In THEN <<"alloc", Out>> ELSE Nothing
    BY <1>6 DEF SetComplete, Over, IInv, TypeOK
  <2>2. QED
    BY <2>1 DEF Nothing, Stages, Dirs
<1>7. Passes
  BY <1>2, <1>3, <1>4, <1>5, <1>6
<1>8. CoreTypeOK' /\ Ends' /\ Allocated'
  BY <1>1, <1>7 DEF IInv, TypeOK, CoreTypeOK, Ends, Allocated, Completes, Reqs
<1>9. QED
  BY <1>1, <1>8, CoreKeeps DEF GivesBack

(* usb_ep_disable: in disable_ep, and on the error path. *)
LEMMA DisablingIInv ==
  ASSUME MaxAlts \in Nat, IInv, NEW d \in Dirs, DisableEp(d) \/ ShutEp(d)
  PROVE  IInv'
<1> DEFINE Disables ==
      /\ core' \in {Nothing} \cup (Stages \X Dirs) /\ setting' \in BOOLEAN
      /\ \A e \in Dirs : core # <<"claim", e>> /\ core' # <<"claim", e>>
      /\ \A e \in Dirs : core' = <<"forget", e>> => e = d
      /\ core' \notin {<<"complete", In>>, <<"alloc", Out>>, <<"free", In>>}
<1>1. /\ GiveBack(d) /\ enabled' = [enabled EXCEPT ![d] = FALSE]
      /\ UNCHANGED <<owner, alts, req, freed, buf, actual, call, history, wild>>
  BY DEF DisableEp, ShutEp, requests
<1>2. enabled' \in [Dirs -> BOOLEAN] /\ ~enabled'[d]
      /\ \A e \in Dirs \ {d} : enabled'[e] = enabled[e]
  BY <1>1 DEF IInv, TypeOK
<1>3. queue'[d] = <<>> /\ \A e \in Dirs \ {d} : queue'[e] = queue[e]
  BY <1>1 DEF GiveBack, IInv, TypeOK
<1>4. ASSUME DisableEp(d) PROVE Disables
  <2>1. core = <<"disable", d>> /\ core' = <<"forget", d>> /\ setting' = setting
    BY <1>4 DEF DisableEp
  <2>2. QED
    BY <2>1 DEF IInv, TypeOK, Stages
<1>5. ASSUME ShutEp(d) PROVE Disables
  <2>1. core = <<"shut", d>>
        /\ core' \in {Nothing, <<"shut", In>>} /\ setting' \in BOOLEAN
    BY <1>5 DEF ShutEp, Over, IInv, TypeOK
  <2>2. QED
    BY <2>1 DEF Nothing, Stages, Dirs
<1>6. Disables
  BY <1>4, <1>5
<1>7. Ends'
  BY <1>1, <1>2, <1>3, <1>6 DEF IInv, Ends, Completes
<1>8. CoreTypeOK' /\ Allocated'
  BY <1>1, <1>2, <1>6 DEF IInv, TypeOK, CoreTypeOK, Allocated, Reqs
<1>9. QED
  BY <1>1, <1>2, <1>7, <1>8, CoreKeeps DEF GivesBack

(* driver_data is cleared, and assigned; an endpoint is enabled. *)
LEMMA ForgetIInv ==
  ASSUME MaxAlts \in Nat, IInv, NEW d \in Dirs, ForgetEp(d)
  PROVE  IInv'
<1>1. /\ core = <<"forget", d>> /\ owner' = [owner EXCEPT ![d] = "null"]
      /\ UNCHANGED <<enabled, setting, alts, req, freed, buf, able, queue, actual, call, history, wild>>
      /\ core' \in {Nothing} \cup (Stages \X Dirs)
      /\ \A e \in Dirs : core # <<"claim", e>> /\ core' # <<"claim", e>> /\ core' # <<"forget", e>>
      /\ core' \notin {<<"complete", In>>, <<"alloc", Out>>, <<"free", In>>}
  BY DEF ForgetEp, AfterDisable, requests, Nothing, Stages, Dirs, In, Out
<1>2. owner' \in [Dirs -> {"cdev", "priv", "null"}]
      /\ \A e \in Dirs \ {d} : owner'[e] = owner[e]
  BY <1>1 DEF IInv, TypeOK
<1>3. ~enabled[d]
  BY <1>1 DEF IInv, Ends
<1>4. Ends'
  BY <1>1, <1>2, <1>3 DEF IInv, Ends, Completes
<1>5. CoreTypeOK' /\ Allocated'
  BY <1>1, <1>2 DEF IInv, TypeOK, CoreTypeOK, Allocated, Reqs
<1>6. QED
  BY <1>1, <1>4, <1>5, CoreKeeps DEF GivesBack

LEMMA EnableIInv ==
  ASSUME MaxAlts \in Nat, IInv, NEW d \in Dirs, EnableEp(d)
  PROVE  IInv'
<1>1. /\ core = <<"enable", d>> /\ core' = <<"claim", d>>
      /\ enabled' = [enabled EXCEPT ![d] = TRUE]
      /\ UNCHANGED <<owner, setting, alts, req, freed, buf, able, queue, actual, call, history, wild>>
      /\ core' \in {Nothing} \cup (Stages \X Dirs)
      /\ \A e \in Dirs : core # <<"claim", e>> /\ core' # <<"forget", e>>
      /\ core' \notin {<<"complete", In>>, <<"alloc", Out>>, <<"free", In>>}
  BY DEF EnableEp, requests, Stages, Dirs, In, Out
<1>2. enabled' \in [Dirs -> BOOLEAN] /\ enabled'[d]
      /\ \A e \in Dirs \ {d} : enabled'[e] = enabled[e]
  BY <1>1 DEF IInv, TypeOK
<1>3. Ends'
  BY <1>1, <1>2 DEF IInv, Ends, Completes
<1>4. CoreTypeOK' /\ Allocated'
  BY <1>1, <1>2 DEF IInv, TypeOK, CoreTypeOK, Allocated, Reqs
<1>5. QED
  BY <1>1, <1>3, <1>4, CoreKeeps DEF GivesBack

LEMMA ClaimIInv ==
  ASSUME MaxAlts \in Nat, IInv, NEW d \in Dirs, ClaimEp(d)
  PROVE  IInv'
<1>1. /\ core = <<"claim", d>> /\ owner' = [owner EXCEPT ![d] = "priv"]
      /\ UNCHANGED <<enabled, setting, alts, req, freed, buf, able, queue, actual, call, history, wild>>
      /\ core' \in {Nothing} \cup (Stages \X Dirs)
      /\ \A e \in Dirs : /\ core = <<"claim", e>> => e = d
                         /\ core' # <<"claim", e>> /\ core' # <<"forget", e>>
      /\ core' \notin {<<"complete", In>>, <<"alloc", Out>>, <<"free", In>>}
  BY DEF ClaimEp, requests, Stages, Dirs, In, Out
<1>2. owner' \in [Dirs -> {"cdev", "priv", "null"}] /\ owner'[d] = "priv"
      /\ \A e \in Dirs \ {d} : owner'[e] = owner[e]
  BY <1>1 DEF IInv, TypeOK
<1>3. Ends'
  BY <1>1, <1>2 DEF IInv, Ends, Completes
<1>4. CoreTypeOK' /\ Allocated'
  BY <1>1, <1>2 DEF IInv, TypeOK, CoreTypeOK, Allocated, Reqs
<1>5. QED
  BY <1>1, <1>3, <1>4, CoreKeeps DEF GivesBack

(* The requests are allocated and freed. *)
LEMMA RequestsIInv ==
  ASSUME MaxAlts \in Nat, IInv, NEW d \in Dirs, AllocReq(d) \/ AllocFails(d) \/ FreeReq
  PROVE  IInv'
<1>1. /\ UNCHANGED <<enabled, owner, setting, buf, able, queue, actual, call, history, wild>>
      /\ core' \in {Nothing} \cup (Stages \X Dirs)
      /\ \A e \in Dirs : core # <<"claim", e>> /\ core' # <<"claim", e>> /\ core' # <<"forget", e>>
  BY DEF AllocReq, AllocFails, FreeReq, Stages, Dirs, In, Out
<1>2. Ends'
  BY <1>1 DEF IInv, Ends, Completes
<1>3. CoreTypeOK' /\ Allocated'
  <2>1. CASE AllocReq(d)
    <3>1. alts' \in Reqs /\ alts' \in 0 .. MaxAlts
      BY <2>1 DEF AllocReq, IInv, TypeOK, Allocated, Reqs, Dirs, In, Out
    <3>2. req' \in [Dirs -> Reqs \cup {NoReq}] /\ req'[d] \in Reqs /\ freed' = freed
      BY <2>1, <3>1 DEF AllocReq, IInv, TypeOK
    <3>3. core' = <<"complete", d>>
      BY <2>1 DEF AllocReq
    <3>4. Allocated'
      BY <3>1, <3>2, <3>3 DEF Allocated, Reqs, Dirs, In, Out
    <3>5. QED
      BY <1>1, <3>1, <3>2, <3>4 DEF IInv, TypeOK, CoreTypeOK, Reqs
  <2>2. CASE AllocFails(d)
    <3>1. core = <<"alloc", d>> /\ alts' = alts /\ freed' = freed
          /\ req' = [req EXCEPT ![d] = NoReq]
          /\ core' = IF d = In THEN <<"shut", Out>> ELSE <<"free", In>>
      BY <2>2 DEF AllocFails
    <3>2. req' \in [Dirs -> Reqs \cup {NoReq}] /\ \A e \in Dirs \ {d} : req'[e] = req[e]
      BY <3>1 DEF IInv, TypeOK
    <3>3. Allocated'
      BY <3>1, <3>2 DEF IInv, Allocated, Reqs, Dirs, In, Out
    <3>4. QED
      BY <1>1, <3>1, <3>2, <3>3 DEF IInv, TypeOK, CoreTypeOK, Reqs
  <2>3. CASE FreeReq
    <3>1. core = <<"free", In>> /\ core' = <<"shut", Out>> /\ UNCHANGED <<alts, req>>
          /\ freed' = freed \cup {req[In]}
      BY <2>3 DEF FreeReq
    <3>2. req[In] \in Reqs
      BY <3>1 DEF IInv, Allocated
    <3>3. Allocated'
      BY <3>1 DEF Allocated, Dirs, In, Out
    <3>4. QED
      BY <1>1, <3>1, <3>2, <3>3 DEF IInv, TypeOK, CoreTypeOK, Reqs
  <2>4. QED
    BY <2>1, <2>2, <2>3
<1>4. buf' = buf
  BY DEF AllocReq, AllocFails, FreeReq
<1>5. QED
  BY <1>1, <1>2, <1>3, <1>4, CoreKeeps DEF GivesBack

LEMMA ControllerIInv ==
  ASSUME MaxAlts \in Nat, IInv,
         \/ Disable \/ SetAlt \/ FreeReq
         \/ \E d \in Dirs :
              \/ SkipEp(d) \/ DisableEp(d) \/ ForgetEp(d)
              \/ EnableEp(d) \/ EnableFails(d) \/ ClaimEp(d)
              \/ AllocReq(d) \/ AllocFails(d) \/ SetComplete(d) \/ ShutEp(d)
  PROVE  IInv'
<1>1. In \in Dirs
  BY DEF Dirs
<1>2. QED
  BY <1>1, PassingIInv, DisablingIInv, ForgetIInv, EnableIInv, ClaimIInv, RequestsIInv

(* A step that changes nothing that matters, the last one of a model gone  *)
(* wild among them.                                                        *)
LEMMA StillIInv ==
  ASSUME IInv, UNCHANGED <<ends, requests, able, queue, actual, call, history>>, wild' \in BOOLEAN
  PROVE  IInv'
<1>1. UNCHANGED <<enabled, owner, core, setting, alts, req, freed, buf, able, queue, actual, call,
                  crossed, mixed>>
  BY DEF ends, requests, history
<1>2. TypeOK' /\ Ends' /\ Allocated'
  BY <1>1 DEF IInv, TypeOK, Ends, Allocated, Completes, Reqs
<1>3. Filled'
  BY <1>1 DEF IInv, Filled, InCall, Reqs
<1>4. ASSUME NEW d \in Dirs PROVE Solo(d)'
  BY <1>1, SoloElsewhere DEF IInv, InCall
<1>5. QED
  BY <1>2, <1>3, <1>4 DEF IInv

LEMMA NextIInv ==
  ASSUME MaxAlts \in Nat
  PROVE  IInv /\ [Next]_vars => IInv'
<1> SUFFICES ASSUME IInv, [Next]_vars PROVE IInv'
  OBVIOUS
<1>1. CASE UNCHANGED vars
  BY <1>1, StillIInv DEF vars, IInv, TypeOK
<1>2. CASE GoesWild
  BY <1>2, StillIInv DEF GoesWild
<1>3. CASE Next
  BY <1>2, <1>3, BeginIInv, PlainReturnIInv, EnqueueIInv, InterruptIInv, DequeueIInv, TransferIInv,
     ControllerIInv DEF Next
<1>4. QED
  BY <1>1, <1>3

LEMMA Invariance == Spec => []IInv
BY GCharAssumption, InitIInv, NextIInv, PTL DEF Spec

-----------------------------------------------------------------------------
(* Every variable keeps its range, whatever the callers and the host do. *)
THEOREM TypeCorrect == Spec => []TypeOK
<1>1. IInv => TypeOK
  BY DEF IInv
<1>2. QED
  BY <1>1, Invariance, PTL

(* g_char_complete (lines 226-249) finds priv in the driver data: never what   *)
(* bind has left there, never what disable_ep has cleared under a request, and  *)
(* NULL only in the moment between lines 260 and 264 of a set_alt, whatever     *)
(* calls run beside set_alt and disable.                                        *)
THEOREM CompleteFindsPrivHolds == Spec => []CompleteFindsPriv
<1>1. IInv => CompleteFindsPriv
  BY DEF IInv, Ends, CompleteFindsPriv
<1>2. QED
  BY <1>1, Invariance, PTL

(* A call that never meets another of its direction is not left waiting        *)
(* (lines 341-350, 371-387) for a request that the controller has given back,   *)
(* through any order of transfers, signals, set_alt and disable.                *)
THEOREM NoLostGivebackHolds == Spec => []NoLostGiveback
<1>1. IInv => NoLostGiveback
  <2> SUFFICES ASSUME IInv, NEW c \in Callers, NEW d \in Dirs, d = call[c].dir,
                      call[c].at = "wait", ~mixed[d]
               PROVE  call[c].req \in Queued(d) \/ able[d]
    BY DEF NoLostGiveback, IInv, TypeOK
  <2>1. InCall(c, d)
    BY DEF InCall
  <2>2. Progress(c, d)
    BY <2>1, SoloCall DEF IInv
  <2>3. queue[d] = <<call[c].req>> => call[c].req \in Queued(d)
    BY DEF Queued
  <2>4. QED
    BY <2>2, <2>3 DEF Progress
<1>2. QED
  BY <1>1, Invariance, PTL

(* A call that waits returns only when wait_event finds the flag set. *)
LEMMA OnlyWakeReturns ==
  ASSUME IInv, Next, NEW c \in Callers, call[c].at = "wait", call'[c].at = "idle"
  PROVE  Wake(c)
<1> USE DEF IInv
<1>1. ASSUME NEW d \in Dirs, NEW o \in Threads(d), Begin(o, d) PROVE FALSE
  <2>1. o # c
    BY <1>1 DEF Begin
  <2>2. call'[c] = call[c]
    BY <1>1, <2>1 DEF Begin, TypeOK
  <2>3. QED
    BY <2>2
<1>2. ASSUME NEW o \in Callers,
             WriteFaults(o) \/ EnqueueFails(o) \/ Wake(o) \/ Dequeue(o)
      PROVE  Wake(c)
  <2>1. Return(o)
    BY <1>2 DEF WriteFaults, EnqueueFails, Wake, Dequeue
  <2>2. o # c => call'[c] = call[c]
    BY <2>1, ReturnEffect
  <2>3. o = c
    BY <2>2
  <2>4. QED
    BY <1>2, <2>3 DEF WriteFaults, EnqueueFails, Dequeue
<1>3. ASSUME NEW o \in Callers, Enqueue(o) \/ Interrupt(o) PROVE FALSE
  <2>1. PICK at \in {"wait", "interrupted"} : call' = [call EXCEPT ![o].at = at]
    BY <1>3 DEF Enqueue, Interrupt
  <2>2. at \in At
    BY DEF At
  <2>3. call'[o].at = at /\ (o # c => call'[c] = call[c])
    BY <2>1, <2>2, MoveTo
  <2>4. QED
    BY <2>3
<1>4. ASSUME UNCHANGED call PROVE FALSE
  BY <1>4
<1>5. QED
  BY <1>1, <1>2, <1>3, <1>4 DEF Next, HostTransfers, GoesWild, Disable, SetAlt, SkipEp, DisableEp,
     ForgetEp, EnableEp, EnableFails, ClaimEp, AllocReq, AllocFails, SetComplete, ShutEp, FreeReq

(* A call that ends is the one that takes a step to its end. *)
LEMMA ReturnsExactly ==
  ASSUME IInv, Next, NEW d \in Dirs, ~mixed[d], NEW c \in Callers,
         call[c].dir = d, call'[c].at = "idle"
  PROVE  /\ call[c].at = "wait" => Result(c) = IF crossed[d] = 0 THEN "empty" ELSE "new"
         /\ call[c].at = "interrupted" => crossed[d] <= 1
         /\ call[c].at = "queue" => crossed[d] = 0
<1>1. call[c].at = "wait" => able[d]
  BY OnlyWakeReturns DEF Wake
<1>2. call[c].at \in {"queue", "wait", "interrupted"} => InCall(c, d)
  BY DEF InCall
<1>3. call[c].at \in {"queue", "wait", "interrupted"} => Progress(c, d)
  BY <1>2, SoloCall DEF IInv
<1>4. QED
  BY <1>1, <1>3 DEF Progress, Result

LEMMA CrossesForACall ==
  ASSUME IInv, Next, NEW d \in Dirs, ~mixed[d],
         queue'[d] # queue[d], crossed'[d] # crossed[d]
  PROVE  \E c \in Callers :
           /\ InCall(c, d) /\ call[c].at # "queue"
           /\ call[c].req = Head(queue[d])
           /\ d = In => buf[call[c].req] = c
<1> USE DEF IInv
<1>1. queue' # queue /\ crossed' # crossed
  OBVIOUS
<1>2. \/ \E c \in Callers : Dequeue(c)
      \/ \E e \in Dirs : HostTransfers(e)
  BY <1>1 DEF Next, Begin, WriteFaults, Enqueue, EnqueueFails, Wake, Interrupt, GoesWild, Disable,
     SetAlt, SkipEp, DisableEp, ForgetEp, EnableEp, EnableFails, ClaimEp, AllocReq, AllocFails,
     SetComplete, ShutEp, FreeReq, history
<1>3. ASSUME NEW c \in Callers, Dequeue(c) PROVE FALSE
  <2>1. PICK e \in Dirs : e = call[c].dir
    BY DEF TypeOK
  <2>2. Return(c) /\ call[c].at = "interrupted"
    BY <1>3 DEF Dequeue
  <2>3. e = d
    BY <2>1, <2>2, ReturnEffect
  <2>4. InCall(c, d) /\ crossed'[d] = 0
    BY <2>1, <2>2, <2>3, ReturnEffect DEF InCall
  <2>5. queue[d] = <<>>
    BY <2>4, SoloCall DEF Progress
  <2>6. 1 .. Len(queue[d]) = {}
    BY <2>5, EmptySeq
  <2>7. queue'[d] = queue[d]
    BY <1>3, <2>1, <2>3, <2>6 DEF Dequeue
  <2>8. QED
    BY <2>7
<1>4. PICK e \in Dirs : HostTransfers(e)
  BY <1>2, <1>3
<1>5. e = d
  <2>1. \A x \in Dirs \ {e} : queue'[x] = queue[x]
    BY <1>4, TransferEffect
  <2>2. QED
    BY <2>1
<1>6. queue[d] # <<>>
  BY <1>4, <1>5, TransferEffect
<1>7. PICK c \in Callers : InCall(c, d) /\ Progress(c, d)
  BY <1>6 DEF Solo, Quiet, Busy
<1>8. /\ call[c].at \in {"wait", "interrupted"} /\ call[c].req \in Reqs
      /\ queue[d] = <<call[c].req>>
  BY <1>6, <1>7 DEF Progress
<1>9. Head(queue[d]) = call[c].req
  BY <1>8, OneRequest
<1>10. d = In => buf[call[c].req] = c
  BY <1>7, <1>8 DEF Filled
<1>11. QED
  BY <1>7, <1>8, <1>9, <1>10

(* As long as the calls of a direction do not overlap, each that waits to its  *)
(* end returns exactly the packet that crossed the bus for it (lines 352-358,   *)
(* 374-389), one that is interrupted loses at most that packet (347-349,        *)
(* 384-386), and one that is refused loses none.                                *)
THEOREM TransfersExactHolds == Spec => TransfersExact
<1> DEFINE Exact ==
      \A d \in Dirs : ~mixed[d] =>
        /\ queue'[d] # queue[d] /\ crossed'[d] # crossed[d] =>
             \E c \in Callers :
               /\ InCall(c, d) /\ call[c].at # "queue"
               /\ call[c].req = Head(queue[d])
               /\ d = In => buf[call[c].req] = c
        /\ \A c \in Callers : call[c].dir = d /\ call'[c].at = "idle" =>
             /\ call[c].at = "wait" => Result(c) = IF crossed[d] = 0 THEN "empty" ELSE "new"
             /\ call[c].at = "interrupted" => crossed[d] <= 1
             /\ call[c].at = "queue" => crossed[d] = 0
<1>1. IInv /\ [Next]_vars => [Exact]_vars
  <2> SUFFICES ASSUME IInv, Next PROVE Exact
    OBVIOUS
  <2>1. QED
    BY CrossesForACall, ReturnsExactly
<1> HIDE DEF Exact
<1>2. Spec => [][Exact]_vars
  BY <1>1, Invariance, PTL DEF Spec
<1>3. QED
  BY <1>2 DEF Exact, TransfersExact
=============================================================================
