------------------------------- MODULE GChar -------------------------------
(***************************************************************************)
(* g_char.c: a USB gadget with one bulk endpoint each way, read and        *)
(* written through /dev/g_char.  Each direction has a single request, a    *)
(* flag that the completion sets, and a wait queue; nothing keeps two      *)
(* calls from using them at once.  The host moves packets, resets the      *)
(* interface with set_alt and goes away with disable.  Those two exclude   *)
(* each other by the lock of the composite core, which read and write do   *)
(* not take: a call may meet any statement of theirs.                      *)
(***************************************************************************)
EXTENDS Integers, Sequences

CONSTANTS
  Readers, Writers,  \* the threads that call read and those that call write
  MaxAlts            \* bound: times that set_alt allocates requests

ASSUME GCharAssumption == MaxAlts \in Nat

Out  == "out"   \* host to gadget: g_char_read, out_ep, in_req, r_able
In   == "in"    \* gadget to host: g_char_write, in_ep, out_req, w_able
Dirs == {Out, In}

Callers    == Readers \cup Writers
Threads(d) == IF d = Out THEN Readers ELSE Writers

NoReq  == 0             \* NULL
Reqs   == 1 .. MaxAlts  \* the requests of a direction, as they were allocated
Nobody == "nobody"

(* The next statement of set_alt or disable: usb_ep_disable, driver_data = *)
(* NULL; usb_ep_enable, driver_data = priv; the allocation of a request,   *)
(* its ->complete; on the error path free_ep_req and usb_ep_disable.       *)
Stages  == {"disable", "forget", "enable", "claim", "alloc", "complete", "free", "shut"}
Nothing == <<"none", In>>

(* What a request completed with.  A packet is new until a call that began *)
(* before it returns; several new ones count as two.                       *)
Packets == {"empty", "new", "old"}

VARIABLES
  enabled,  \* of each endpoint, by usb_ep_enable and usb_ep_disable
  owner,    \* ep->driver_data: "cdev" (the claim of bind), "priv" or "null"
  core,     \* the next statement of set_alt or disable, and its endpoint
  setting,  \* whether it is set_alt that runs
  alts,     \* how often set_alt has allocated requests
  req,      \* priv->in_req and priv->out_req
  freed,    \* requests to the host that the error path of set_alt has freed
  able,     \* priv->r_able and priv->w_able
  queue,    \* the requests the controller holds for each endpoint
  buf,      \* which call's data is in the buffer of each request to the host
  actual,   \* what each request completed with
  call,     \* each caller: direction, next step, its copy of req
  crossed,  \* history: how many packets crossed the bus since a call returned
  mixed,    \* history: two calls of a direction have overlapped
  wild      \* memory that is NULL or freed has been used, and the model stops

ends     == <<enabled, owner, core, setting>>
requests == <<alts, req, freed, buf>>
history  == <<crossed, mixed>>
vars == <<ends, requests, able, queue, actual, call, history, wild>>

At == {"idle", "queue", "wait", "interrupted"}

TypeOK ==
  /\ enabled \in [Dirs -> BOOLEAN]
  /\ owner   \in [Dirs -> {"cdev", "priv", "null"}]
  /\ core    \in {Nothing} \cup (Stages \X Dirs)
  /\ setting \in BOOLEAN
  /\ alts    \in 0 .. MaxAlts
  /\ req     \in [Dirs -> Reqs \cup {NoReq}]
  /\ freed   \subseteq Reqs
  /\ able    \in [Dirs -> BOOLEAN]
  /\ queue   \in [Dirs -> Seq(Reqs)]
  /\ buf     \in [Reqs -> Callers \cup {Nobody}]
  /\ actual  \in [Dirs -> [Reqs -> Packets]]
  /\ call    \in [Callers -> [dir : Dirs, at : At, req : Reqs \cup {NoReq}]]
  /\ crossed \in [Dirs -> 0 .. 2]
  /\ mixed   \in [Dirs -> BOOLEAN]
  /\ wild    \in BOOLEAN

(* After g_char_f_bind: the endpoints are claimed, nothing is enabled. *)
Init ==
  /\ enabled = [d \in Dirs |-> FALSE]
  /\ owner   = [d \in Dirs |-> "cdev"]
  /\ core    = Nothing
  /\ setting = FALSE
  /\ alts    = 0
  /\ req     = [d \in Dirs |-> NoReq]
  /\ freed   = {}
  /\ able    = [d \in Dirs |-> FALSE]
  /\ queue   = [d \in Dirs |-> <<>>]
  /\ buf     = [r \in Reqs |-> Nobody]
  /\ actual  = [d \in Dirs |-> [r \in Reqs |-> "empty"]]
  /\ call    = [c \in Callers |-> [dir |-> Out, at |-> "idle", req |-> NoReq]]
  /\ crossed = [d \in Dirs |-> 0]
  /\ mixed   = [d \in Dirs |-> FALSE]
  /\ wild    = FALSE

Queued(d) == {queue[d][k] : k \in 1 .. Len(queue[d])}

(* The call of c holds a request to the host that has been freed. *)
Stale(c) == call[c].dir = In /\ call[c].req \in freed

(* g_char_complete dereferences the driver data of the endpoint. *)
Completes(d) == owner[d] = "priv"

InCall(c, d) == call[c].dir = d /\ call[c].at \in {"queue", "wait", "interrupted"}

(* The call of c ends, and what crossed the bus before is no longer new. *)
Return(c) ==
  LET d == call[c].dir
  IN  /\ call' = [call EXCEPT ![c] = [dir |-> d, at |-> "idle", req |-> NoReq]]
      /\ crossed' = [crossed EXCEPT ![d] = 0]
      /\ actual' = [actual EXCEPT ![d] = [r \in Reqs |-> IF @[r] = "new" THEN "old" ELSE @[r]]]
      /\ buf' = [r \in Reqs |-> IF buf[r] = c THEN Nobody ELSE buf[r]]

-----------------------------------------------------------------------------
(* g_char_read and g_char_write load the request and clear the flag; a     *)
(* write then fills the request's buffer.                                  *)
Begin(c, d) ==
  /\ call[c].at = "idle"
  /\ d = In => req[In] \in Reqs \ freed
  /\ call' = [call EXCEPT ![c] = [dir |-> d, req |-> req[d], at |-> "queue"]]
  /\ able' = [able EXCEPT ![d] = FALSE]
  /\ buf' = IF d = In THEN [buf EXCEPT ![req[d]] = c] ELSE buf
  /\ mixed' = [mixed EXCEPT ![d] = @ \/ \E other \in Callers \ {c} : InCall(other, d)]
  /\ UNCHANGED <<ends, alts, req, freed, queue, actual, crossed, wild>>

(* copy_from_user faults in g_char_write. *)
WriteFaults(c) ==
  /\ call[c].at = "queue" /\ call[c].dir = In /\ ~Stale(c)
  /\ Return(c)
  /\ UNCHANGED <<ends, alts, req, freed, able, queue, mixed, wild>>

(* usb_ep_queue: the controller refuses a disabled endpoint, and a request *)
(* that is missing, already queued or without ->complete; it resets actual. *)
Accepts(d, r) ==
  /\ enabled[d] /\ r \in Reqs \ Queued(d)
  /\ core = <<"complete", d>> => r # req[d]

Enqueue(c) ==
  LET d == call[c].dir
      r == call[c].req
  IN  /\ call[c].at = "queue" /\ ~Stale(c) /\ Accepts(d, r)
      /\ queue' = [queue EXCEPT ![d] = Append(@, r)]
      /\ actual' = [actual EXCEPT ![d][r] = "empty"]
      /\ call' = [call EXCEPT ![c].at = "wait"]
      /\ UNCHANGED <<ends, requests, able, history, wild>>

EnqueueFails(c) ==
  /\ call[c].at = "queue" /\ ~Stale(c) /\ ~Accepts(call[c].dir, call[c].req)
  /\ Return(c)
  /\ UNCHANGED <<ends, alts, req, freed, able, queue, mixed, wild>>

(* wait_event_interruptible finds the flag set: the call returns what the  *)
(* request completed with, or -EFAULT if a read cannot copy it out.        *)
Result(c) == actual[call[c].dir][call[c].req]

Wake(c) ==
  /\ call[c].at = "wait" /\ able[call[c].dir] /\ ~Stale(c)
  /\ Return(c)
  /\ UNCHANGED <<ends, alts, req, freed, able, queue, mixed, wild>>

(* It finds the flag clear and a signal pending, *)
Interrupt(c) ==
  /\ call[c].at = "wait" /\ ~able[call[c].dir]
  /\ call' = [call EXCEPT ![c].at = "interrupted"]
  /\ UNCHANGED <<ends, requests, able, queue, actual, history, wild>>

(* Mutation: the interrupted call leaves its request with the controller. *)
DequeueForgotten(c) ==
  /\ call[c].at = "interrupted" /\ ~Stale(c)
  /\ Return(c)
  /\ UNCHANGED <<ends, alts, req, freed, able, queue, mixed, wild>>

(* s without its k-th element. *)
Without(s, k) == SubSeq(s, 1, k - 1) \o SubSeq(s, k + 1, Len(s))

(* and the call takes its request back, if the controller still has it,    *)
(* which completes it: -ERESTARTSYS.                                       *)
Dequeue(c) ==
  LET d == call[c].dir
      r == call[c].req
  IN  /\ call[c].at = "interrupted" /\ ~Stale(c)
      /\ Return(c)
      /\ \/ Completes(d) /\ \E k \in 1 .. Len(queue[d]) :
              /\ queue[d][k] = r
              /\ queue' = [queue EXCEPT ![d] = Without(@, k)]
              /\ able' = [able EXCEPT ![d] = TRUE]
         \/ r \notin Queued(d) /\ UNCHANGED <<queue, able>>
      /\ UNCHANGED <<ends, alts, req, freed, mixed, wild>>
-----------------------------------------------------------------------------
(* The host moves a packet, and the controller calls g_char_complete,      *)
(* which sets the flag of the endpoint's direction and wakes its queue.    *)
HostTransfers(d) ==
  /\ queue[d] # <<>> /\ Completes(d)
  /\ crossed' = [crossed EXCEPT ![d] = IF @ = 2 THEN 2 ELSE @ + 1]
  /\ actual' = [actual EXCEPT ![d][Head(queue[d])] = "new"]
  /\ queue' = [queue EXCEPT ![d] = Tail(@)]
  /\ able' = [able EXCEPT ![d] = TRUE]
  /\ UNCHANGED <<ends, requests, call, mixed, wild>>

(* Mutation: g_char_complete does nothing for -ESHUTDOWN. *)
GiveBackUnseen(d) ==
  /\ queue' = [queue EXCEPT ![d] = <<>>]
  /\ UNCHANGED able

(* usb_ep_disable gives every request back empty, each through             *)
(* g_char_complete.                                                        *)
GiveBack(d) ==
  /\ queue[d] # <<>> => Completes(d)
  /\ queue' = [queue EXCEPT ![d] = <<>>]
  /\ able' = [able EXCEPT ![d] = @ \/ queue[d] # <<>>]

-----------------------------------------------------------------------------
(* g_char_f_disable and g_char_f_set_alt, which disables the endpoints if  *)
(* the in endpoint is ours.                                                *)
Disable ==
  /\ core = Nothing
  /\ core' = <<"disable", In>>
  /\ UNCHANGED <<enabled, owner, setting, requests, able, queue, actual, call, history, wild>>

SetAlt ==
  /\ core = Nothing
  /\ core' = IF owner[In] # "null" THEN <<"disable", In>> ELSE <<"enable", In>>
  /\ setting' = TRUE
  /\ UNCHANGED <<enabled, owner, requests, able, queue, actual, call, history, wild>>

(* disable_ep is done with d. *)
AfterDisable(d) ==
  IF d = In THEN <<"disable", Out>> ELSE IF setting THEN <<"enable", In>> ELSE Nothing

(* disable_ep: an endpoint without driver data is left alone, another is   *)
(* disabled, and only then is its driver data cleared.                     *)
SkipEp(d) ==
  /\ core = <<"disable", d>> /\ owner[d] = "null"
  /\ core' = AfterDisable(d)
  /\ UNCHANGED <<enabled, owner, setting, requests, able, queue, actual, call, history, wild>>

(* Mutation: usb_ep_disable is not called. *)
DisableEpForgotten(d) ==
  /\ core = <<"disable", d>> /\ owner[d] # "null"
  /\ core' = <<"forget", d>>
  /\ UNCHANGED <<enabled, owner, setting, requests, able, queue, actual, call, history, wild>>

DisableEp(d) ==
  /\ core = <<"disable", d>> /\ owner[d] # "null"
  /\ GiveBack(d)
  /\ enabled' = [enabled EXCEPT ![d] = FALSE]
  /\ core' = <<"forget", d>>
  /\ UNCHANGED <<owner, setting, requests, actual, call, history, wild>>

ForgetEp(d) ==
  /\ core = <<"forget", d>>
  /\ owner' = [owner EXCEPT ![d] = "null"]
  /\ core' = AfterDisable(d)
  /\ UNCHANGED <<enabled, setting, requests, able, queue, actual, call, history, wild>>

(* The end of set_alt, of enable_g_char's error path too. *)
Over == core' = Nothing /\ setting' = FALSE

(* enable_endpoint: the endpoint takes requests before driver_data = priv. *)
EnableEp(d) ==
  /\ core = <<"enable", d>>
  /\ enabled' = [enabled EXCEPT ![d] = TRUE]
  /\ core' = <<"claim", d>>
  /\ UNCHANGED <<owner, setting, requests, able, queue, actual, call, history, wild>>

EnableFails(d) ==
  /\ core = <<"enable", d>>
  /\ IF d = In THEN Over ELSE core' = <<"shut", In>> /\ UNCHANGED setting
  /\ UNCHANGED <<enabled, owner, requests, able, queue, actual, call, history, wild>>

ClaimEp(d) ==
  /\ core = <<"claim", d>>
  /\ owner' = [owner EXCEPT ![d] = "priv"]
  /\ core' = IF d = In THEN <<"enable", Out>> ELSE <<"alloc", In>>
  /\ UNCHANGED <<enabled, setting, requests, able, queue, actual, call, history, wild>>

(* enable_g_char: out_req, then in_req.  The new requests take the place   *)
(* of the old ones, which nobody frees.                                    *)
AllocReq(d) ==
  /\ core = <<"alloc", d>>
  /\ d = In => alts < MaxAlts
  /\ alts' = IF d = In THEN alts + 1 ELSE alts
  /\ req' = [req EXCEPT ![d] = alts']
  /\ core' = <<"complete", d>>
  /\ UNCHANGED <<enabled, owner, setting, freed, buf, able, queue, actual, call, history, wild>>

(* For a missing request set_alt still returns 0. *)
AllocFails(d) ==
  /\ core = <<"alloc", d>>
  /\ req' = [req EXCEPT ![d] = NoReq]
  /\ core' = IF d = In THEN <<"shut", Out>> ELSE <<"free", In>>
  /\ UNCHANGED <<enabled, owner, setting, alts, freed, buf, able, queue, actual, call, history, wild>>

SetComplete(d) ==
  /\ core = <<"complete", d>>
  /\ IF d = In THEN core' = <<"alloc", Out>> /\ UNCHANGED setting ELSE Over
  /\ UNCHANGED <<enabled, owner, requests, able, queue, actual, call, history, wild>>

(* The error path: out_req is freed and still pointed to. *)
FreeReq ==
  /\ core = <<"free", In>> /\ req[In] \notin Queued(In)
  /\ freed' = freed \cup {req[In]}
  /\ core' = <<"shut", Out>>
  /\ UNCHANGED <<enabled, owner, setting, alts, req, buf, able, queue, actual, call, history, wild>>

ShutEp(d) ==
  /\ core = <<"shut", d>>
  /\ GiveBack(d)
  /\ enabled' = [enabled EXCEPT ![d] = FALSE]
  /\ IF d = Out THEN core' = <<"shut", In>> /\ UNCHANGED setting ELSE Over
  /\ UNCHANGED <<owner, requests, actual, call, history, wild>>

-----------------------------------------------------------------------------
(* Memory that is not there: the controller completes a request in the     *)
(* moment between usb_ep_enable and driver_data = priv; a write begins     *)
(* without a request, or a call goes on with a freed one; the request that *)
(* is freed is queued.                                                     *)
GoesWild ==
  /\ \/ \E d \in Dirs : queue[d] # <<>> /\ ~Completes(d)
     \/ \E c \in Writers : call[c].at = "idle" /\ req[In] \notin Reqs \ freed
     \/ \E c \in Callers :
          /\ Stale(c)
          /\ call[c].at \in {"queue", "interrupted"} \/ (call[c].at = "wait" /\ able[In])
     \/ core = <<"free", In>> /\ req[In] \in Queued(In)
  /\ wild' = TRUE
  /\ UNCHANGED <<ends, requests, able, queue, actual, call, history>>

Next ==
  /\ ~wild
  /\ \/ \E d \in Dirs : \E c \in Threads(d) : Begin(c, d)
     \/ \E c \in Callers :
          \/ WriteFaults(c) \/ Enqueue(c) \/ EnqueueFails(c)
          \/ Wake(c) \/ Interrupt(c) \/ Dequeue(c)
     \/ Disable \/ SetAlt
     \/ \E d \in Dirs :
          \/ HostTransfers(d)
          \/ SkipEp(d) \/ DisableEp(d) \/ ForgetEp(d)
          \/ EnableEp(d) \/ EnableFails(d) \/ ClaimEp(d)
          \/ AllocReq(d) \/ AllocFails(d) \/ SetComplete(d) \/ ShutEp(d)
     \/ FreeReq
     \/ GoesWild

Spec == Init /\ [][Next]_vars
-----------------------------------------------------------------------------
(* g_char_complete takes priv from the endpoint's driver_data: whenever    *)
(* the controller holds a request, of any set_alt so far, the endpoint is  *)
(* enabled and priv is there, but for the moment between lines 260 and 264 *)
(* of set_alt, when a call may queue an earlier request and have it        *)
(* completed (a defect: the completion dereferences NULL).                 *)
CompleteFindsPriv ==
  \A d \in Dirs :
    queue[d] # <<>> => enabled[d] /\ (Completes(d) \/ core = <<"claim", d>>)

(* As long as calls of a direction have not overlapped, a waiting call is  *)
(* never left behind: the controller has its request, or the flag is set,  *)
(* through transfers, signals, disable, and set_alt's replacement of the   *)
(* very request it waits for.                                              *)
NoLostGiveback ==
  \A c \in Callers :
    LET d == call[c].dir
    IN  call[c].at = "wait" /\ ~mixed[d] => call[c].req \in Queued(d) \/ able[d]

(* As long as calls of a direction have not overlapped, a packet crosses   *)
(* the bus only for a call under way (to the host: with the data of that   *)
(* call).  A call that waits to its end returns that packet: never an      *)
(* older one, never 0 bytes although a packet has crossed.  A call that is *)
(* interrupted returns -ERESTARTSYS and loses at most one packet, the one  *)
(* that crossed before usb_ep_dequeue; a call that cannot queue its        *)
(* request loses none.                                                     *)
TransfersExact ==
  [][ \A d \in Dirs : ~mixed[d] =>
        /\ queue'[d] # queue[d] /\ crossed'[d] # crossed[d] =>
             \E c \in Callers :
               /\ InCall(c, d) /\ call[c].at # "queue"
               /\ call[c].req = Head(queue[d])
               /\ d = In => buf[call[c].req] = c
        /\ \A c \in Callers : call[c].dir = d /\ call'[c].at = "idle" =>
             /\ call[c].at = "wait" => Result(c) = IF crossed[d] = 0 THEN "empty" ELSE "new"
             /\ call[c].at = "interrupted" => crossed[d] <= 1
             /\ call[c].at = "queue" => crossed[d] = 0 ]_vars
=============================================================================
