------------------------------- MODULE GbFabric -------------------------------
(***************************************************************************)
(* The network fabric: one host process (greenboost_netc.c) keeps blocks on *)
(* one feeder (greenboost_netd.c).  The threads of the host call the        *)
(* gb_netc_* functions, the heartbeat thread closes a dead connection and   *)
(* connects again, and everything on a connection is done under per_lock.   *)
(* The feeder is one thread: it serves a message at a time, and frees the   *)
(* blocks of a client whose connection has gone.                            *)
(*                                                                          *)
(* A connection is TCP: in order, and what is under way is lost with it.    *)
(* Connections are numbered as feeder_id is.  Opening one (connect_feeder:  *)
(* connect, authentication, handshake, first MEM_INFO, all under per_lock)  *)
(* is one step.  Sizes are left out: a block holds one value.               *)
(***************************************************************************)
EXTENDS Integers, FiniteSets, Sequences, Functions

CONSTANTS
  Threads,     \* the application's threads
  Does,        \* what each of them calls
  Hb,          \* the heartbeat thread
  NoOne,
  NumSlots,    \* NETC_MAX_ALLOCS (131072 in the code)
  Ptrs,        \* fake pointers
  NoPtr,
  Copied,      \* what gb_netc_memcpy_h2d copies
  Filled,      \* what gb_netc_memset fills with
  Junk,        \* what a new block holds
  Cap,         \* blocks the feeder has memory for
  MaxHandle,   \* bound: blocks ever allocated
  MaxConn,     \* bound: connections ever opened; the last one is not lost
  MaxNotes,    \* bound: messages without a response on their way at a time
  CudaFails,   \* a copy may fail on the feeder's GPU
  Careless     \* kernels are launched on a pointer that is being freed

ASSUME FabricAssumption ==
  /\ IsFiniteSet(Threads) /\ NumSlots \in Nat /\ Cap \in Nat /\ MaxHandle \in Nat /\ MaxConn \in Nat
  /\ Hb \notin Threads /\ NoOne \notin Threads \cup {Hb} /\ NoPtr \notin Ptrs
  /\ Junk \notin Copied \cup Filled /\ CudaFails \in BOOLEAN /\ Careless \in BOOLEAN

VARIABLES
  link,      \* nf->fd of the host: the number of its connection, 0 when closed
  lock,      \* who holds nf->per_lock
  table,     \* g_allocs; a slot is in use when it has a pointer
  call,      \* where each thread of the host is
  net,       \* "up" or "cut", one per connection opened
  req,       \* messages on their way to the feeder
  resp,      \* responses on their way to the host
  clients,   \* the feeder's active clients
  block,     \* g_remote_allocs: handle -> owner and data
  group,     \* g_alloc_groups: client -> blocks, for the open groups
  handles,   \* g_handle_counter; a restart draws a new salt, so no handle is
             \* used twice
  held,      \* history: pointers the application has -> their thread
  last,      \* history: what the last write that was reported done has written
  lost,      \* history: what was written on connections lost before the response
  orphans    \* history: handles the host has dropped without freeing them

host == <<link, lock, table, call>>
wire == <<net, req, resp>>
feeder == <<clients, block, group, handles>>
history == <<held, last, lost, orphans>>
fabric == <<host, wire, feeder, history>>

Slots == 1 .. NumSlots
Conns == DOMAIN net
Everyone == Threads \cup {Hb}

Idle == [op |-> "idle", step |-> "idle", ptr |-> NoPtr, slot |-> 0, handle |-> 0, val |-> Junk]
At(c, step) == [c EXCEPT !.step = step]
Mapped == {table[s].ptr : s \in Slots} \ {NoPtr}
SlotOf(p) == CHOOSE s \in Slots : table[s].ptr = p
Alive(k) == k # 0 /\ net[k] = "up"

Drop(f, S) == [x \in DOMAIN f \ S |-> f[x]]
Put(f, x, v) == [y \in DOMAIN f \cup {x} |-> IF y = x THEN v ELSE f[y]]

Init ==
  /\ link = 0 /\ lock = NoOne
  /\ table = [s \in Slots |-> [ptr |-> NoPtr, handle |-> 0, refs |-> 0]]
  /\ call = [t \in Everyone |-> Idle]
  /\ net = <<>> /\ req = <<>> /\ resp = <<>>
  /\ clients = {} /\ block = <<>> /\ group = <<>> /\ handles = 0
  /\ held = [p \in Ptrs |-> NoOne] /\ orphans = {}
  /\ last = [p \in Ptrs |-> Junk] /\ lost = [p \in Ptrs |-> {}]

-----------------------------------------------------------------------------
(* Calls that the application starts. *)

\* What a call does before it waits for per_lock: it finds the slot of its
\* pointer under g_alloc_lock and keeps what it needs of it.
Starts(t, op, step, p, v) ==
  /\ call[t] = Idle /\ op \in Does[t]
  /\ call' = [call EXCEPT ![t] =
       [op |-> op, step |-> step, ptr |-> p, val |-> v,
        slot |-> IF p = NoPtr THEN 0 ELSE SlotOf(p),
        handle |-> IF p = NoPtr THEN 0 ELSE table[SlotOf(p)].handle]]

\* Requests without a pointer: gb_netc_malloc and gb_netc_malloc_tier, and the
\* messages that have no response (gb_netc_register_kernel,
\* gb_netc_send_block_events).  nf->connected is read without a lock.
Request(t) ==
  /\ link # 0
  /\ \E op \in {"malloc", "malloc_tier", "note"} : Starts(t, op, "send", NoPtr, Junk)
  /\ UNCHANGED <<link, lock, table, wire, feeder, history>>

MemInfo(t) ==
  /\ Starts(t, "mem_info", "send", NoPtr, Junk)
  /\ UNCHANGED <<link, lock, table, wire, feeder, history>>

\* gb_netc_memcpy_h2d, gb_netc_memset and gb_netc_memcpy_d2h, by the thread that
\* has the pointer.
Copy(t) ==
  /\ link # 0
  /\ \E p \in Ptrs :
       /\ held[p] = t
       /\ \/ \E v \in Copied : Starts(t, "h2d", "send", p, v)
          \/ \E v \in Filled : Starts(t, "memset", "send", p, v)
          \/ Starts(t, "d2h", "send", p, Junk)
  /\ UNCHANGED <<link, lock, table, wire, feeder, history>>

\* A kernel launch pins its argument (gb_netc_get_alloc_info) and sends EXEC; any
\* thread may launch.
Launch(t) ==
  /\ \E p \in Ptrs :
       /\ p \in Mapped /\ (Careless \/ held[p] # NoOne)
       /\ Starts(t, "exec", "send", p, Junk)
       /\ table' = [table EXCEPT ![SlotOf(p)].refs = @ + 1]
  /\ UNCHANGED <<link, lock, wire, feeder, history>>

Free(t) ==
  /\ \E p \in Ptrs :
       /\ held[p] = t
       /\ Starts(t, "free", "spin", p, Junk)
       /\ held' = [held EXCEPT ![p] = NoOne]
       /\ last' = [last EXCEPT ![p] = Junk] /\ lost' = [lost EXCEPT ![p] = {}]
  /\ UNCHANGED <<link, lock, table, wire, feeder, orphans>>

-----------------------------------------------------------------------------
(* gb_netc_free, before its message. *)

\* Faulty: the slot is given up although a launch pins it.
UnpinnedAtOnce(s) == TRUE

Unpinned(s) == table[s].refs = 0

\* The loop that waits for the launches ends; the slot is still in use.
Spun(t) ==
  /\ call[t].step = "spin" /\ Unpinned(call[t].slot)
  /\ call' = [call EXCEPT ![t].step = "unuse"]
  /\ UNCHANGED <<link, lock, table, wire, feeder, history>>

\* in_use = 0, and no message when the host is not connected.
Unuse(t) ==
  /\ call[t].step = "unuse"
  /\ table' = [table EXCEPT ![call[t].slot].ptr = NoPtr, ![call[t].slot].handle = 0]
  /\ call' = [call EXCEPT ![t] = IF link = 0 THEN Idle ELSE At(@, "send")]
  /\ UNCHANGED <<link, lock, wire, feeder, history>>

-----------------------------------------------------------------------------
(* One request and its response, under per_lock. *)

Message(t) ==
  [op |-> CASE call[t].op = "malloc_tier" -> "malloc"
            [] call[t].op = "undo" -> "free"
            [] OTHER -> call[t].op,
   of |-> t, handle |-> call[t].handle, val |-> call[t].val]

\* What a thread does next when the connection has failed it: mem_info tries
\* twice (its slot counts), a launch lets go of its pin.
GivenUp(c) ==
  CASE c.op = "exec" -> At(c, "release")
    [] c.op = "mem_info" /\ c.slot = 0 -> [c EXCEPT !.step = "send", !.slot = 1]
    [] OTHER -> Idle

\* Faulty: a failed request leaves the dead socket open.
ClosesNever(c) == FALSE

\* Only the heartbeat and mem_info close the socket that failed them.
Closes(c) == c.op \in {"beat", "mem_info"}

Failed(t) ==
  /\ call' = [call EXCEPT ![t] = GivenUp(@)]
  /\ IF Closes(call[t]) /\ link # 0
     THEN /\ link' = 0
          /\ net' = [net EXCEPT ![link] = "cut"]
     ELSE UNCHANGED <<link, net>>

Send(t) ==
  /\ call[t].step = "send" /\ lock = NoOne /\ Alive(link)
  /\ call[t].op = "note" => Len(req[link]) < MaxNotes
  /\ req' = [req EXCEPT ![link] = Append(@, Message(t))]
  /\ IF call[t].op = "note"
     THEN call' = [call EXCEPT ![t] = Idle] /\ UNCHANGED lock
     ELSE call' = [call EXCEPT ![t].step = "recv"] /\ lock' = t
  /\ UNCHANGED <<link, table, net, resp, feeder, history>>

SendFails(t) ==
  /\ call[t].step = "send" /\ lock = NoOne /\ ~Alive(link)
  /\ ~(call[t].op = "mem_info" /\ link = 0)
  /\ Failed(t)
  /\ UNCHANGED <<lock, table, req, resp, feeder, history>>

\* netc_recv_response.  A copy to the feeder succeeds whatever the response says,
\* a memset when it says so.
Recv(t) ==
  /\ call[t].step = "recv" /\ lock = t /\ resp[link] # <<>>
  /\ LET r == Head(resp[link])
         c == call[t]
     IN  /\ call' = [call EXCEPT ![t] =
              CASE c.op \in {"malloc", "malloc_tier"} /\ r.ok ->
                     [c EXCEPT !.step = "insert", !.handle = r.handle]
                [] c.op = "exec" -> At(c, "release")
                [] OTHER -> Idle]
         /\ last' = IF c.op = "h2d" \/ (c.op = "memset" /\ r.ok)
                    THEN [last EXCEPT ![c.ptr] = c.val] ELSE last
  /\ resp' = [resp EXCEPT ![link] = Tail(@)]
  /\ lock' = NoOne
  /\ UNCHANGED <<link, table, net, req, feeder, held, lost, orphans>>

\* The connection has gone; what was sent may have been done.
RecvFails(t) ==
  /\ call[t].step = "recv" /\ lock = t /\ resp[link] = <<>> /\ net[link] = "cut"
  /\ Failed(t)
  /\ lost' = IF call[t].op \in {"h2d", "memset"}
             THEN [lost EXCEPT ![call[t].ptr] = @ \cup {call[t].val}] ELSE lost
  /\ lock' = NoOne
  /\ UNCHANGED <<table, req, resp, feeder, held, last, orphans>>

\* gb_netc_malloc gives a block back that finds no slot; gb_netc_malloc_tier does
\* not, and neither does when the range of fake pointers has no hole of the size.
Insert(t) ==
  /\ call[t].step = "insert"
  /\ LET c == call[t]
         unused == {s \in Slots : table[s].ptr = NoPtr}
     IN  \/ /\ unused = {} /\ c.op = "malloc"
            /\ call' = [call EXCEPT ![t].op = "undo", ![t].step = "send"]
            /\ UNCHANGED <<table, history>>
         \/ /\ unused # {} \/ c.op = "malloc_tier"
            /\ orphans' = orphans \cup ({c.handle} \cap DOMAIN block)
            /\ call' = [call EXCEPT ![t] = Idle]
            /\ UNCHANGED <<table, held, last, lost>>
         \/ \E s \in unused, p \in Ptrs \ Mapped :
              /\ \A u \in unused : s <= u
              /\ table' = [table EXCEPT ![s].ptr = p, ![s].handle = c.handle]
              /\ held' = [held EXCEPT ![p] = t]
              /\ last' = [last EXCEPT ![p] = Junk] /\ lost' = [lost EXCEPT ![p] = {}]
              /\ call' = [call EXCEPT ![t] = Idle]
              /\ UNCHANGED orphans
  /\ UNCHANGED <<link, lock, wire, feeder>>

\* gb_netc_alloc_release_ref finds the slot by the pointer, if one still has it.
Release(t) ==
  /\ call[t].step = "release"
  /\ table' = IF call[t].ptr \in Mapped
              THEN [table EXCEPT ![SlotOf(call[t].ptr)].refs = @ - 1] ELSE table
  /\ call' = [call EXCEPT ![t] = Idle]
  /\ UNCHANGED <<link, lock, wire, feeder, history>>

-----------------------------------------------------------------------------
(* Connecting. *)

Opened(first) ==
  /\ Len(net) < MaxConn
  /\ link' = Len(net) + 1
  /\ net' = Append(net, "up")
  /\ req' = Append(req, first)
  /\ resp' = Append(resp, <<>>)
  /\ clients' = clients \cup {Len(net) + 1}
  /\ UNCHANGED <<block, group, handles>>

\* The heartbeat thread (N8) and gb_netc_ensure_connected, both by trylock.
Reconnect ==
  /\ link = 0 /\ lock = NoOne
  /\ Opened(<<>>)
  /\ UNCHANGED <<lock, table, call, history>>

\* netc_mem_info_request connects itself, and keeps the lock; or it cannot.
MemInfoConnects(t) ==
  /\ call[t].op = "mem_info" /\ call[t].step = "send" /\ link = 0 /\ lock = NoOne
  /\ \/ /\ Opened(<<Message(t)>>)
        /\ call' = [call EXCEPT ![t].step = "recv"]
        /\ lock' = t
     \/ /\ call' = [call EXCEPT ![t] = Idle]
        /\ UNCHANGED <<link, lock, wire, feeder>>
  /\ UNCHANGED <<table, history>>

\* gb_netc_poll_health: a heartbeat, if nobody has the lock.
Beat ==
  /\ call[Hb] = Idle /\ link # 0 /\ lock = NoOne
  /\ LET c == [Idle EXCEPT !.op = "beat", !.step = "recv"]
     IN  IF net[link] = "up"
         THEN /\ req' = [req EXCEPT ![link] =
                   Append(@, [op |-> "beat", of |-> Hb, handle |-> 0, val |-> Junk])]
              /\ call' = [call EXCEPT ![Hb] = c]
              /\ lock' = Hb
              /\ UNCHANGED <<link, net>>
         ELSE /\ link' = IF Closes(c) THEN 0 ELSE link
              /\ UNCHANGED <<lock, call, net, req>>
  /\ UNCHANGED <<table, resp, feeder, history>>

-----------------------------------------------------------------------------
(* The feeder. *)

Answered(m) == m.op # "note"

\* dispatch_message has taken m; what it answers a lost connection is lost.
Served(k, m, ok, h, v) ==
  /\ req' = [req EXCEPT ![k] = Tail(@)]
  /\ resp' = IF net[k] = "up" /\ Answered(m)
             THEN [resp EXCEPT ![k] = Append(@, [of |-> m.of, ok |-> ok, handle |-> h, val |-> v])]
             ELSE resp
  /\ UNCHANGED <<host, net, clients, history>>

Next1(k) == Head(req[k])
Has(k, ops) == k \in clients /\ req[k] # <<>> /\ Next1(k).op \in ops

\* Faulty: a handle is given again once its block is gone.
HandleAgain == CHOOSE h \in 1 .. MaxHandle :
                    h \notin DOMAIN block /\ \A g \in 1 .. h - 1 : g \in DOMAIN block

Handle == handles + 1

\* handle_cuda_malloc; refused when it is draining, throttled or out of memory.
CudaMalloc(k) ==
  /\ Has(k, {"malloc"})
  /\ \/ /\ Cardinality(DOMAIN block) < Cap /\ handles < MaxHandle
        /\ handles' = handles + 1
        /\ block' = Put(block, Handle, [owner |-> k, data |-> Junk])
        /\ group' = Put(group, k, IF k \in DOMAIN group THEN group[k] + 1 ELSE 1)
        /\ Served(k, Next1(k), TRUE, Handle, Junk)
     \/ Served(k, Next1(k), FALSE, 0, Junk) /\ UNCHANGED <<block, group, handles>>

\* handle_cuda_memcpy_h2d, handle_cuda_memset: a handle is found whoever owns it.
CudaWrite(k) ==
  /\ Has(k, {"h2d", "memset"})
  /\ LET m == Next1(k)
     IN  \/ /\ m.handle \in DOMAIN block
            /\ block' = [block EXCEPT ![m.handle].data = m.val]
            /\ Served(k, m, TRUE, 0, Junk)
         \/ /\ m.handle \notin DOMAIN block \/ CudaFails
            /\ Served(k, m, FALSE, 0, Junk) /\ UNCHANGED block
  /\ UNCHANGED <<group, handles>>

\* handle_cuda_memcpy_d2h, handle_cuda_exec.
CudaRead(k) ==
  /\ Has(k, {"d2h", "exec"})
  /\ LET m == Next1(k)
         known == m.handle \in DOMAIN block
     IN  Served(k, m, known, 0, IF known THEN block[m.handle].data ELSE Junk)
  /\ UNCHANGED <<block, group, handles>>

CudaFree(k) ==
  /\ Has(k, {"free"})
  /\ LET m == Next1(k)
     IN  IF m.handle \in DOMAIN block
         THEN /\ block' = Drop(block, {m.handle})
              /\ group' = [group EXCEPT ![block[m.handle].owner] = @ - 1]
              /\ Served(k, m, TRUE, 0, Junk)
         ELSE Served(k, m, FALSE, 0, Junk) /\ UNCHANGED <<block, group>>
  /\ UNCHANGED handles

\* handle_heartbeat, handle_mem_info, and the messages without a response.
Other(k) ==
  /\ Has(k, {"beat", "mem_info", "note"})
  /\ Served(k, Next1(k), TRUE, 0, Junk)
  /\ UNCHANGED <<block, group, handles>>

Swept(k) == {h \in DOMAIN block : block[h].owner = k}

\* client_cleanup, when the connection has gone or by the heartbeat sweep, which
\* a handler that takes long can make hit a client that is alive.
ClientCleanup(k) ==
  /\ k \in clients /\ (net[k] = "cut" \/ k < MaxConn)
  /\ block' = Drop(block, Swept(k))
  /\ group' = Drop(group, {k})
  /\ clients' = clients \ {k}
  /\ net' = [net EXCEPT ![k] = "cut"]
  /\ req' = [req EXCEPT ![k] = <<>>]
  /\ orphans' = orphans \ Swept(k)
  /\ UNCHANGED <<host, resp, handles, held, last, lost>>

-----------------------------------------------------------------------------
(* Faults. *)

\* A connection is lost, and perhaps the response on it.
Cut(k) ==
  /\ k < MaxConn /\ net[k] = "up"
  /\ net' = [net EXCEPT ![k] = "cut"]
  /\ \/ UNCHANGED resp
     \/ resp' = [resp EXCEPT ![k] = <<>>]
  /\ UNCHANGED <<host, req, feeder, history>>

Restart ==
  /\ clients # {} /\ Len(net) < MaxConn
  /\ clients' = {} /\ block' = <<>> /\ group' = <<>>
  /\ net' = [k \in Conns |-> "cut"]
  /\ req' = [k \in Conns |-> <<>>]
  /\ orphans' = {}
  /\ UNCHANGED <<host, resp, handles, held, last, lost>>

-----------------------------------------------------------------------------
Begin(t) == Request(t) \/ MemInfo(t) \/ Copy(t) \/ Launch(t) \/ Free(t)
Locked(t) == Send(t) \/ SendFails(t) \/ MemInfoConnects(t)
Ends(t) == Recv(t) \/ RecvFails(t)
Goes(t) == Spun(t) \/ Unuse(t) \/ Insert(t) \/ Release(t)
Serve(k) == CudaMalloc(k) \/ CudaWrite(k) \/ CudaRead(k) \/ CudaFree(k) \/ Other(k)

Next ==
  \/ \E t \in Threads : Begin(t) \/ Locked(t) \/ Goes(t)
  \/ \E t \in Everyone : Ends(t)
  \/ Reconnect \/ Beat
  \/ \E k \in Conns : Serve(k) \/ ClientCleanup(k) \/ Cut(k)
  \/ Restart

Spec == Init /\ [][Next]_fabric

\* The lock is left to others again and again (the heartbeat thread sleeps for
\* 2 s), so a thread that waits for it, or a heartbeat that tries it, gets it;
\* the feeder serves what arrives.
Fairness ==
  /\ \A t \in Threads : SF_fabric(Locked(t)) /\ WF_fabric(Goes(t))
  /\ SF_fabric(Beat)
  /\ WF_fabric(Reconnect)
  /\ WF_fabric(\E t \in Everyone : Ends(t))
  /\ \A k \in 1 .. MaxConn : WF_fabric(k \in Conns /\ Serve(k))

FairSpec == Spec /\ Fairness

-----------------------------------------------------------------------------
(* Properties. *)

\* The feeder's accounts: every block has an owner that is connected, and a
\* group counts the blocks of its client.
AccountsExact ==
  /\ \A h \in DOMAIN block : block[h].owner \in clients
  /\ \A k \in clients :
       Cardinality(Swept(k)) = IF k \in DOMAIN group THEN group[k] ELSE 0

\* A thread has the handle of a block that it allocates or frees.
InHand(h) ==
  \/ \E t \in Threads : call[t].handle = h /\ call[t].op \in {"malloc", "malloc_tier", "undo", "free"}
  \/ \E i \in 1 .. Len(resp[link]) : resp[link][i].handle = h

\* While the host is connected, each block that it has on the connection is in
\* its table, in a thread's hands, or one that a failed gb_netc_malloc has left.
NothingLost ==
  Alive(link) =>
    \A h \in DOMAIN block : block[h].owner = link =>
      \/ \E s \in Slots : table[s].ptr # NoPtr /\ table[s].handle = h
      \/ InHand(h)
      \/ h \in orphans

\* A slot is pinned by the launches that are under way, and none of them loses
\* its slot.
PinsExact ==
  /\ \A s \in Slots :
       table[s].refs = Cardinality({t \in Threads : call[t].op = "exec" /\ call[t].slot = s})
  /\ \A t \in Threads : call[t].op = "exec" => table[call[t].slot].ptr = call[t].ptr

\* The one response on the host's connection is to the request of the thread that
\* waits for it: netc_recv_response never looks at what it is an answer to.
RepliesPaired ==
  link # 0 => /\ Len(resp[link]) <= 1
              /\ resp[link] # <<>> => resp[link][1].of = lock

FabricExact == AccountsExact /\ NothingLost /\ PinsExact /\ RepliesPaired

\* gb_netc_memcpy_d2h, when it succeeds, gives the value of the last copy or memset
\* that was reported done, or one whose fate is unknown: it was sent on a connection
\* that was lost before the response, and the feeder may still come to it.
\* Pointers whose connection is gone, the feeder of which has perhaps been started
\* again, are read without getting another block's data.
ReadsTrue ==
  [][\A t \in Threads :
       call[t].op = "d2h" /\ call[t].step = "recv" /\ call'[t] = Idle /\ resp[link] # <<>>
         /\ Head(resp[link]).ok
       => Head(resp[link]).val \in {last[call[t].ptr]} \cup lost[call[t].ptr]]_fabric

\* Every call returns, and the host is connected again after every loss.
Recovers ==
  /\ \A t \in Threads : (call[t] # Idle) ~> (call[t] = Idle)
  /\ []<>Alive(link)
=============================================================================
