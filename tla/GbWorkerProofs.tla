--------------------------- MODULE GbWorkerProofs ---------------------------
(***************************************************************************)
(* Proofs about GbWorker, for every load, pipe depth, pool and order of     *)
(* steps: a live request is in exactly one place, its client gets what it   *)
(* is conditioned on, the engine implements GbRequests, the last stage      *)
(* computes on the page tables of the driver, every page's count is its     *)
(* holders, and what a request reads from a page has been written there for *)
(* its own prefix.                                                          *)
(*                                                                          *)
(* The driver's invariant (DriverInv) names where each request is, and says *)
(* of the pipe that the batches that run are, oldest first, those whose     *)
(* tokens wait, are on their way back, are computed, and are on their way   *)
(* out.  The mirror's (MirrorInv) says what the last stage will have after  *)
(* each of the payloads on its way: after the last of them, the part of     *)
(* each table that the driver remembers to have sent.  That of the pages    *)
(* (PagesInv) is Sound of GbSchedulerProofs between any two calls, when no  *)
(* row is being built.                                                      *)
(***************************************************************************)
EXTENDS GbWorker, GbSchedulerProofs

-----------------------------------------------------------------------------
(* process_output. *)

\* process_output, row after row.
LEMMA OutputRowsLoop ==
  ASSUME NEW start, NEW rows, NEW got, Len(rows) \in Nat
  PROVE  \E f : /\ f[0] = start
                /\ \A n \in 1 .. Len(rows) : f[n] = OutputRow(f[n - 1], rows[n], got[n])
                /\ OutputRows(start, rows, got) = f[Len(rows)]
<1> DEFINE Good(k, f) ==
             f = [n \in 0 .. k |-> IF n = 0 THEN start ELSE OutputRow(f[n - 1], rows[n], got[n])]
           G == {k \in 0 .. Len(rows) : \E f : Good(k, f)}
           c == CHOOSE f : Good(Len(rows), f)
<1>1. Good(0, [n \in 0 .. 0 |-> start])
  OBVIOUS
<1>2. ASSUME NEW m \in 1 .. Len(rows), NEW g, Good(m - 1, g)
      PROVE  Good(m, [n \in 0 .. m |-> IF n = m THEN OutputRow(g[m - 1], rows[m], got[m]) ELSE g[n]])
  <2> DEFINE next == OutputRow(g[m - 1], rows[m], got[m])
             h == [n \in 0 .. m |-> IF n = m THEN next ELSE g[n]]
  <2> HIDE DEF next
  <2>1. \A n \in 0 .. m - 1 : g[n] = IF n = 0 THEN start ELSE OutputRow(g[n - 1], rows[n], got[n])
    BY <1>2
  <2>2. \A n \in 0 .. m - 1 : h[n] = g[n]
    OBVIOUS
  <2>3. \A n \in 0 .. m : h[n] = IF n = 0 THEN start ELSE OutputRow(h[n - 1], rows[n], got[n])
    BY <2>1, <2>2 DEF next
  <2>4. Good(m, h)
    BY <2>3
  <2> QED BY <2>4 DEF next
<1>3. ASSUME Good(Len(rows), c)
      PROVE  /\ c[0] = start
             /\ \A n \in 1 .. Len(rows) : c[n] = OutputRow(c[n - 1], rows[n], got[n])
  <2> HIDE DEF c
  <2> QED BY <1>3
<1>4. OutputRows(start, rows, got) = c[Len(rows)]
  BY DEF OutputRows
<1> HIDE DEF Good, c
<1>5. 0 \in G
  BY <1>1
<1>6. ASSUME NEW m \in 1 .. Len(rows), m - 1 \in G
      PROVE  m \in G
  <2>1. PICK g : Good(m - 1, g)
    BY <1>6 DEF G
  <2>2. m \in 0 .. Len(rows)
    OBVIOUS
  <2> QED BY <1>2, <2>1, <2>2 DEF G
<1> HIDE DEF G
<1>7. \A n \in 0 .. Len(rows) : n \in G
  BY <1>5, <1>6, Induct, Zenon
<1>8. \E f : Good(Len(rows), f)
  BY <1>7 DEF G
<1>9. Good(Len(rows), c)
  BY <1>8 DEF c
<1> QED BY <1>3, <1>4, <1>9

\* r is s after the token t came back for request q, whose batch has left the pipe.
RowAnswered(A, s, r, q, t, W, D, F) ==
  /\ Typed(A, r)
  /\ r.running = s.running /\ r.preempted = s.preempted /\ r.abort = s.abort
  /\ \A x \in Reqs \ {q} : r.obj[x] = s.obj[x]
  /\ r.obj[q].tok = Append(s.obj[q].tok, t)
  /\ r.obj[q].prompt = s.obj[q].prompt /\ r.obj[q].table = s.obj[q].table
  /\ r.obj[q].computed = s.obj[q].computed + s.obj[q].todo
  /\ r.obj[q].computed >= r.obj[q].prompt
  /\ IF Finished(q, r.obj[q])
     THEN Placed(r, W, D, F \ {q}) /\ r.frees = Append(s.frees, q)
     ELSE Placed(r, W, D \cup {q}, F \ {q}) /\ r.frees = s.frees

\* One row of the batch that came back.
LEMMA OutputRowOK ==
  ASSUME NEW A, NEW s, Typed(A, s), NEW W, NEW D, NEW F, Placed(s, W, D, F),
         NEW q \in F, NEW row \in Rows, row.req = q, ~row.part, NEW t \in A
  PROVE  RowAnswered(A, s, OutputRow(s, row, t), q, t, W, D, F)
<1> DEFINE o == s.obj[q]
           p == Sampled(o, t)
           told == [s EXCEPT !.obj[q] = p,
                             !.pool = IF ComputedPrompt(p)
                                      THEN RegisterBoundary(@, p, Len(p.tok)) ELSE @]
           r == OutputRow(s, row, t)
<1>1. /\ q \in Reqs /\ ObjOK(A, o) /\ Flies(o) /\ W \subseteq Reqs /\ D \subseteq Reqs
      /\ F \subseteq Reqs /\ q \notin W /\ q \notin D
  BY ListsIn DEF Placed, Typed
<1>2. /\ p = [o EXCEPT !.computed = o.computed + o.todo, !.tok = Append(o.tok, t)]
      /\ ComputedPrompt(p)
  <2> DEFINE c == [o EXCEPT !.computed = @ + o.todo]
  <2>1. c.computed = o.computed + o.todo /\ c.prompt = o.prompt /\ c.tok = o.tok
    BY <1>1 DEF ObjOK
  <2>2. ComputedPrompt(c)
    BY <1>1, <2>1 DEF ComputedPrompt, Flies, ObjOK
  <2>3. p = [c EXCEPT !.tok = Append(@, t)]
    BY <2>2 DEF Sampled
  <2> HIDE DEF p
  <2>4. p = [o EXCEPT !.computed = o.computed + o.todo, !.tok = Append(o.tok, t)]
    BY <1>1, <2>3 DEF ObjOK
  <2>5. p.computed = c.computed /\ p.prompt = c.prompt
    BY <1>1, <2>1, <2>4 DEF ObjOK
  <2> QED BY <2>2, <2>4, <2>5 DEF ComputedPrompt
<1> HIDE DEF p, o
<1>3. /\ DOMAIN p = {"tok", "prompt", "table", "computed", "todo", "chain"}
      /\ p.tok = Append(o.tok, t) /\ p.prompt = o.prompt /\ p.table = o.table
      /\ p.computed = o.computed + o.todo /\ p.todo = o.todo
  BY <1>1, <1>2 DEF ObjOK
<1>4. /\ p.tok \in Seq(A) /\ Len(p.tok) = Len(o.tok) + 1 /\ Len(o.tok) \in Nat /\ p.tok # <<>>
  BY <1>1, <1>3 DEF ObjOK
<1>5. ObjOK(A, p) /\ Decodes(p) /\ p.computed >= p.prompt
  BY <1>1, <1>3, <1>4 DEF ObjOK, Flies, Decodes
<1> DEFINE pool == RegisterBoundary(s.pool, p, Len(p.tok))
<1>6. PoolOK(pool)
  <2> DEFINE i == Len(p.tok) \div PageSize
  <2>1. CASE Len(p.tok) % PageSize # 0 \/ i > Len(p.table)
    BY <2>1 DEF Typed, RegisterBoundary
  <2>2. CASE ~(Len(p.tok) % PageSize # 0 \/ i > Len(p.table))
    <3>1. PageSize \in Nat \ {0} /\ Len(p.tok) \in Nat \ {0}
      BY <1>4, SchedulerAssumption
    <3>2. i \in Nat \ {0}
      BY <2>2, <3>1, DivPos
    <3>3. i \in 1 .. Len(p.table)
      <4>1. Len(p.table) \in Nat /\ ~(i > Len(p.table))
        BY <1>5, <2>2 DEF ObjOK
      <4> HIDE DEF i
      <4> QED BY <3>2, <4>1
    <3>4. p.table[i] \in Pages
      BY <1>5, <3>3 DEF ObjOK
    <3>5. PoolOK(Register(s.pool, p.table[i], HashOf(p, i)))
      BY <3>4, RegisterOK DEF Typed
    <3> QED BY <2>2, <3>5 DEF RegisterBoundary
  <2> QED BY <2>1, <2>2
<1> HIDE DEF pool
<1>7. told = [s EXCEPT !.obj[q] = p, !.pool = pool]
  BY <1>2 DEF pool
<1>8. r = IF Finished(q, p)
          THEN [GiveBack(told, q) EXCEPT !.frees = Append(@, q)]
          ELSE [told EXCEPT !.decode = <<q>> \o @]
  BY DEF OutputRow, o, p
<1> HIDE DEF told, r
<1>9. /\ DOMAIN told = SchFields /\ told.obj = [s.obj EXCEPT ![q] = p] /\ told.pool = pool
      /\ told.running = s.running /\ told.preempted = s.preempted /\ told.abort = s.abort
      /\ told.frees = s.frees /\ told.jitter = s.jitter /\ told.prefill = s.prefill
      /\ told.decode = s.decode
  BY <1>7 DEF Typed, SchFields
<1>10. told.obj[q] = p /\ DOMAIN told.obj = Reqs /\ \A x \in Reqs \ {q} : told.obj[x] = s.obj[x]
  BY <1>1, <1>9 DEF Typed
<1>11. Typed(A, told)
  BY <1>5, <1>6, <1>9, <1>10 DEF Typed
<1>12. /\ \A x \in W : Waits(told.obj[x])
       /\ \A x \in D : Decodes(told.obj[x])
       /\ \A x \in F \ {q} : Flies(told.obj[x])
  BY <1>1, <1>10 DEF Placed
<1>13. CASE Finished(q, p)
  <2> DEFINE g == GiveBack(told, q)
  <2>1. Typed(A, g) /\ Around(told, g) /\ g.obj = told.obj
    BY <1>1, <1>11, GiveBackOK
  <2> HIDE DEF g
  <2>2. r = [g EXCEPT !.frees = Append(@, q)]
    BY <1>8, <1>13 DEF g
  <2>3. /\ DOMAIN r = SchFields /\ r.obj = told.obj /\ r.pool = g.pool
        /\ r.running = s.running /\ r.preempted = s.preempted /\ r.abort = s.abort
        /\ r.frees = Append(s.frees, q) /\ r.jitter = s.jitter /\ r.prefill = s.prefill
        /\ r.decode = s.decode
    BY <1>9, <2>1, <2>2 DEF Typed, SchFields, Around
  <2>4. r.frees \in Seq(Reqs)
    BY <1>1, <2>3 DEF Typed
  <2>5. Typed(A, r)
    BY <2>1, <2>3, <2>4, <1>11 DEF Typed
  <2>6. Placed(r, W, D, F \ {q})
    <3>1. Lists(r.prefill, W) /\ Lists(r.decode, D)
      BY <2>3 DEF Placed
    <3> QED BY <1>1, <1>12, <2>3, <3>1 DEF Placed
  <2>7. RowAnswered(A, s, r, q, t, W, D, F)
    BY <1>3, <1>5, <1>10, <1>13, <2>3, <2>5, <2>6 DEF RowAnswered, o
  <2> QED BY <2>7 DEF r
<1>14. CASE ~Finished(q, p)
  <2>1. r = [told EXCEPT !.decode = <<q>> \o @]
    BY <1>8, <1>14
  <2>2. /\ DOMAIN r = SchFields /\ r.obj = told.obj /\ r.pool = told.pool
        /\ r.running = s.running /\ r.preempted = s.preempted /\ r.abort = s.abort
        /\ r.frees = s.frees /\ r.jitter = s.jitter /\ r.prefill = s.prefill
        /\ r.decode = <<q>> \o s.decode
    BY <1>9, <2>1 DEF SchFields
  <2>3. Typed(A, r)
    BY <2>2, <1>11, <1>9 DEF Typed
  <2>4. Lists(r.decode, D \cup {q})
    BY <1>1, <2>2, ListsPrepend DEF Placed
  <2>5. Placed(r, W, D \cup {q}, F \ {q})
    <3>1. Lists(r.prefill, W)
      BY <2>2 DEF Placed
    <3>2. \A x \in D \cup {q} : Decodes(r.obj[x])
      BY <1>5, <1>10, <1>12, <2>2
    <3>3. /\ \A x \in W : Waits(r.obj[x])
          /\ \A x \in F \ {q} : Flies(r.obj[x])
      BY <1>12, <2>2
    <3>4. /\ W \cap (D \cup {q}) = {} /\ W \cap (F \ {q}) = {} /\ (D \cup {q}) \cap (F \ {q}) = {}
          /\ F \ {q} \subseteq Reqs
      BY <1>1 DEF Placed
    <3> QED BY <2>4, <3>1, <3>2, <3>3, <3>4 DEF Placed
  <2>7. RowAnswered(A, s, r, q, t, W, D, F)
    BY <1>3, <1>5, <1>10, <1>14, <2>2, <2>3, <2>5 DEF RowAnswered, o
  <2> QED BY <2>7 DEF r
<1> QED BY <1>13, <1>14

Read(rows, n) == {rows[i].req : i \in {j \in 1 .. n : ~rows[j].part}}

\* r is s after the first n rows of a batch came back, with the tokens of got; the
\* requests of E ended.
Answered(A, s, r, rows, got, n, W, D, F, E) ==
  LET T == Read(rows, n)
  IN  /\ E \subseteq T
      /\ Typed(A, r) /\ Placed(r, W, D \cup (T \ E), F \ T)
      /\ r.running = s.running /\ r.preempted = s.preempted /\ r.abort = s.abort
      /\ \A x \in Reqs \ T : r.obj[x] = s.obj[x]
      /\ \A i \in 1 .. n : ~rows[i].part =>
           LET o == s.obj[rows[i].req]
               p == r.obj[rows[i].req]
           IN  /\ p.tok = Append(o.tok, got[i])
               /\ p.prompt = o.prompt /\ p.table = o.table
               /\ p.computed = o.computed + o.todo /\ p.computed >= p.prompt
      /\ \A q \in T : q \in E <=> Finished(q, r.obj[q])
      /\ \A q : q \in Range(r.frees) <=> q \in Range(s.frees) \/ q \in E

LEMMA ReadNext ==
  ASSUME NEW rows, NEW n \in Nat \ {0}
  PROVE  Read(rows, n) = IF rows[n].part THEN Read(rows, n - 1)
                         ELSE Read(rows, n - 1) \cup {rows[n].req}
<1>1. \A i \in 1 .. n : i \in 1 .. n - 1 \/ i = n
  OBVIOUS
<1>2. \A i \in 1 .. n - 1 : i \in 1 .. n
  OBVIOUS
<1>3. n \in 1 .. n
  OBVIOUS
<1> DEFINE J(m) == {j \in 1 .. m : ~rows[j].part}
<1>4. CASE rows[n].part
  <2>1. J(n) = J(n - 1)
    BY <1>1, <1>2, <1>4
  <2> HIDE DEF J
  <2>2. {rows[i].req : i \in J(n)} = {rows[i].req : i \in J(n - 1)}
    BY <2>1
  <2> QED BY <1>4, <2>2 DEF Read, J
<1>5. CASE ~rows[n].part
  <2>1. J(n) = J(n - 1) \cup {n}
    BY <1>1, <1>2, <1>3, <1>5
  <2> HIDE DEF J
  <2>2. {rows[i].req : i \in J(n)} = {rows[i].req : i \in J(n - 1)} \cup {rows[n].req}
    BY <2>1
  <2> QED BY <1>5, <2>2 DEF Read, J
<1> QED BY <1>4, <1>5

LEMMA ReadIn ==
  ASSUME NEW rows \in Seq(Rows), NEW n \in 0 .. Len(rows)
  PROVE  Read(rows, n) \subseteq Reqs
<1>1. \A i \in 1 .. n : rows[i] \in Rows
  OBVIOUS
<1> QED BY <1>1 DEF Read, Rows

LEMMA AnsweredNext ==
  ASSUME NEW A, NEW s, Typed(A, s), NEW W, NEW D, NEW F, Placed(s, W, D, F),
         NEW rows \in Seq(Rows), NEW got, NEW n \in 1 .. Len(rows), NEW u, NEW E,
         Answered(A, s, u, rows, got, n - 1, W, D, F, E),
         ~rows[n].part => /\ rows[n].req \in F /\ got[n] \in A
                          /\ rows[n].req \notin Read(rows, n - 1)
  PROVE  \E E2 : Answered(A, s, OutputRow(u, rows[n], got[n]), rows, got, n, W, D, F, E2)
<1> DEFINE q == rows[n].req
           t == got[n]
           r == OutputRow(u, rows[n], t)
           Y == Read(rows, n - 1)
           T == Read(rows, n)
<1>1. /\ n \in Nat \ {0} /\ rows[n] \in Rows
      /\ \A i \in 1 .. n : i \in 1 .. n - 1 \/ i = n
  OBVIOUS
<1>2. T = IF rows[n].part THEN Y ELSE Y \cup {q}
  BY <1>1, ReadNext
<1>3. /\ E \subseteq Y
      /\ Typed(A, u) /\ Placed(u, W, D \cup (Y \ E), F \ Y)
      /\ u.running = s.running /\ u.preempted = s.preempted /\ u.abort = s.abort
      /\ \A x \in Reqs \ Y : u.obj[x] = s.obj[x]
      /\ \A x \in Y : x \in E <=> Finished(x, u.obj[x])
      /\ \A x : x \in Range(u.frees) <=> x \in Range(s.frees) \/ x \in E
  BY DEF Answered
<1>4. \A i \in 1 .. n - 1 : ~rows[i].part =>
           LET o == s.obj[rows[i].req]
               p == u.obj[rows[i].req]
           IN  /\ p.tok = Append(o.tok, got[i])
               /\ p.prompt = o.prompt /\ p.table = o.table
               /\ p.computed = o.computed + o.todo /\ p.computed >= p.prompt
  BY DEF Answered
<1>5. CASE rows[n].part
  <2>1. r = u
    BY <1>5 DEF OutputRow
  <2>2. T = Y
    BY <1>2, <1>5
  <2>3. \A i \in 1 .. n : ~rows[i].part => i \in 1 .. n - 1
    BY <1>1, <1>5
  <2> HIDE DEF r, Y, T
  <2>4. Answered(A, s, u, rows, got, n, W, D, F, E)
    <3>1. \A i \in 1 .. n : ~rows[i].part =>
           LET o == s.obj[rows[i].req]
               p == u.obj[rows[i].req]
           IN  /\ p.tok = Append(o.tok, got[i])
               /\ p.prompt = o.prompt /\ p.table = o.table
               /\ p.computed = o.computed + o.todo /\ p.computed >= p.prompt
      BY <1>4, <2>3
    <3>2. Read(rows, n) = Y
      BY <2>2 DEF T
    <3> QED BY <1>3, <3>1, <3>2 DEF Answered
  <2> QED BY <2>1, <2>4 DEF r
<1>6. CASE ~rows[n].part
  <2>1. T = Y \cup {q} /\ q \in F \ Y /\ t \in A
    BY <1>2, <1>6
  <2> DEFINE D2 == D \cup (Y \ E)
             F2 == F \ Y
  <2> HIDE DEF q, t, r, Y, T
  <2>2. /\ Typed(A, r)
        /\ r.running = u.running /\ r.preempted = u.preempted /\ r.abort = u.abort
        /\ \A x \in Reqs \ {q} : r.obj[x] = u.obj[x]
        /\ r.obj[q].tok = Append(u.obj[q].tok, t)
        /\ r.obj[q].prompt = u.obj[q].prompt /\ r.obj[q].table = u.obj[q].table
        /\ r.obj[q].computed = u.obj[q].computed + u.obj[q].todo
        /\ r.obj[q].computed >= r.obj[q].prompt
        /\ Finished(q, r.obj[q]) =>
             Placed(r, W, D2, F2 \ {q}) /\ r.frees = Append(u.frees, q)
        /\ ~Finished(q, r.obj[q]) =>
             Placed(r, W, D2 \cup {q}, F2 \ {q}) /\ r.frees = u.frees
    <3>1. rows[n].req = q /\ q \in F2
      BY <2>1 DEF q
    <3>2. r = OutputRow(u, rows[n], t)
      BY DEF r
    <3>3. Typed(A, u) /\ Placed(u, W, D2, F2)
      BY <1>3
    <3> DEFINE row == rows[n]
    <3>4. row \in Rows /\ ~row.part /\ row.req = q /\ r = OutputRow(u, row, t)
      BY <1>1, <1>6, <3>1, <3>2
    <3> HIDE DEF D2, F2, row
    <3>5. RowAnswered(A, u, r, q, t, W, D2, F2)
      BY <2>1, <3>1, <3>3, <3>4, OutputRowOK
    <3> QED BY <3>5 DEF RowAnswered
  <2> DEFINE E2 == IF Finished(q, r.obj[q]) THEN E \cup {q} ELSE E
  <2>3. q \in Reqs /\ u.frees \in Seq(Reqs) /\ F \subseteq Reqs
    BY <2>1, <1>3 DEF Placed, Typed
  <2>4. Range(r.frees) = IF Finished(q, r.obj[q]) THEN Range(u.frees) \cup {q} ELSE Range(u.frees)
    BY <2>2, <2>3, RangeAppend
  <2>5. \A x : x \in Range(r.frees) <=> x \in Range(s.frees) \/ x \in E2
    BY <1>3, <2>4
  <2>6. E2 \subseteq T
    BY <1>3, <2>1
  <2>7. F2 \ {q} = F \ T
    BY <2>1
  <2>8. IF Finished(q, r.obj[q]) THEN D2 = D \cup (T \ E2) ELSE D2 \cup {q} = D \cup (T \ E2)
    BY <1>3, <2>1
  <2>9. Placed(r, W, D \cup (T \ E2), F \ T)
    <3> HIDE DEF E2, D2, F2
    <3> QED BY <2>2, <2>7, <2>8
  <2>10. \A x \in Reqs \ T : r.obj[x] = s.obj[x]
    BY <1>3, <2>1, <2>2
  <2>11. \A x \in T : x \in E2 <=> Finished(x, r.obj[x])
    <3>1. TAKE x \in T
    <3>2. CASE x = q
      <4>1. q \notin E
        BY <1>3, <2>1
      <4> QED BY <3>2, <4>1
    <3>3. CASE x # q
      <4>1. x \in Y /\ x \in Reqs
        BY <2>1, <3>3, ReadIn DEF Y
      <4>2. r.obj[x] = u.obj[x]
        BY <2>2, <3>3, <4>1
      <4> QED BY <1>3, <3>3, <4>1, <4>2
    <3> QED BY <3>2, <3>3
  <2>12. ASSUME NEW i \in 1 .. n, ~rows[i].part
         PROVE  LET o == s.obj[rows[i].req]
                    p == r.obj[rows[i].req]
                IN  /\ p.tok = Append(o.tok, got[i])
                    /\ p.prompt = o.prompt /\ p.table = o.table
                    /\ p.computed = o.computed + o.todo /\ p.computed >= p.prompt
    <3>1. CASE i = n
      <4>1. rows[i].req = q /\ got[i] = t
        BY <3>1 DEF q, t
      <4>2. u.obj[q] = s.obj[q]
        BY <1>3, <2>1, <2>3
      <4> QED BY <2>2, <4>1, <4>2
    <3>2. CASE i \in 1 .. n - 1
      <4>1. rows[i].req \in Y
        BY <2>12, <3>2 DEF Y, Read
      <4>2. rows[i].req \in Reqs
        <5>1. rows[i] \in Rows
          OBVIOUS
        <5> QED BY <5>1 DEF Rows
      <4>3. r.obj[rows[i].req] = u.obj[rows[i].req]
        BY <2>1, <2>2, <4>1, <4>2
      <4> QED BY <1>4, <2>12, <3>2, <4>3
    <3> QED BY <1>1, <3>1, <3>2
  <2>13. r.running = s.running /\ r.preempted = s.preempted /\ r.abort = s.abort
    BY <1>3, <2>2
  <2> HIDE DEF E2
  <2>14. Answered(A, s, r, rows, got, n, W, D, F, E2)
    BY <2>2, <2>5, <2>6, <2>9, <2>10, <2>11, <2>12, <2>13 DEF Answered, T
  <2> QED BY <2>14 DEF r, t
<1> QED BY <1>5, <1>6

\* process_output, as a whole.
LEMMA OutputRowsOK ==
  ASSUME NEW A, NEW s, Typed(A, s), NEW W, NEW D, NEW F, Placed(s, W, D, F),
         NEW rows \in Seq(Rows), NEW got,
         Read(rows, Len(rows)) \subseteq F,
         \A i, j \in 1 .. Len(rows) :
           ~rows[i].part /\ ~rows[j].part /\ rows[i].req = rows[j].req => i = j,
         \A i \in 1 .. Len(rows) : got[i] \in A
  PROVE  \E E : Answered(A, s, OutputRows(s, rows, got), rows, got, Len(rows), W, D, F, E)
<1> DEFINE N == Len(rows)
<1>1. N \in Nat
  OBVIOUS
<1>2. PICK f : /\ f[0] = s
               /\ \A n \in 1 .. N : f[n] = OutputRow(f[n - 1], rows[n], got[n])
               /\ OutputRows(s, rows, got) = f[N]
  BY <1>1, OutputRowsLoop
<1> DEFINE OK(n) == \E E : Answered(A, s, f[n], rows, got, n, W, D, F, E)
           G == {n \in 0 .. N : OK(n)}
<1>3. OK(0)
  <2>1. Read(rows, 0) = {}
    BY DEF Read
  <2>2. D \cup ({} \ {}) = D /\ F \ {} = F
    OBVIOUS
  <2>3. Placed(s, W, D \cup ({} \ {}), F \ {})
    BY <2>2
  <2>4. Answered(A, s, s, rows, got, 0, W, D, F, {})
    <3> DEFINE T == Read(rows, 0)
    <3>1. T = {}
      BY <2>1
    <3>2. \A i \in 1 .. 0 : FALSE
      OBVIOUS
    <3> HIDE DEF T
    <3>3. /\ {} \subseteq T /\ Placed(s, W, D \cup (T \ {}), F \ T)
          /\ \A x \in T : x \in {} <=> Finished(x, s.obj[x])
      BY <2>3, <3>1
    <3> QED BY <3>2, <3>3 DEF Answered, T
  <2> QED BY <1>2, <2>4
<1>4. ASSUME NEW n \in 1 .. N, OK(n - 1) PROVE OK(n)
  <2>1. PICK E : Answered(A, s, f[n - 1], rows, got, n - 1, W, D, F, E)
    BY <1>4
  <2>2. ~rows[n].part => /\ rows[n].req \in F /\ got[n] \in A
                         /\ rows[n].req \notin Read(rows, n - 1)
    <3>1. \A i \in 1 .. n - 1 : i \in 1 .. N /\ i # n
      BY <1>1
    <3>2. ~rows[n].part => rows[n].req \in F
      BY DEF Read
    <3>3. ~rows[n].part => rows[n].req \notin Read(rows, n - 1)
      BY <3>1 DEF Read
    <3> QED BY <3>2, <3>3
  <2>3. \E E2 : Answered(A, s, OutputRow(f[n - 1], rows[n], got[n]), rows, got, n, W, D, F, E2)
    BY <2>1, <2>2, AnsweredNext
  <2> QED BY <1>2, <2>3
<1> HIDE DEF OK
<1>5. 0 \in G
  BY <1>1, <1>3
<1>6. ASSUME NEW n \in 1 .. N, n - 1 \in G PROVE n \in G
  BY <1>4, <1>6
<1> HIDE DEF G
<1>7. \A n \in 0 .. N : n \in G
  BY <1>1, <1>5, <1>6, Induct, Zenon
<1>8. OK(N)
  BY <1>1, <1>7 DEF G
<1> QED BY <1>2, <1>8 DEF OK

-----------------------------------------------------------------------------
(* The driver's half of the invariant. *)

Alphabet == Tokens \cup UNION {Range(Prompt[q]) : q \in Reqs}

Fates == {"new", "live", "finished", "aborted"}

\* Where the live requests are: W wait, D decode, F are in the pipe.
Driving(W, D, F) ==
  /\ Typed(Alphabet, sch) /\ Placed(sch, W, D, F)
  /\ RunsOK(sch.running, F) /\ Len(sch.running) <= PP
  /\ fate \in [Reqs -> Fates]
  /\ W \cup D \cup F = {q \in Reqs : fate[q] = "live"}

\* Tokens and answers.
Answering ==
  /\ out \in [Reqs -> Seq(Tokens)]
  /\ \A q \in Reqs : /\ sch.obj[q].tok = Prompt[q] \o out[q]
                     /\ sch.obj[q].prompt >= Len(Prompt[q])
                     /\ fate[q] = "live" => Len(out[q]) < OutLen[q]
                     /\ fate[q] = "new" => out[q] = <<>> /\ sch.obj[q].computed = 0
  /\ \A q \in Range(sch.frees) : fate[q] \in {"finished", "aborted"}

\* The elements of s are as long as the batches of runs after the first n.
Aligned(runs, n, s) ==
  IsSeq(s) /\ \A k \in 1 .. Len(s) : IsSeq(s[k]) /\ Len(s[k]) = Len(runs[n + k])

Updates(w) == [i \in DOMAIN w |-> w[i].updates]

\* What is in the pipe, from its end to its start.
Piped ==
  /\ results \in Seq(Seq(Tokens)) /\ tokens \in Seq(Seq(Tokens))
  /\ IsSeq(inputs) /\ IsSeq(wire)
  /\ Len(sch.running) = Len(results) + Len(tokens) + Len(inputs) + Len(wire)
  /\ Aligned(sch.running, 0, results)
  /\ Aligned(sch.running, Len(results), tokens)
  /\ Aligned(sch.running, Len(results) + Len(tokens), inputs)
  /\ Aligned(sch.running, Len(results) + Len(tokens) + Len(inputs), Updates(wire))

DriverInv == (\E W, D, F : Driving(W, D, F)) /\ Answering /\ Piped /\ pc \in Calls

-----------------------------------------------------------------------------
LEMMA SeqFacts ==
  ASSUME NEW s, IsSeq(s)
  PROVE  /\ Len(s) \in Nat /\ DOMAIN s = 1 .. Len(s)
         /\ s = <<>> <=> Len(s) = 0
         /\ s # <<>> => /\ IsSeq(Tail(s)) /\ Len(Tail(s)) = Len(s) - 1
                        /\ Head(s) = s[1] /\ Len(s) >= 1
                        /\ \A k \in 1 .. Len(s) - 1 : Tail(s)[k] = s[k + 1]
         /\ \A x : /\ IsSeq(Append(s, x)) /\ Len(Append(s, x)) = Len(s) + 1
                   /\ Append(s, x)[Len(s) + 1] = x
                   /\ \A k \in 1 .. Len(s) : Append(s, x)[k] = s[k]
<1>1. PICK S : s \in Seq(S)
  BY DEF IsSeq
<1>2. Len(s) \in Nat /\ DOMAIN s = 1 .. Len(s)
  BY <1>1
<1>3. s = <<>> <=> Len(s) = 0
  BY <1>1
<1>4. ASSUME s # <<>>
      PROVE  /\ IsSeq(Tail(s)) /\ Len(Tail(s)) = Len(s) - 1
             /\ Head(s) = s[1] /\ Len(s) >= 1
             /\ \A k \in 1 .. Len(s) - 1 : Tail(s)[k] = s[k + 1]
  <2>1. Tail(s) \in Seq(S)
    BY <1>1, <1>4
  <2>2. IsSeq(Tail(s))
    BY <2>1 DEF IsSeq
  <2> QED BY <1>1, <1>4, <2>2
<1>5. ASSUME NEW x
      PROVE  /\ IsSeq(Append(s, x)) /\ Len(Append(s, x)) = Len(s) + 1
             /\ Append(s, x)[Len(s) + 1] = x
             /\ \A k \in 1 .. Len(s) : Append(s, x)[k] = s[k]
  <2> DEFINE T == S \cup {x}
  <2>1. s \in Seq(T) /\ x \in T
    BY <1>1
  <2> HIDE DEF T
  <2>2. Append(s, x) \in Seq(T)
    BY <2>1
  <2>3. IsSeq(Append(s, x))
    BY <2>2 DEF IsSeq
  <2> QED BY <2>1, <2>3
<1> QED BY <1>2, <1>3, <1>4, <1>5

LEMMA UpdatesFacts ==
  ASSUME NEW w, IsSeq(w)
  PROVE  /\ IsSeq(Updates(w)) /\ Len(Updates(w)) = Len(w)
         /\ \A k \in 1 .. Len(w) : Updates(w)[k] = w[k].updates
<1>1. DOMAIN w = 1 .. Len(w) /\ Len(w) \in Nat
  BY SeqFacts
<1>2. Updates(w) = [k \in 1 .. Len(w) |-> w[k].updates]
  BY <1>1 DEF Updates
<1>3. \A k \in 1 .. Len(w) : Updates(w)[k] = w[k].updates
  BY <1>2
<1>4. Updates(w) = [k \in 1 .. Len(w) |-> Updates(w)[k]]
  BY <1>2, <1>3
<1>5. IsSeq(Updates(w)) /\ Len(Updates(w)) = Len(w)
  BY <1>1, <1>4, FcnIsSeq, Zenon
<1> QED BY <1>3, <1>5

LEMMA SameSeq ==
  ASSUME NEW s, IsSeq(s), NEW t, IsSeq(t), Len(s) = Len(t),
         \A k \in 1 .. Len(s) : s[k] = t[k]
  PROVE  s = t
<1>1. PICK S, T : s \in Seq(S) /\ t \in Seq(T)
  BY DEF IsSeq
<1>2. s = [k \in 1 .. Len(s) |-> s[k]] /\ t = [k \in 1 .. Len(t) |-> t[k]]
  BY <1>1
<1> QED BY <1>2

LEMMA UpdatesTail ==
  ASSUME NEW w, IsSeq(w), w # <<>>
  PROVE  Updates(w) # <<>> /\ Head(Updates(w)) = Head(w).updates
         /\ Updates(Tail(w)) = Tail(Updates(w))
<1> DEFINE u == Updates(w)
           a == Updates(Tail(w))
           b == Tail(u)
<1>1. /\ Len(w) \in Nat /\ Len(w) >= 1 /\ IsSeq(Tail(w)) /\ Len(Tail(w)) = Len(w) - 1
      /\ Head(w) = w[1]
      /\ \A k \in 1 .. Len(w) - 1 : Tail(w)[k] = w[k + 1]
  BY SeqFacts
<1>2. IsSeq(u) /\ Len(u) = Len(w) /\ \A k \in 1 .. Len(w) : u[k] = w[k].updates
  BY UpdatesFacts
<1>3. IsSeq(a) /\ Len(a) = Len(w) - 1 /\ \A k \in 1 .. Len(w) - 1 : a[k] = Tail(w)[k].updates
  BY <1>1, UpdatesFacts
<1> HIDE DEF u, a
<1>4. /\ u # <<>> /\ Head(u) = u[1] /\ IsSeq(b) /\ Len(b) = Len(w) - 1
      /\ \A k \in 1 .. Len(w) - 1 : b[k] = u[k + 1]
  BY <1>1, <1>2, SeqFacts
<1> HIDE DEF b
<1>5. \A k \in 1 .. Len(w) - 1 : k + 1 \in 1 .. Len(w)
  BY <1>1
<1>6. \A k \in 1 .. Len(a) : a[k] = b[k]
  BY <1>1, <1>2, <1>3, <1>4, <1>5
<1>7. a = b
  BY <1>3, <1>4, <1>6, SameSeq
<1>8. 1 \in 1 .. Len(w)
  BY <1>1
<1> QED BY <1>1, <1>2, <1>4, <1>7, <1>8 DEF u, a, b

LEMMA UpdatesAppend ==
  ASSUME NEW w, IsSeq(w), NEW p
  PROVE  Updates(Append(w, p)) = Append(Updates(w), p.updates)
<1> DEFINE u == Updates(w)
           v == Append(w, p)
           a == Updates(v)
           b == Append(u, p.updates)
<1>1. /\ Len(w) \in Nat /\ IsSeq(v) /\ Len(v) = Len(w) + 1 /\ v[Len(w) + 1] = p
      /\ \A k \in 1 .. Len(w) : v[k] = w[k]
  BY SeqFacts
<1>2. IsSeq(u) /\ Len(u) = Len(w) /\ \A k \in 1 .. Len(w) : u[k] = w[k].updates
  BY UpdatesFacts
<1> HIDE DEF u, v
<1>3. IsSeq(a) /\ Len(a) = Len(v) /\ \A k \in 1 .. Len(v) : a[k] = v[k].updates
  BY <1>1, UpdatesFacts
<1> HIDE DEF a
<1>4. /\ IsSeq(b) /\ Len(b) = Len(w) + 1 /\ b[Len(w) + 1] = p.updates
      /\ \A k \in 1 .. Len(w) : b[k] = u[k]
  BY <1>2, SeqFacts
<1> HIDE DEF b
<1>5. \A k \in 1 .. Len(a) : k \in 1 .. Len(w) \/ k = Len(w) + 1
  BY <1>1, <1>3
<1>6. \A k \in 1 .. Len(a) : a[k] = b[k]
  BY <1>1, <1>2, <1>3, <1>4, <1>5
<1>7. a = b
  BY <1>1, <1>3, <1>4, <1>6, SameSeq
<1> QED BY <1>7 DEF u, v, a, b

\* The head of t goes to the end of s, as x.
LEMMA AlignedMove ==
  ASSUME NEW runs, NEW n \in Nat, NEW s, NEW t, Aligned(runs, n, s),
         Aligned(runs, n + Len(s), t), t # <<>>,
         NEW x, IsSeq(x), Len(x) = Len(Head(t))
  PROVE  /\ Aligned(runs, n, Append(s, x)) /\ Len(Append(s, x)) = Len(s) + 1
         /\ Aligned(runs, n + Len(s) + 1, Tail(t)) /\ Len(Tail(t)) = Len(t) - 1
         /\ Len(s) \in Nat /\ Len(t) \in Nat
<1> DEFINE u == Append(s, x)
           v == Tail(t)
<1>1. /\ Len(s) \in Nat /\ Len(t) \in Nat
      /\ IsSeq(v) /\ Len(v) = Len(t) - 1
      /\ Head(t) = t[1] /\ Len(t) >= 1
      /\ \A k \in 1 .. Len(t) - 1 : v[k] = t[k + 1]
  BY SeqFacts DEF Aligned
<1>2. /\ IsSeq(u) /\ Len(u) = Len(s) + 1 /\ u[Len(s) + 1] = x
      /\ \A k \in 1 .. Len(s) : u[k] = s[k]
  BY SeqFacts DEF Aligned
<1> HIDE DEF u, v
<1>3. 1 \in 1 .. Len(t)
  BY <1>1
<1>4. Len(x) = Len(runs[(n + Len(s)) + 1])
  BY <1>1, <1>3 DEF Aligned
<1>5. (n + Len(s)) + 1 = n + (Len(s) + 1)
  BY <1>1
<1>6. Aligned(runs, n, u)
  <2>1. ASSUME NEW k \in 1 .. Len(u) PROVE IsSeq(u[k]) /\ Len(u[k]) = Len(runs[n + k])
    <3>1. CASE k \in 1 .. Len(s)
      BY <1>2, <3>1 DEF Aligned
    <3>2. CASE k = Len(s) + 1
      BY <1>2, <1>4, <1>5, <3>2
    <3> QED BY <1>1, <1>2, <2>1, <3>1, <3>2
  <2> QED BY <1>2, <2>1 DEF Aligned
<1>7. Aligned(runs, n + Len(s) + 1, v)
  <2>1. ASSUME NEW k \in 1 .. Len(v) PROVE IsSeq(v[k]) /\ Len(v[k]) = Len(runs[n + Len(s) + 1 + k])
    <3>1. k + 1 \in 1 .. Len(t) /\ v[k] = t[k + 1] /\ n + Len(s) + 1 + k = (n + Len(s)) + (k + 1)
      BY <1>1
    <3>2. IsSeq(t[k + 1]) /\ Len(t[k + 1]) = Len(runs[(n + Len(s)) + (k + 1)])
      BY <3>1 DEF Aligned
    <3> QED BY <3>1, <3>2
  <2> QED BY <1>1, <2>1 DEF Aligned
<1> QED BY <1>1, <1>2, <1>6, <1>7 DEF u, v

\* A batch is added at the start of the pipe.
LEMMA AlignedMore ==
  ASSUME NEW runs, IsSeq(runs), NEW row, NEW n \in Nat, NEW s, Aligned(runs, n, s),
         n + Len(s) <= Len(runs)
  PROVE  Aligned(Append(runs, row), n, s)
<1>1. Len(s) \in Nat /\ Len(runs) \in Nat
  BY SeqFacts DEF Aligned
<1> DEFINE r == Append(runs, row)
<1>2. \A k \in 1 .. Len(runs) : r[k] = runs[k]
  BY SeqFacts
<1> HIDE DEF r
<1>3. \A k \in 1 .. Len(s) : r[n + k] = runs[n + k]
  BY <1>1, <1>2
<1>4. Aligned(r, n, s)
  BY <1>3 DEF Aligned
<1> QED BY <1>4 DEF r

\* The first batch leaves.
LEMMA AlignedLess ==
  ASSUME NEW runs, IsSeq(runs), runs # <<>>, NEW n \in Nat, NEW s, Aligned(runs, n + 1, s),
         n + 1 + Len(s) <= Len(runs)
  PROVE  Aligned(Tail(runs), n, s)
<1>1. Len(s) \in Nat /\ Len(runs) \in Nat
  BY SeqFacts DEF Aligned
<1> DEFINE r == Tail(runs)
<1>2. \A k \in 1 .. Len(runs) - 1 : r[k] = runs[k + 1]
  BY SeqFacts
<1> HIDE DEF r
<1>3. \A k \in 1 .. Len(s) : r[n + k] = runs[n + 1 + k]
  <2>1. TAKE k \in 1 .. Len(s)
  <2>2. n + k \in 1 .. Len(runs) - 1 /\ (n + k) + 1 = n + 1 + k
    BY <1>1
  <2> QED BY <1>2, <2>2
<1>4. Aligned(r, n, s)
  BY <1>3 DEF Aligned
<1> QED BY <1>4 DEF r

LEMMA PromptIn ==
  ASSUME NEW q \in Reqs
  PROVE  Prompt[q] \in Seq(Alphabet) /\ Prompt[q] # <<>> /\ Len(Prompt[q]) \in Nat
<1>1. Prompt[q] \in Seq(Range(Prompt[q])) /\ Prompt[q] # <<>>
  BY SchedulerAssumption
<1>2. \A i \in 1 .. Len(Prompt[q]) : Prompt[q][i] \in Alphabet
  BY <1>1 DEF Alphabet, Range
<1>3. Prompt[q] \in Seq(Alphabet)
  BY <1>1, <1>2
<1> QED BY <1>1, <1>3

LEMMA InitDriver == Init => DriverInv
<1> SUFFICES ASSUME Init PROVE DriverInv
  OBVIOUS
<1>1. DOMAIN sch = SchFields
  BY DEF Init, NewScheduler, SchFields
<1>2. /\ sch.obj = [q \in Reqs |-> NewSeq(q)]
      /\ sch.prefill = <<>> /\ sch.decode = <<>> /\ sch.running = <<>>
      /\ sch.pool = EmptyPool /\ sch.jitter = 0 /\ sch.frees = <<>>
  BY DEF Init, NewScheduler
<1>3. PoolOK(EmptyPool)
  <2>1. NumPages \in Nat
    BY PagesAssumption
  <2>2. [i \in 1 .. NumPages |-> i - 1] \in [1 .. NumPages -> Pages]
    BY <2>1 DEF Pages
  <2>3. [i \in 1 .. NumPages |-> i - 1] \in Seq(Pages)
    BY <2>1, <2>2
  <2> QED BY <2>3 DEF PoolOK, EmptyPool
<1>4. \A q \in Reqs : ObjOK(Alphabet, NewSeq(q))
  <2>1. TAKE q \in Reqs
  <2>2. <<>> \in Seq(Pages)
    OBVIOUS
  <2> QED BY <2>2, PromptIn DEF ObjOK, NewSeq
<1>5. Typed(Alphabet, sch)
  <2>1. <<>> \in Seq(Seq(Rows)) /\ <<>> \in Seq(Reqs)
    OBVIOUS
  <2> QED BY <1>1, <1>2, <1>3, <1>4, <2>1 DEF Typed
<1>6. Placed(sch, {}, {}, {})
  BY <1>2, ListsNone DEF Placed
<1>7. Driving({}, {}, {})
  <2>1. Len(sch.running) = 0
    BY <1>2
  <2>2. fate = [q \in Reqs |-> "new"]
    BY DEF Init
  <2> QED BY <1>2, <1>5, <1>6, <2>1, <2>2, RunsNone, SchedulerAssumption DEF Driving, Fates
<1>8. Answering
  <2>1. out = [q \in Reqs |-> <<>>] /\ fate = [q \in Reqs |-> "new"]
    BY DEF Init
  <2>2. <<>> \in Seq(Tokens) /\ Range(<<>>) = {}
    BY DEF Range
  <2>3. out \in [Reqs -> Seq(Tokens)]
    BY <2>1, <2>2
  <2>4. ASSUME NEW q \in Reqs
        PROVE  /\ sch.obj[q].tok = Prompt[q] \o out[q]
               /\ sch.obj[q].prompt >= Len(Prompt[q])
               /\ fate[q] = "live" => Len(out[q]) < OutLen[q]
               /\ fate[q] = "new" => out[q] = <<>> /\ sch.obj[q].computed = 0
    <3>1. sch.obj[q] = NewSeq(q) /\ out[q] = <<>> /\ fate[q] = "new"
      BY <1>2, <2>1
    <3>2. Prompt[q] \o <<>> = Prompt[q]
      BY PromptIn
    <3> QED BY <3>1, <3>2, PromptIn DEF NewSeq
  <2> QED BY <1>2, <2>2, <2>3, <2>4 DEF Answering
<1>9. Piped
  <2>1. results = <<>> /\ wire = <<>> /\ inputs = <<>> /\ tokens = <<>>
    BY DEF Init
  <2>2. <<>> \in Seq(Seq(Tokens)) /\ <<>> \in Seq({}) /\ Len(<<>>) = 0
    OBVIOUS
  <2>3. IsSeq(<<>>)
    BY <2>2 DEF IsSeq
  <2>4. \A runs, n : Aligned(runs, n, <<>>)
    BY <2>2, <2>3 DEF Aligned
  <2>5. Updates(<<>>) = <<>>
    BY DEF Updates
  <2>6. Len(sch.running) = 0
    BY <1>2
  <2> QED BY <2>1, <2>2, <2>3, <2>4, <2>5, <2>6 DEF Piped
<1>10. pc \in Calls
  BY DEF Init, Calls
<1> QED BY <1>7, <1>8, <1>9, <1>10 DEF DriverInv

-----------------------------------------------------------------------------
\* An abort ends requests that are live.
LEMMA CheckAbortDriver ==
  ASSUME DriverInv, CheckAbortSeqs
  PROVE  DriverInv' /\ Aborted(sch) \subseteq {q \in Reqs : fate[q] = "live"}
<1>0. PICK X : X = Aborted(sch)
  OBVIOUS
<1>1. PICK W, D, F : Driving(W, D, F)
  BY DEF DriverInv
<1>2. Typed(Alphabet, sch) /\ Placed(sch, W, D, F)
  BY <1>1 DEF Driving
<1>3. X = (W \cup D) \cap sch.abort /\ GivenUp(Alphabet, sch, CheckAbort(sch), W, D, F, X)
  BY <1>0, <1>2, CheckAbortOK
<1>4. /\ sch' = CheckAbort(sch) /\ pc' = "recv_ipc"
      /\ fate' = [q \in Reqs |-> IF q \in X THEN "aborted" ELSE fate[q]]
      /\ UNCHANGED <<results, tokens, inputs, wire, out>>
  BY <1>0 DEF CheckAbortSeqs, driver, last
<1>5. /\ Typed(Alphabet, sch') /\ Placed(sch', W \ X, D \ X, F)
      /\ sch'.obj = sch.obj /\ sch'.running = sch.running
      /\ \A q : q \in Range(sch'.frees) <=> q \in Range(sch.frees) \/ q \in X
  BY <1>3, <1>4 DEF GivenUp
<1>6. /\ fate \in [Reqs -> Fates] /\ W \cup D \cup F = {q \in Reqs : fate[q] = "live"}
      /\ (W \cup D) \cap F = {}
  BY <1>1 DEF Driving, Placed
<1>7. fate' \in [Reqs -> Fates]
  BY <1>4, <1>6 DEF Fates
<1>8. (W \ X) \cup (D \ X) \cup F = {q \in Reqs : fate'[q] = "live"}
  BY <1>3, <1>4, <1>6
<1>9. Driving(W \ X, D \ X, F)'
  BY <1>1, <1>5, <1>7, <1>8 DEF Driving
<1>10. X \subseteq {q \in Reqs : fate[q] = "live"}
  BY <1>3, <1>6
<1>11. Answering'
  <2>1. ASSUME NEW q \in Reqs
        PROVE  /\ fate'[q] = "live" => fate[q] = "live"
               /\ fate'[q] = "new" => fate[q] = "new"
               /\ fate[q] \in {"finished", "aborted"} => fate'[q] \in {"finished", "aborted"}
               /\ q \in X => fate'[q] = "aborted"
    BY <1>4
  <2>2. \A q \in Range(sch.frees) : q \in Reqs
    BY <1>2 DEF Typed, Range
  <2>3. \A q \in Range(sch'.frees) : fate'[q] \in {"finished", "aborted"}
    BY <1>5, <1>10, <2>1, <2>2 DEF DriverInv, Answering
  <2> QED BY <1>4, <1>5, <2>1, <2>3 DEF DriverInv, Answering
<1>12. Piped'
  BY <1>4, <1>5 DEF DriverInv, Piped, Aligned, Updates
<1>13. pc' \in Calls
  BY <1>4 DEF Calls
<1> QED BY <1>0, <1>9, <1>10, <1>11, <1>12, <1>13 DEF DriverInv

\* New requests wait, in some order.
LEMMA RecvIpcDriver ==
  ASSUME DriverInv, RecvIpcPackage
  PROVE  /\ DriverInv' /\ out' = out
         /\ \E S \in SUBSET {q \in Reqs : fate[q] = "new"} :
              fate' = [q \in Reqs |-> IF q \in S THEN "live" ELSE fate[q]]
<1>1. PICK W, D, F : Driving(W, D, F)
  BY DEF DriverInv
<1>2. PICK new \in UNION {Orders(S) : S \in SUBSET {q \in Reqs : fate[q] = "new"}},
              gone \in SUBSET {q \in Abortable : fate[q] \in {"live", "finished"}} :
        /\ sch' = [sch EXCEPT !.prefill = @ \o new, !.abort = @ \cup gone]
        /\ fate' = [q \in Reqs |-> IF q \in Range(new) THEN "live" ELSE fate[q]]
  BY Zenon DEF RecvIpcPackage
<1>20. PICK S \in SUBSET {q \in Reqs : fate[q] = "new"} : new \in Orders(S)
  OBVIOUS
<1>3. pc' = "recv_tokens" /\ UNCHANGED <<results, tokens, inputs, wire, out>>
  BY DEF RecvIpcPackage, driver, last
<1>4. /\ Typed(Alphabet, sch) /\ Placed(sch, W, D, F)
      /\ fate \in [Reqs -> Fates] /\ W \cup D \cup F = {q \in Reqs : fate[q] = "live"}
  BY <1>1 DEF Driving
<1>5. Lists(new, S) /\ Range(new) = S
  <2> DEFINE n == Cardinality(S)
  <2>1. n \in Nat
    BY SchedulerAssumption, FS_Subset, FS_CardinalityType
  <2> HIDE DEF n
  <2>2. new \in Bijection(1 .. n, S)
    BY <1>20 DEF Orders, n
  <2>3. /\ new \in [1 .. n -> S] /\ \A a, b \in 1 .. n : new[a] = new[b] => a = b
        /\ \A x \in S : \E a \in 1 .. n : new[a] = x
    BY <2>2 DEF Bijection, Injection, Surjection, IsInjective
  <2>4. new \in Seq(Reqs) /\ Len(new) = n
    BY <2>1, <2>3
  <2>5. Lists(new, S)
    BY <2>3, <2>4 DEF Lists, Injective
  <2> QED BY <2>5, ListsRange
<1>6. /\ DOMAIN sch' = SchFields /\ sch'.obj = sch.obj /\ sch'.pool = sch.pool
      /\ sch'.prefill = sch.prefill \o new /\ sch'.decode = sch.decode
      /\ sch'.running = sch.running /\ sch'.jitter = sch.jitter /\ sch'.frees = sch.frees
  BY <1>2, <1>4 DEF Typed, SchFields
<1>7. Typed(Alphabet, sch')
  BY <1>4, <1>6 DEF Typed
<1>8. S \cap (W \cup D \cup F) = {}
  BY <1>4
<1>9. \A q \in S : Waits(sch.obj[q])
  <2>1. TAKE q \in S
  <2>2. q \in Reqs /\ sch.obj[q].computed = 0 /\ ObjOK(Alphabet, sch.obj[q])
    BY <1>4 DEF DriverInv, Answering, Typed
  <2>3. Len(sch.obj[q].tok) > 0
    BY <2>2 DEF ObjOK
  <2> QED BY <2>2, <2>3 DEF Waits
<1>10. Placed(sch', W \cup S, D, F)
  <2>1. Lists(sch'.prefill, W \cup S)
    BY <1>4, <1>5, <1>6, <1>8, ListsConcat DEF Placed
  <2>2. \A q \in W \cup S : Waits(sch'.obj[q])
    BY <1>4, <1>6, <1>9 DEF Placed
  <2> QED BY <1>4, <1>6, <1>8, <2>1, <2>2 DEF Placed
<1>11. fate' = [q \in Reqs |-> IF q \in S THEN "live" ELSE fate[q]]
  BY <1>2, <1>5
<1>12. Driving(W \cup S, D, F)'
  <2>1. fate' \in [Reqs -> Fates]
    BY <1>4, <1>11 DEF Fates
  <2>2. (W \cup S) \cup D \cup F = {q \in Reqs : fate'[q] = "live"}
    BY <1>4, <1>11
  <2> QED BY <1>1, <1>6, <1>7, <1>10, <2>1, <2>2 DEF Driving
<1>13. Answering'
  <2>1. ASSUME NEW q \in Reqs
        PROVE  /\ fate'[q] = "live" => Len(out[q]) < OutLen[q]
               /\ fate'[q] = "new" => fate[q] = "new"
               /\ fate[q] \in {"finished", "aborted"} => fate'[q] \in {"finished", "aborted"}
    <3>1. CASE q \in S
      <4>1. out[q] = <<>>
        BY <3>1 DEF DriverInv, Answering
      <4>2. Len(<<>>) = 0 /\ OutLen[q] \in Nat \ {0}
        BY SchedulerAssumption
      <4>3. Len(out[q]) < OutLen[q]
        BY <4>1, <4>2
      <4> QED BY <1>11, <3>1, <4>3
    <3>2. CASE q \notin S
      <4>1. fate'[q] = fate[q]
        BY <1>11, <3>2
      <4> QED BY <4>1 DEF DriverInv, Answering
    <3> QED BY <3>1, <3>2
  <2>2. \A q \in Range(sch.frees) : q \in Reqs
    BY <1>4 DEF Typed, Range
  <2>3. \A q \in Range(sch'.frees) : fate'[q] \in {"finished", "aborted"}
    BY <1>6, <2>1, <2>2 DEF DriverInv, Answering
  <2> QED BY <1>3, <1>6, <2>1, <2>3 DEF DriverInv, Answering
<1>14. Piped'
  <2>1. Piped
    BY DEF DriverInv
  <2>2. sch'.running = sch.running /\ UNCHANGED <<results, tokens, inputs, wire>>
    BY <1>3, <1>6
  <2> QED BY <2>1, <2>2 DEF Piped, Aligned, Updates
<1>15. pc' \in Calls
  BY <1>3 DEF Calls
<1> QED BY <1>3, <1>11, <1>12, <1>13, <1>14, <1>15 DEF DriverInv

\* Steps that leave the scheduler alone.
LEMMA StillDriving ==
  ASSUME DriverInv, UNCHANGED <<sch, out, fate>>
  PROVE  (\E W, D, F : Driving(W, D, F))' /\ Answering'
<1>1. PICK W, D, F : Driving(W, D, F)
  BY DEF DriverInv
<1>2. Driving(W, D, F)'
  BY <1>1 DEF Driving
<1>3. Answering'
  BY DEF DriverInv, Answering
<1> QED BY <1>2, <1>3

LEMMA RecvNextTokensDriver ==
  ASSUME DriverInv, RecvNextTokens
  PROVE  DriverInv'
<1>1. /\ results' = (IF tokens = <<>> THEN results ELSE Append(results, Head(tokens)))
      /\ tokens' = (IF tokens = <<>> THEN tokens ELSE Tail(tokens))
      /\ pc' = "schedule" /\ UNCHANGED <<sch, inputs, wire, out, fate>>
  BY DEF RecvNextTokens, last
<1>2. Piped
  BY DEF DriverInv
<1>3. Piped'
  <2>1. CASE tokens = <<>>
    BY <1>1, <1>2, <2>1 DEF Piped, Aligned, Updates
  <2>2. CASE tokens # <<>>
    <3> DEFINE x == Head(tokens)
               R == Len(results)
               runs == sch.running
    <3>1. /\ Aligned(runs, 0, results) /\ Aligned(runs, R, tokens) /\ R \in Nat
          /\ results \in Seq(Seq(Tokens)) /\ tokens \in Seq(Seq(Tokens))
      BY <1>2 DEF Piped
    <3>2. x \in Seq(Tokens) /\ IsSeq(x) /\ Len(x) = Len(Head(tokens)) /\ 0 + R = R
      BY <2>2, <3>1 DEF IsSeq
    <3>3. Aligned(runs, 0 + R, tokens)
      BY <3>1, <3>2
    <3> HIDE DEF x
    <3> DEFINE z == 0
    <3>11. z \in Nat /\ Aligned(runs, z, results) /\ Aligned(runs, z + Len(results), tokens)
           /\ z + R + 1 = R + 1
      BY <3>1, <3>3
    <3> HIDE DEF z
    <3>12. /\ Aligned(runs, z, Append(results, x)) /\ Len(Append(results, x)) = Len(results) + 1
           /\ Aligned(runs, z + Len(results) + 1, Tail(tokens)) /\ Len(Tail(tokens)) = Len(tokens) - 1
           /\ Len(tokens) \in Nat
      BY <2>2, <3>2, <3>11, AlignedMove
    <3>4. /\ Aligned(runs, 0, Append(results, x)) /\ Len(Append(results, x)) = R + 1
          /\ Aligned(runs, R + 1, Tail(tokens)) /\ Len(Tail(tokens)) = Len(tokens) - 1
          /\ Len(tokens) \in Nat
      BY <3>11, <3>12 DEF z
    <3>5. results' = Append(results, x) /\ tokens' = Tail(tokens)
      BY <1>1, <2>2 DEF x
    <3>6. results' \in Seq(Seq(Tokens)) /\ tokens' \in Seq(Seq(Tokens))
      BY <2>2, <3>1, <3>2, <3>5
    <3>7. Len(inputs) \in Nat /\ Len(wire) \in Nat
      BY <1>2, SeqFacts DEF Piped
    <3>13. Len(results') = R + 1 /\ Len(tokens') = Len(tokens) - 1 /\ Len(tokens) \in Nat /\ R \in Nat
      BY <3>1, <3>4, <3>5
    <3> HIDE DEF R
    <3>8. Len(results') + Len(tokens') = R + Len(tokens) /\ R + 1 = Len(results')
      BY <3>13
    <3>9. /\ Aligned(sch'.running, Len(results'), tokens')
          /\ Aligned(sch'.running, 0, results')
      BY <1>1, <3>4, <3>5, <3>8
    <3>10. /\ Aligned(sch'.running, Len(results') + Len(tokens'), inputs')
           /\ Aligned(sch'.running, Len(results') + Len(tokens') + Len(inputs'), Updates(wire'))
           /\ Len(sch'.running) = Len(results') + Len(tokens') + Len(inputs') + Len(wire')
      BY <1>1, <1>2, <3>8 DEF Piped, R
    <3> QED BY <1>1, <1>2, <3>6, <3>9, <3>10 DEF Piped
  <2> QED BY <2>1, <2>2
<1> QED BY <1>1, <1>3, StillDriving DEF DriverInv, Calls

\* The last stage takes a payload: what was on its way is now there.
LEMMA RecvPayloadDriver ==
  ASSUME DriverInv, RecvSchedulePayload
  PROVE  DriverInv'
<1> DEFINE u == Head(wire).updates
           now == Applied(mirror, Head(wire))
           x == [i \in DOMAIN u |->
                  [req |-> u[i].req, real |-> u[i].real, read |-> u[i].read,
                   used |-> [table |-> now[u[i].req].table,
                             decodes |-> u[i].from >= now[u[i].req].prompt]]]
           runs == sch.running
           n == Len(results) + Len(tokens)
<1>1. /\ wire # <<>> /\ inputs' = Append(inputs, x) /\ wire' = Tail(wire)
      /\ UNCHANGED <<sch, pc, results, tokens, out, fate>>
  BY DEF RecvSchedulePayload, driver
<1>2. Piped
  BY DEF DriverInv
<1>3. /\ n \in Nat /\ Aligned(runs, n, inputs) /\ Aligned(runs, n + Len(inputs), Updates(wire))
      /\ IsSeq(wire) /\ IsSeq(inputs)
  BY <1>2 DEF Piped
<1>4. /\ Len(Updates(wire)) = Len(wire) /\ IsSeq(Updates(wire)) /\ Len(wire) \in Nat /\ Len(wire) >= 1
      /\ \A k \in 1 .. Len(wire) : Updates(wire)[k] = wire[k].updates
      /\ Head(wire) = wire[1] /\ Len(Tail(wire)) = Len(wire) - 1 /\ IsSeq(Tail(wire))
  BY <1>1, <1>3, UpdatesFacts, SeqFacts
<1>5. Updates(wire) # <<>> /\ Head(Updates(wire)) = u
  BY <1>1, <1>3, UpdatesTail
<1>6. Updates(Tail(wire)) = Tail(Updates(wire))
  BY <1>1, <1>3, UpdatesTail
<1>7. IsSeq(u) /\ DOMAIN u = 1 .. Len(u) /\ Len(u) \in Nat
  <2>1. 1 \in 1 .. Len(Updates(wire))
    BY <1>4
  <2>2. IsSeq(u)
    BY <1>3, <1>4, <2>1 DEF Aligned
  <2> QED BY <2>2, SeqFacts
<1>8. IsSeq(x) /\ Len(x) = Len(u)
  <2>1. x = [i \in 1 .. Len(u) |-> x[i]]
    BY <1>7
  <2> HIDE DEF x, u
  <2> QED BY <1>7, <2>1, FcnIsSeq
<1> HIDE DEF x, u
<1>9. /\ Aligned(runs, n, Append(inputs, x)) /\ Len(Append(inputs, x)) = Len(inputs) + 1
      /\ Aligned(runs, n + Len(inputs) + 1, Tail(Updates(wire)))
      /\ Len(inputs) \in Nat
  BY <1>3, <1>5, <1>8, AlignedMove
<1>10. Piped'
  <2>1. IsSeq(inputs') /\ IsSeq(wire')
    BY <1>1, <1>3, <1>4, SeqFacts
  <2>2. /\ Len(inputs') = Len(inputs) + 1 /\ Len(wire') = Len(wire) - 1
        /\ Updates(wire') = Tail(Updates(wire))
    BY <1>1, <1>4, <1>6, <1>9
  <2>3. n + Len(inputs) + 1 = n + Len(inputs')
    BY <1>3, <1>9, <2>2
  <2>4. /\ Aligned(sch'.running, Len(results') + Len(tokens'), inputs')
        /\ Aligned(sch'.running, Len(results') + Len(tokens') + Len(inputs'), Updates(wire'))
    BY <1>1, <1>9, <2>2, <2>3
  <2>5. Len(sch'.running) = Len(results') + Len(tokens') + Len(inputs') + Len(wire')
    BY <1>1, <1>2, <1>3, <1>4, <1>9, <2>2 DEF Piped
  <2>6. /\ results' \in Seq(Seq(Tokens)) /\ tokens' \in Seq(Seq(Tokens))
        /\ Aligned(sch'.running, 0, results')
        /\ Aligned(sch'.running, Len(results'), tokens')
    BY <1>1, <1>2 DEF Piped
  <2> QED BY <2>1, <2>4, <2>5, <2>6 DEF Piped
<1> QED BY <1>1, <1>10, StillDriving DEF DriverInv

LEMMA ForwardDriver ==
  ASSUME DriverInv, ForwardPp
  PROVE  DriverInv'
<1> DEFINE u == Head(inputs)
           runs == sch.running
           n == Len(results)
<1>1. /\ inputs # <<>> /\ inputs' = Tail(inputs)
      /\ UNCHANGED <<sch, pc, results, wire, out, fate>>
  BY DEF ForwardPp, driver
<1>2. PICK sampled \in [DOMAIN u -> Tokens] : tokens' = Append(tokens, sampled)
  BY DEF ForwardPp
<1>3. Piped
  BY DEF DriverInv
<1>4. /\ n \in Nat /\ Aligned(runs, n, tokens) /\ Aligned(runs, n + Len(tokens), inputs)
      /\ IsSeq(inputs) /\ tokens \in Seq(Seq(Tokens))
  BY <1>3 DEF Piped
<1>5. IsSeq(u) /\ DOMAIN u = 1 .. Len(u) /\ Len(u) \in Nat
  <2>1. 1 \in 1 .. Len(inputs) /\ u = inputs[1]
    BY <1>1, <1>4, SeqFacts
  <2>2. IsSeq(u)
    BY <1>4, <2>1 DEF Aligned
  <2> QED BY <2>2, SeqFacts
<1>6. sampled \in Seq(Tokens) /\ Len(sampled) = Len(u) /\ IsSeq(sampled)
  <2>1. sampled \in [1 .. Len(u) -> Tokens]
    BY <1>5
  <2>2. sampled \in Seq(Tokens) /\ Len(sampled) = Len(u)
    BY <1>5, <2>1
  <2> QED BY <2>2 DEF IsSeq
<1> HIDE DEF u
<1>7. /\ Aligned(runs, n, Append(tokens, sampled)) /\ Len(Append(tokens, sampled)) = Len(tokens) + 1
      /\ Aligned(runs, n + Len(tokens) + 1, Tail(inputs)) /\ Len(Tail(inputs)) = Len(inputs) - 1
      /\ Len(tokens) \in Nat /\ Len(inputs) \in Nat
  <2>1. Len(sampled) = Len(Head(inputs))
    BY <1>6 DEF u
  <2> QED BY <1>1, <1>4, <1>6, <2>1, AlignedMove
<1>8. Piped'
  <2>1. tokens' \in Seq(Seq(Tokens)) /\ IsSeq(inputs') /\ IsSeq(wire')
    BY <1>1, <1>2, <1>3, <1>4, <1>6, SeqFacts DEF Piped
  <2>2. /\ Len(tokens') = Len(tokens) + 1 /\ Len(inputs') = Len(inputs) - 1
        /\ n + Len(tokens) + 1 = n + Len(tokens')
        /\ n + Len(tokens) + Len(inputs) = n + Len(tokens') + Len(inputs')
    BY <1>1, <1>2, <1>4, <1>7
  <2>3. /\ Aligned(sch'.running, Len(results'), tokens')
        /\ Aligned(sch'.running, Len(results') + Len(tokens'), inputs')
    BY <1>1, <1>2, <1>7, <2>2
  <2>4. /\ Aligned(sch'.running, Len(results') + Len(tokens') + Len(inputs'), Updates(wire'))
        /\ Len(sch'.running) = Len(results') + Len(tokens') + Len(inputs') + Len(wire')
    BY <1>1, <1>3, <2>2 DEF Piped
  <2>5. results' \in Seq(Seq(Tokens)) /\ Aligned(sch'.running, 0, results')
    BY <1>1, <1>3 DEF Piped
  <2> QED BY <2>1, <2>3, <2>4, <2>5 DEF Piped
<1> QED BY <1>1, <1>8, StillDriving DEF DriverInv

\* The scheduler after schedule_forward, for the batch b that was built.
Scheduled(m, b, W, D, F, W2, D2, V, B, U) ==
  /\ Built(Alphabet, sch, [sch |-> m, batch |-> b], W, D, F, W2, D2, V, B, U)
  /\ DOMAIN sch' = SchFields /\ sch'.obj = m.obj /\ sch'.pool = m.pool
  /\ sch'.prefill = m.prefill /\ sch'.decode = m.decode /\ sch'.jitter = m.jitter
  /\ sch'.abort = m.abort /\ sch'.preempted = m.preempted
  /\ b = <<>> => /\ sch'.running = sch.running /\ sch'.frees = sch.frees
                 /\ UNCHANGED <<known, lastLen, wire>>
  /\ b # <<>> => /\ sch'.running = Append(sch.running, RowsOf(b)) /\ sch'.frees = <<>>
                 /\ Len(sch.running) < PP
                 /\ wire' = Append(wire, Payload(b, sch.frees))
                 /\ known' = KnownAfter(b, sch.frees)
                 /\ lastLen' = [q \in Reqs |->
                      IF q \in Range(sch.frees) THEN 0
                      ELSE IF \E e \in Range(b) : e.req = q
                      THEN Len((CHOOSE e \in Range(b) : e.req = q).table)
                      ELSE lastLen[q]]

\* What schedule_forward does to the driver, the pipe and the requests.
LEMMA ScheduleStep ==
  ASSUME NEW W, NEW D, NEW F, Driving(W, D, F), ScheduleForward
  PROVE  \E m, b, W2, D2, V, B, U : Scheduled(m, b, W, D, F, W2, D2, V, B, U)
<1>1. PICK ratio \in Ratios : \E r \in {ScheduleOnce(sch, ratio)} :
       IF r.batch = <<>>
       THEN /\ sch' = r.sch
            /\ UNCHANGED <<known, lastLen, wire>>
       ELSE /\ wire' = Append(wire, Payload(r.batch, r.sch.frees))
            /\ known' = KnownAfter(r.batch, r.sch.frees)
            /\ lastLen' = [q \in Reqs |->
                 IF q \in Range(r.sch.frees) THEN 0
                 ELSE IF \E e \in Range(r.batch) : e.req = q
                 THEN Len((CHOOSE e \in Range(r.batch) : e.req = q).table)
                 ELSE lastLen[q]]
            /\ sch' = Forward([r.sch EXCEPT !.frees = <<>>], r.batch)
  BY DEF ScheduleForward
<1>2. PICK r : r = ScheduleOnce(sch, ratio)
  OBVIOUS
<1>3. ratio \in Nat
  BY SchedulerAssumption
<1>4. OnceBuilt(Alphabet, sch, r, W, D, F)
  <2>1. /\ Typed(Alphabet, sch) /\ Placed(sch, W, D, F)
        /\ RunsOK(sch.running, F) /\ Len(sch.running) <= PP
    BY DEF Driving
  <2>2. OnceBuilt(Alphabet, sch, ScheduleOnce(sch, ratio), W, D, F)
    BY <1>3, <2>1, ScheduleOnceOK
  <2> QED BY <1>2, <2>2
<1>5. PICK m, W2, D2, V, B, U :
        /\ Built(Alphabet, sch, [sch |-> m, batch |-> r.batch], W, D, F, W2, D2, V, B, U)
        /\ r.batch = <<>> => r.sch = m
        /\ r.batch # <<>> =>
             /\ r.sch = [m EXCEPT !.running = Append(m.running, RowsOf(r.batch))]
             /\ Len(m.running) < PP
  BY <1>4 DEF OnceBuilt
<1> DEFINE b == r.batch
<1>6. DOMAIN m = SchFields /\ m.running = sch.running /\ m.frees = sch.frees
  BY <1>5 DEF Built, Moved, Typed
<1>7. CASE b = <<>>
  <2>1. sch' = m /\ UNCHANGED <<known, lastLen, wire>>
    BY <1>1, <1>2, <1>5, <1>7
  <2>2. Scheduled(m, b, W, D, F, W2, D2, V, B, U)
    BY <1>5, <1>6, <1>7, <2>1 DEF Scheduled
  <2> QED BY <2>2
<1>8. CASE b # <<>>
  <2> DEFINE x == [r.sch EXCEPT !.frees = <<>>]
  <2>1. /\ wire' = Append(wire, Payload(b, r.sch.frees))
        /\ known' = KnownAfter(b, r.sch.frees)
        /\ lastLen' = [q \in Reqs |->
                 IF q \in Range(r.sch.frees) THEN 0
                 ELSE IF \E e \in Range(b) : e.req = q
                 THEN Len((CHOOSE e \in Range(b) : e.req = q).table)
                 ELSE lastLen[q]]
        /\ sch' = Forward(x, b)
    BY <1>1, <1>2, <1>8
  <2>2. r.sch = [m EXCEPT !.running = Append(m.running, RowsOf(b))] /\ Len(m.running) < PP
    BY <1>5, <1>8
  <2>3. r.sch.frees = sch.frees
    BY <1>6, <2>2 DEF SchFields
  <2>4. /\ DOMAIN x = SchFields /\ x.obj = m.obj /\ x.pool = m.pool
        /\ x.prefill = m.prefill /\ x.decode = m.decode /\ x.jitter = m.jitter
        /\ x.abort = m.abort /\ x.preempted = m.preempted
        /\ x.running = Append(m.running, RowsOf(b)) /\ x.frees = <<>>
    BY <1>6, <2>2 DEF SchFields
  <2> HIDE DEF x
  <2>5. /\ DOMAIN sch' = SchFields /\ sch'.obj = x.obj /\ sch'.pool = x.pool
        /\ sch'.prefill = x.prefill /\ sch'.decode = x.decode /\ sch'.jitter = x.jitter
        /\ sch'.abort = x.abort /\ sch'.preempted = x.preempted
        /\ sch'.running = x.running /\ sch'.frees = x.frees
    BY <2>1, <2>4 DEF Forward, SchFields
  <2> HIDE DEF b
  <2>7. Built(Alphabet, sch, [sch |-> m, batch |-> b], W, D, F, W2, D2, V, B, U)
    BY <1>5 DEF b
  <2>6. Scheduled(m, b, W, D, F, W2, D2, V, B, U)
    BY <1>6, <1>8, <2>1, <2>2, <2>3, <2>4, <2>5, <2>7 DEF Scheduled
  <2> QED BY <2>6 DEF b
<1> QED BY <1>7, <1>8

LEMMA ScheduleDriver ==
  ASSUME DriverInv, ScheduleForward
  PROVE  DriverInv' /\ UNCHANGED <<out, fate>>
<1>1. PICK W, D, F : Driving(W, D, F)
  BY DEF DriverInv
<1>2. PICK m, b, W2, D2, V, B, U : Scheduled(m, b, W, D, F, W2, D2, V, B, U)
  BY <1>1, ScheduleStep
<1>3. UNCHANGED <<results, inputs, tokens, out, fate>> /\ pc' = "process_output"
  BY DEF ScheduleForward, last
<1>4. /\ Moved(Alphabet, sch, m, W, D, F, W2, D2, V, B) /\ IsBatch(b, B, U)
  BY <1>2 DEF Scheduled, Built
<1>5. /\ Typed(Alphabet, m) /\ Placed(m, W2, D2, F \cup B) /\ W2 \cup D2 = (W \cup D) \ B
      /\ B \subseteq W \cup D /\ m.running = sch.running
  BY <1>4 DEF Moved
<1>6. /\ DOMAIN sch' = SchFields /\ sch'.obj = m.obj /\ sch'.pool = m.pool
      /\ sch'.prefill = m.prefill /\ sch'.decode = m.decode /\ sch'.jitter = m.jitter
  BY <1>2 DEF Scheduled
<1>7. Placed(sch', W2, D2, F \cup B)
  BY <1>5, <1>6 DEF Placed
<1>8. B \cap F = {} /\ W2 \cup D2 \cup (F \cup B) = W \cup D \cup F
  BY <1>1, <1>5 DEF Driving, Placed
<1>9. /\ Typed(Alphabet, sch) /\ RunsOK(sch.running, F) /\ Len(sch.running) <= PP
      /\ sch.running \in Seq(Seq(Rows)) /\ IsSeq(sch.running)
  BY <1>1 DEF Driving, Typed, IsSeq
<1>10. /\ sch'.running \in Seq(Seq(Rows)) /\ sch'.frees \in Seq(Reqs)
       /\ RunsOK(sch'.running, F \cup B) /\ Len(sch'.running) <= PP
  <2>1. CASE b = <<>>
    <3>1. sch'.running = sch.running /\ sch'.frees = sch.frees
      BY <1>2, <2>1 DEF Scheduled
    <3>2. B = {}
      <4>1. \A i \in 1 .. Len(b) : FALSE
        BY <2>1
      <4> QED BY <1>4, <4>1 DEF IsBatch
    <3>3. F \cup B = F
      BY <3>2
    <3> QED BY <1>9, <3>1, <3>3 DEF Typed
  <2>2. CASE b # <<>>
    <3>1. /\ sch'.running = Append(sch.running, RowsOf(b)) /\ sch'.frees = <<>>
          /\ Len(sch.running) < PP
      BY <1>2, <2>2 DEF Scheduled
    <3>2. sch'.running \in Seq(Seq(Rows)) /\ RunsOK(sch'.running, F \cup B)
      <4> DEFINE runs == sch.running
      <4>1. runs \in Seq(Seq(Rows)) /\ RunsOK(runs, F)
        BY <1>9
      <4>2. IsBatch(b, B, U) /\ B \cap F = {}
        BY <1>4, <1>8
      <4>3. sch'.running = Append(runs, RowsOf(b))
        BY <3>1
      <4> HIDE DEF runs
      <4>4. Append(runs, RowsOf(b)) \in Seq(Seq(Rows)) /\ RunsOK(Append(runs, RowsOf(b)), F \cup B)
        BY <4>1, <4>2, RunsAppend
      <4> QED BY <4>3, <4>4
    <3>3. Len(sch'.running) = Len(sch.running) + 1 /\ Len(sch.running) \in Nat
      BY <1>9, <3>1, SeqFacts
    <3>4. PP \in Nat
      BY SchedulerAssumption
    <3>5. Len(sch'.running) <= PP
      BY <3>1, <3>3, <3>4
    <3>6. <<>> \in Seq(Reqs)
      OBVIOUS
    <3> QED BY <3>1, <3>2, <3>5, <3>6
  <2> QED BY <2>1, <2>2
<1>11. Typed(Alphabet, sch')
  BY <1>5, <1>6, <1>10 DEF Typed
<1>12. Driving(W2, D2, F \cup B)'
  <2>1. fate' \in [Reqs -> Fates] /\ W2 \cup D2 \cup (F \cup B) = {q \in Reqs : fate'[q] = "live"}
    BY <1>1, <1>3, <1>8 DEF Driving
  <2> QED BY <1>7, <1>10, <1>11, <2>1 DEF Driving
<1>13. Answering'
  <2>1. ASSUME NEW q \in Reqs
        PROVE  /\ sch'.obj[q].tok = sch.obj[q].tok
               /\ sch'.obj[q].prompt >= Len(Prompt[q])
               /\ fate[q] = "new" => sch'.obj[q].computed = 0
    <3>1. /\ sch'.obj[q].tok = sch.obj[q].tok /\ sch'.obj[q].prompt >= sch.obj[q].prompt
      BY <1>4, <1>6 DEF Moved
    <3>2. sch'.obj[q].prompt \in Nat /\ sch.obj[q].prompt \in Nat
      BY <1>9, <1>11 DEF Typed, ObjOK
    <3>3. sch'.obj[q].prompt >= Len(Prompt[q])
      BY <3>1, <3>2, PromptIn DEF DriverInv, Answering
    <3>4. ASSUME fate[q] = "new" PROVE sch'.obj[q].computed = 0
      <4>1. q \notin W \cup D
        BY <1>1, <3>4 DEF Driving
      <4>2. sch'.obj[q] = sch.obj[q]
        BY <1>4, <1>6, <4>1 DEF Moved
      <4> QED BY <3>4, <4>2 DEF DriverInv, Answering
    <3> QED BY <3>1, <3>3, <3>4
  <2>2. \A q \in Range(sch'.frees) : fate'[q] \in {"finished", "aborted"}
    <3>1. CASE b = <<>>
      <4>1. sch'.frees = sch.frees
        BY <1>2, <3>1 DEF Scheduled
      <4> QED BY <1>3, <4>1 DEF DriverInv, Answering
    <3>2. CASE b # <<>>
      <4>1. sch'.frees = <<>>
        BY <1>2, <3>2 DEF Scheduled
      <4>2. Range(sch'.frees) = {}
        BY <4>1 DEF Range
      <4> QED BY <4>2
    <3> QED BY <3>1, <3>2
  <2> QED BY <1>3, <2>1, <2>2 DEF DriverInv, Answering
<1>14. Piped'
  <2>0. Piped
    BY DEF DriverInv
  <2>1. CASE b = <<>>
    <3>1. sch'.running = sch.running /\ wire' = wire
      BY <1>2, <2>1 DEF Scheduled
    <3> QED BY <1>3, <2>0, <3>1 DEF Piped, Aligned, Updates
  <2>2. CASE b # <<>>
    <3> DEFINE runs == sch.running
               R == Len(results)
               T == Len(tokens)
               I == Len(inputs)
               X == Len(wire)
               u == Updates(wire)
               p == Payload(b, sch.frees)
               row == RowsOf(b)
    <3>1. sch'.running = Append(runs, row) /\ wire' = Append(wire, p)
      BY <1>2, <2>2 DEF Scheduled
    <3>2. /\ R \in Nat /\ T \in Nat /\ I \in Nat /\ X \in Nat /\ Len(runs) \in Nat
          /\ Len(runs) = R + T + I + X
          /\ Len(u) = X /\ IsSeq(u) /\ IsSeq(wire) /\ IsSeq(inputs)
          /\ Aligned(runs, 0, results) /\ Aligned(runs, R, tokens)
          /\ Aligned(runs, R + T, inputs) /\ Aligned(runs, R + T + I, u)
      <4>1. IsSeq(wire) /\ IsSeq(inputs) /\ results \in Seq(Seq(Tokens)) /\ tokens \in Seq(Seq(Tokens))
        BY <2>0 DEF Piped
      <4> QED BY <1>9, <2>0, <4>1, SeqFacts, UpdatesFacts DEF Piped
    <3>3. IsSeq(p.updates) /\ Len(p.updates) = Len(row)
      <4>1. DOMAIN b = 1 .. Len(b) /\ Len(b) \in Nat /\ Len(row) = Len(b)
        BY <1>4, RowsOfOK
      <4>2. p.updates = [i \in 1 .. Len(b) |-> p.updates[i]]
        BY <4>1 DEF Payload
      <4> HIDE DEF p, row
      <4> QED BY <4>1, <4>2, FcnIsSeq, Zenon
    <3> HIDE DEF runs, u, p, row, R, T, I, X
    <3>4. IsSeq(runs) /\ Append(runs, row)[Len(runs) + 1] = row /\ Len(Append(runs, row)) = Len(runs) + 1
      BY <1>9, SeqFacts DEF runs
    <3>5. 0 + R <= Len(runs) /\ R + T <= Len(runs) /\ R + T + I <= Len(runs) /\ R + T \in Nat
          /\ R + T + I \in Nat /\ R + T + I + X <= Len(runs)
      BY <3>2
    <3>6. Aligned(Append(runs, row), 0, results)
      BY <3>2, <3>4, <3>5, AlignedMore DEF R
    <3>7. Aligned(Append(runs, row), R, tokens)
      BY <3>2, <3>4, <3>5, AlignedMore DEF T
    <3>8. Aligned(Append(runs, row), R + T, inputs)
      BY <3>2, <3>4, <3>5, AlignedMore DEF I
    <3>9. Aligned(Append(runs, row), R + T + I, u)
      BY <3>2, <3>4, <3>5, AlignedMore
    <3>10. Aligned(Append(runs, row), R + T + I, Append(u, p.updates))
      <4> DEFINE v == Append(u, p.updates)
                 w == Append(runs, row)
      <4>1. /\ IsSeq(v) /\ Len(v) = X + 1 /\ v[X + 1] = p.updates
            /\ \A k \in 1 .. X : v[k] = u[k]
        BY <3>2, SeqFacts
      <4>2. w[R + T + I + (X + 1)] = row
        <5>1. R + T + I + (X + 1) = Len(runs) + 1
          BY <3>2
        <5> QED BY <3>4, <5>1
      <4> HIDE DEF v, w
      <4>3. ASSUME NEW k \in 1 .. Len(v) PROVE IsSeq(v[k]) /\ Len(v[k]) = Len(w[R + T + I + k])
        <5>1. CASE k \in 1 .. X
          <6>1. IsSeq(u[k]) /\ Len(u[k]) = Len(w[R + T + I + k])
            BY <3>2, <3>9, <5>1 DEF Aligned, w
          <6> QED BY <4>1, <5>1, <6>1
        <5>2. CASE k = X + 1
          BY <3>3, <4>1, <4>2, <5>2
        <5> QED BY <3>2, <4>1, <4>3, <5>1, <5>2
      <4>4. Aligned(w, R + T + I, v)
        BY <4>1, <4>3 DEF Aligned
      <4> QED BY <4>4 DEF v, w
    <3>11. /\ Updates(wire') = Append(u, p.updates) /\ IsSeq(wire') /\ Len(wire') = X + 1
      BY <3>1, <3>2, UpdatesAppend, SeqFacts DEF u, X
    <3>12. Len(sch'.running) = R + T + I + (X + 1)
      BY <3>1, <3>2, <3>4
    <3>13. /\ Aligned(sch'.running, 0, results') /\ Aligned(sch'.running, Len(results'), tokens')
           /\ Aligned(sch'.running, Len(results') + Len(tokens'), inputs')
           /\ Aligned(sch'.running, Len(results') + Len(tokens') + Len(inputs'), Updates(wire'))
           /\ Len(sch'.running) = Len(results') + Len(tokens') + Len(inputs') + Len(wire')
      BY <1>3, <3>1, <3>6, <3>7, <3>8, <3>10, <3>11, <3>12 DEF R, T, I
    <3>14. /\ results' \in Seq(Seq(Tokens)) /\ tokens' \in Seq(Seq(Tokens)) /\ IsSeq(inputs')
      BY <1>3, <2>0 DEF Piped
    <3> QED BY <3>11, <3>13, <3>14 DEF Piped
  <2> QED BY <2>1, <2>2
<1> QED BY <1>3, <1>12, <1>13, <1>14 DEF DriverInv, Calls

\* The scheduler ends a request when its output ends.
LEMMA FinishedIsEnded ==
  ASSUME NEW q \in Reqs, NEW p, NEW o \in Seq(Tokens), p.tok = Prompt[q] \o o, o # <<>>,
         p.computed >= p.prompt, Len(o) <= OutLen[q]
  PROVE  Finished(q, p) <=> Requests!Ended(q, o)
<1> DEFINE w == Prompt[q]
<1>1. w \in Seq(Alphabet) /\ Len(w) \in Nat
  BY PromptIn
<1>2. OutLen[q] \in Nat
  BY SchedulerAssumption
<1>3. PICK X : o \in Seq(X) /\ w \in Seq(X)
  <2>1. o \in Seq(Tokens \cup Alphabet) /\ w \in Seq(Tokens \cup Alphabet)
    BY <1>1
  <2> QED BY <2>1, Zenon
<1>4. p.tok = w \o o
  OBVIOUS
<1> HIDE DEF w
<1>5. /\ Len(p.tok) = Len(w) + Len(o) /\ Len(o) \in Nat /\ Len(o) >= 1
      /\ p.tok[Len(p.tok)] = o[Len(o)]
  BY <1>1, <1>3, <1>4
<1>6. Len(p.tok) - Len(w) >= OutLen[q] <=> Len(o) = OutLen[q]
  BY <1>1, <1>2, <1>5
<1> QED BY <1>5, <1>6 DEF Finished, ComputedPrompt, Requests!Ended, w

\* One answer to the front end, or none.
Answers ==
  \/ UNCHANGED <<out, fate>>
  \/ \E T \in SUBSET Reqs : \E token \in [T -> Tokens] : Requests!Answer(T, token)

\* What an answer leaves alone.
KeptTables ==
  /\ sch'.preempted = sch.preempted /\ Range(sch'.prefill) = Range(sch.prefill)
  /\ \A q \in Reqs : /\ sch'.obj[q].table = sch.obj[q].table
                     /\ sch'.obj[q].prompt = sch.obj[q].prompt
                     /\ sch.obj[q].computed > 0 => sch'.obj[q].computed > 0

\* The oldest batch leaves the pipe.
LEMMA ProcessOutputDriver ==
  ASSUME DriverInv, ProcessOutput
  PROVE  DriverInv' /\ Answers /\ KeptTables
<1>1. CASE results = <<>>
  <2>1. /\ UNCHANGED <<sch, results, out, fate, tokens, inputs, wire>> /\ pc' = "check_abort"
    BY <1>1 DEF ProcessOutput, last
  <2>2. (\E W, D, F : Driving(W, D, F))' /\ Answering'
    BY <2>1, StillDriving
  <2>3. Piped'
    BY <2>1 DEF DriverInv, Piped, Aligned, Updates
  <2>4. KeptTables
    BY <2>1 DEF KeptTables
  <2> QED BY <2>1, <2>2, <2>3, <2>4 DEF DriverInv, Calls, Answers
<1>2. CASE results # <<>>
  <2>1. PICK W, D, F : Driving(W, D, F)
    BY DEF DriverInv
  <2> DEFINE runs == sch.running
             rows == Head(runs)
             got == Head(results)
             N == Len(rows)
             T == Read(rows, N)
             start == [sch EXCEPT !.running = Tail(@)]
             told == {i \in DOMAIN rows : ~rows[i].part}
             tok == [q \in T |-> got[CHOOSE i \in told : rows[i].req = q]]
  <2>2. /\ sch' = OutputRows(start, rows, got)
        /\ results' = Tail(results)
        /\ out' = [q \in Reqs |->
             IF \E i \in told : rows[i].req = q
             THEN Append(out[q], got[CHOOSE i \in told : rows[i].req = q]) ELSE out[q]]
        /\ fate' = [q \in Reqs |->
             IF q \in Range(sch'.frees) \ Range(sch.frees) THEN "finished" ELSE fate[q]]
        /\ pc' = "check_abort" /\ UNCHANGED <<tokens, inputs, wire>>
    BY <1>2 DEF ProcessOutput, last
  <2>3. /\ Typed(Alphabet, sch) /\ Placed(sch, W, D, F) /\ RunsOK(runs, F) /\ Len(runs) <= PP
        /\ runs \in Seq(Seq(Rows)) /\ IsSeq(runs)
        /\ fate \in [Reqs -> Fates] /\ W \cup D \cup F = {q \in Reqs : fate[q] = "live"}
        /\ W \cap F = {} /\ D \cap F = {} /\ F \subseteq Reqs
    BY <2>1 DEF Driving, Typed, Placed, IsSeq
  <2>4. /\ results \in Seq(Seq(Tokens)) /\ Aligned(runs, 0, results) /\ Len(results) \in Nat
        /\ Len(tokens) \in Nat /\ Len(inputs) \in Nat /\ Len(wire) \in Nat
        /\ Len(runs) = Len(results) + Len(tokens) + Len(inputs) + Len(wire)
        /\ IsSeq(results) /\ IsSeq(wire) /\ IsSeq(inputs) /\ tokens \in Seq(Seq(Tokens))
        /\ Aligned(runs, Len(results), tokens)
        /\ Aligned(runs, Len(results) + Len(tokens), inputs)
        /\ Aligned(runs, Len(results) + Len(tokens) + Len(inputs), Updates(wire))
        /\ Len(Updates(wire)) = Len(wire)
    <3>1. Piped
      BY DEF DriverInv
    <3>2. results \in Seq(Seq(Tokens)) /\ tokens \in Seq(Seq(Tokens)) /\ IsSeq(wire) /\ IsSeq(inputs)
      BY <3>1 DEF Piped
    <3>3. IsSeq(results)
      BY <3>2 DEF IsSeq
    <3> QED BY <3>1, <3>2, <3>3, SeqFacts, UpdatesFacts DEF Piped
  <2>5. Len(results) >= 1 /\ runs # <<>> /\ Len(runs) \in Nat
    <3>1. Len(results) >= 1
      BY <1>2, <2>4, SeqFacts
    <3> QED BY <2>3, <2>4, <3>1, SeqFacts
  <2>6. /\ rows \in Seq(Rows) /\ Tail(runs) \in Seq(Seq(Rows)) /\ Len(Tail(runs)) = Len(runs) - 1
        /\ T \subseteq F /\ RunsOK(Tail(runs), F \ T)
        /\ \A i, j \in 1 .. Len(rows) :
             ~rows[i].part /\ ~rows[j].part /\ rows[i].req = rows[j].req => i = j
    <3> HIDE DEF runs
    <3> QED BY <2>3, <2>5, RunsTail DEF Read
  <2>7. N \in Nat /\ DOMAIN rows = 1 .. N /\ \A i \in 1 .. N : got[i] \in Tokens
    <3>1. got = results[1] /\ got \in Seq(Tokens) /\ 1 \in 1 .. Len(results)
      BY <1>2, <2>4
    <3>2. Len(got) = Len(runs[0 + 1])
      BY <2>4, <3>1 DEF Aligned
    <3>3. runs[0 + 1] = rows
      BY <2>3, <2>5
    <3> HIDE DEF got, rows
    <3>4. Len(got) = N
      BY <3>2, <3>3
    <3> QED BY <2>6, <3>1, <3>4
  <2>8. told = {i \in 1 .. N : ~rows[i].part} /\ T = {rows[i].req : i \in told}
    BY <2>7 DEF Read
  <2>9. /\ DOMAIN start = SchFields /\ start.running = Tail(runs)
        /\ start.obj = sch.obj /\ start.prefill = sch.prefill /\ start.decode = sch.decode
        /\ start.pool = sch.pool /\ start.jitter = sch.jitter /\ start.frees = sch.frees
        /\ start.preempted = sch.preempted
    BY <2>3 DEF Typed, SchFields
  <2> HIDE DEF rows, got, told, runs, start
  <2>10. Typed(Alphabet, start) /\ Placed(start, W, D, F)
    <3>1. Typed(Alphabet, start)
      BY <2>3, <2>6, <2>9 DEF Typed
    <3>2. Placed(start, W, D, F)
      BY <2>3, <2>9 DEF Placed
    <3> QED BY <3>1, <3>2
  <2>11. \A i \in 1 .. N : got[i] \in Alphabet
    BY <2>7 DEF Alphabet
  <2>12. \E E : Answered(Alphabet, start, OutputRows(start, rows, got), rows, got, Len(rows), W, D, F, E)
    BY <2>6, <2>10, <2>11, OutputRowsOK
  <2>13. PICK E : Answered(Alphabet, start, sch', rows, got, N, W, D, F, E)
    BY <2>2, <2>12
  <2>14. /\ E \subseteq T /\ Typed(Alphabet, sch') /\ Placed(sch', W, D \cup (T \ E), F \ T)
         /\ sch'.running = Tail(runs) /\ sch'.preempted = sch.preempted
         /\ \A x \in Reqs \ T : sch'.obj[x] = sch.obj[x]
         /\ \A i \in told : LET o == sch.obj[rows[i].req]
                                p == sch'.obj[rows[i].req]
                            IN  /\ p.tok = Append(o.tok, got[i])
                                /\ p.prompt = o.prompt /\ p.computed >= p.prompt
                                /\ p.table = o.table /\ p.computed = o.computed + o.todo
         /\ \A q \in T : q \in E <=> Finished(q, sch'.obj[q])
         /\ \A q : q \in Range(sch'.frees) <=> q \in Range(sch.frees) \/ q \in E
    BY <2>8, <2>9, <2>13 DEF Answered
  <2> HIDE DEF N, T
  <2>15. Answering
    BY DEF DriverInv
  <2>16. /\ E \cap Range(sch.frees) = {} /\ \A q \in T : q \in Reqs /\ fate[q] = "live"
    <3>1. \A q \in T : q \in Reqs /\ fate[q] = "live"
      BY <2>3, <2>6
    <3> QED BY <2>14, <2>15, <3>1 DEF Answering
  <2>17. fate' = [q \in Reqs |-> IF q \in E THEN "finished" ELSE fate[q]]
    <3>1. \A q : q \in Range(sch'.frees) \ Range(sch.frees) <=> q \in E
      BY <2>14, <2>16
    <3> QED BY <2>2, <3>1
  <2>18. ASSUME NEW q \in T
         PROVE  LET p == sch'.obj[q]
                IN  /\ tok[q] \in Tokens /\ out'[q] = Append(out[q], tok[q])
                    /\ p.tok = Append(sch.obj[q].tok, tok[q])
                    /\ p.prompt = sch.obj[q].prompt /\ p.computed >= p.prompt
                    /\ p.table = sch.obj[q].table
                    /\ p.computed = sch.obj[q].computed + sch.obj[q].todo
    <3> DEFINE i == CHOOSE k \in told : rows[k].req = q
    <3>1. i \in told /\ rows[i].req = q /\ i \in 1 .. N /\ \E k \in told : rows[k].req = q
      BY <2>8
    <3>2. tok[q] = got[i]
      OBVIOUS
    <3>3. out'[q] = Append(out[q], got[i])
      BY <2>2, <2>16, <3>1
    <3> HIDE DEF i, tok
    <3> QED BY <2>7, <2>14, <3>1, <3>2, <3>3
  <2>19. tok \in [T -> Tokens]
    <3>1. \A q \in T : tok[q] \in Tokens
      BY <2>18
    <3> QED BY <3>1
  <2>20. out' = [q \in Reqs |-> IF q \in T THEN Append(out[q], tok[q]) ELSE out[q]]
    <3>1. \A q : q \in T <=> \E i \in told : rows[i].req = q
      BY <2>8
    <3> QED BY <2>2, <3>1
  <2> HIDE DEF tok
  <2>21. ASSUME NEW q \in T
         PROVE  /\ out'[q] \in Seq(Tokens) /\ out'[q] # <<>> /\ Len(out'[q]) <= OutLen[q]
                /\ sch'.obj[q].tok = Prompt[q] \o out'[q]
                /\ (q \in E <=> Requests!Ended(q, out'[q]))
                /\ (q \notin E => Len(out'[q]) < OutLen[q])
    <3>1. /\ out[q] \in Seq(Tokens) /\ sch.obj[q].tok = Prompt[q] \o out[q]
          /\ Len(out[q]) < OutLen[q] /\ q \in Reqs
      BY <2>15, <2>16 DEF Answering
    <3>2. OutLen[q] \in Nat /\ Len(out[q]) \in Nat
      BY <3>1, SchedulerAssumption
    <3>3. /\ tok[q] \in Tokens /\ out'[q] = Append(out[q], tok[q])
          /\ sch'.obj[q].tok = Append(sch.obj[q].tok, tok[q])
          /\ sch'.obj[q].computed >= sch'.obj[q].prompt
      BY <2>18
    <3>4. /\ out'[q] \in Seq(Tokens) /\ out'[q] # <<>> /\ Len(out'[q]) = Len(out[q]) + 1
      BY <3>1, <3>3
    <3>5. Len(out'[q]) <= OutLen[q]
      BY <3>1, <3>2, <3>4
    <3>6. sch'.obj[q].tok = Prompt[q] \o out'[q]
      <4> DEFINE w == Prompt[q]
                 o == out[q]
                 t == tok[q]
      <4>1. w \in Seq(Tokens \cup Alphabet) /\ o \in Seq(Tokens \cup Alphabet) /\ t \in Tokens \cup Alphabet
        BY <3>1, <3>3, PromptIn
      <4> HIDE DEF w, o, t
      <4>2. Append(w \o o, t) = w \o Append(o, t)
        BY <4>1
      <4> QED BY <3>1, <3>3, <4>2 DEF w, o, t
    <3>7. Finished(q, sch'.obj[q]) <=> Requests!Ended(q, out'[q])
      <4> DEFINE p == sch'.obj[q]
                 o == out'[q]
      <4>1. p.tok = Prompt[q] \o o /\ p.computed >= p.prompt /\ o \in Seq(Tokens) /\ o # <<>>
            /\ Len(o) <= OutLen[q]
        BY <3>3, <3>4, <3>5, <3>6
      <4> HIDE DEF p, o
      <4>2. Finished(q, p) <=> Requests!Ended(q, o)
        BY <3>1, <4>1, FinishedIsEnded
      <4> QED BY <4>2 DEF p, o
    <3>8. q \in E <=> Requests!Ended(q, out'[q])
      BY <2>14, <3>7
    <3>9. q \notin E => Len(out'[q]) # OutLen[q]
      BY <3>8 DEF Requests!Ended
    <3> QED BY <3>2, <3>4, <3>5, <3>6, <3>8, <3>9
  <2>22. Requests!Answer(T, tok)
    <3>1. \A q \in Reqs : q \in E <=> q \in T /\ Requests!Ended(q, out'[q])
      BY <2>14, <2>21
    <3>2. fate' = [q \in Reqs |-> IF q \in T /\ Requests!Ended(q, out'[q]) THEN "finished" ELSE fate[q]]
      BY <2>17, <3>1
    <3> QED BY <2>16, <2>20, <3>2 DEF Requests!Answer
  <2>23. Answers
    <3>1. T \in SUBSET Reqs
      BY <2>16
    <3> QED BY <2>19, <2>22, <3>1 DEF Answers
  <2>24. (\E W2, D2, F2 : Driving(W2, D2, F2))'
    <3>0. PICK X, Y : X = D \cup (T \ E) /\ Y = F \ T
      OBVIOUS
    <3>1. Len(Tail(runs)) <= PP
      <4>1. PP \in Nat
        BY SchedulerAssumption
      <4> QED BY <2>3, <2>5, <2>6, <4>1
    <3>2. fate' \in [Reqs -> Fates]
      BY <2>3, <2>17 DEF Fates
    <3>3. W \cup (D \cup (T \ E)) \cup (F \ T) = {q \in Reqs : fate'[q] = "live"}
      BY <2>3, <2>6, <2>14, <2>17
    <3>4. Driving(W, X, Y)'
      BY <2>6, <2>14, <3>0, <3>1, <3>2, <3>3 DEF Driving
    <3> QED BY <3>4
  <2>25. Answering'
    <3>1. ASSUME NEW q \in Reqs
          PROVE  /\ out'[q] \in Seq(Tokens)
                 /\ sch'.obj[q].tok = Prompt[q] \o out'[q]
                 /\ sch'.obj[q].prompt >= Len(Prompt[q])
                 /\ fate'[q] = "live" => Len(out'[q]) < OutLen[q]
                 /\ fate'[q] = "new" => out'[q] = <<>> /\ sch'.obj[q].computed = 0
      <4>1. CASE q \in T
        <5>1. sch'.obj[q].prompt = sch.obj[q].prompt
          BY <2>18, <4>1
        <5>2. fate'[q] # "new" /\ (fate'[q] = "live" => q \notin E)
          BY <2>16, <2>17, <4>1
        <5> QED BY <2>15, <2>21, <4>1, <5>1, <5>2 DEF Answering
      <4>2. CASE q \notin T
        <5>1. sch'.obj[q] = sch.obj[q] /\ out'[q] = out[q] /\ fate'[q] = fate[q]
          BY <2>14, <2>17, <2>20, <4>2
        <5> QED BY <2>15, <5>1 DEF Answering
      <4> QED BY <4>1, <4>2
    <3>2. out' \in [Reqs -> Seq(Tokens)]
      BY <2>20, <3>1
    <3>3. \A q \in Range(sch'.frees) : fate'[q] \in {"finished", "aborted"}
      <4>1. TAKE q \in Range(sch'.frees)
      <4>2. CASE q \in E
        BY <2>14, <2>16, <2>17, <4>2
      <4>3. CASE q \notin E /\ q \in Range(sch.frees)
        <5>1. q \in Reqs
          BY <2>3, <4>3 DEF Typed, Range
        <5>2. fate'[q] = fate[q]
          BY <2>17, <4>3, <5>1
        <5> QED BY <2>15, <4>3, <5>2 DEF Answering
      <4> QED BY <2>14, <4>2, <4>3
    <3> QED BY <3>1, <3>2, <3>3 DEF Answering
  <2>26. Piped'
    <3> DEFINE R == Len(results) - 1
               Q == Len(tokens)
               I == Len(inputs)
    <3>1. /\ R \in Nat /\ Len(Tail(results)) = R /\ Tail(results) \in Seq(Seq(Tokens))
          /\ IsSeq(Tail(results)) /\ \A k \in 1 .. R : Tail(results)[k] = results[k + 1]
      BY <1>2, <2>4, <2>5, SeqFacts
    <3>2. Aligned(Tail(runs), 0, Tail(results))
      <4>1. \A k \in 1 .. Len(runs) - 1 : Tail(runs)[k] = runs[k + 1]
        BY <2>3, <2>5, SeqFacts
      <4>2. ASSUME NEW k \in 1 .. R
            PROVE  IsSeq(Tail(results)[k]) /\ Len(Tail(results)[k]) = Len(Tail(runs)[0 + k])
        <5>1. k + 1 \in 1 .. Len(results) /\ k \in 1 .. Len(runs) - 1 /\ 0 + k = k /\ 0 + (k + 1) = k + 1
          BY <2>4, <2>5
        <5>2. IsSeq(results[k + 1]) /\ Len(results[k + 1]) = Len(runs[0 + (k + 1)])
          BY <2>4, <5>1 DEF Aligned
        <5> QED BY <3>1, <4>1, <5>1, <5>2
      <4> QED BY <3>1, <4>2 DEF Aligned
    <3>3. Len(results) = R + 1 /\ Q \in Nat /\ I \in Nat /\ R + 1 + Q = (R + Q) + 1
          /\ R + 1 + Q + I = (R + Q + I) + 1
      BY <2>4
    <3>4. Aligned(Tail(runs), R, tokens)
      <4>1. Aligned(runs, R + 1, tokens) /\ R + 1 + Len(tokens) <= Len(runs)
        BY <2>4, <3>3
      <4> QED BY <2>3, <2>5, <3>1, <4>1, AlignedLess
    <3>5. Aligned(Tail(runs), R + Q, inputs)
      <4>1. Aligned(runs, (R + Q) + 1, inputs) /\ (R + Q) + 1 + Len(inputs) <= Len(runs) /\ R + Q \in Nat
        BY <2>4, <3>1, <3>3
      <4> QED BY <2>3, <2>5, <4>1, AlignedLess
    <3>6. Aligned(Tail(runs), R + Q + I, Updates(wire))
      <4>1. /\ Aligned(runs, (R + Q + I) + 1, Updates(wire)) /\ R + Q + I \in Nat
            /\ (R + Q + I) + 1 + Len(Updates(wire)) <= Len(runs)
        BY <2>4, <3>1, <3>3
      <4> QED BY <2>3, <2>5, <4>1, AlignedLess
    <3>7. Len(Tail(runs)) = R + Q + I + Len(wire)
      BY <2>4, <2>6
    <3>8. /\ Len(results') = R /\ Len(tokens') = Q /\ Len(inputs') = I /\ Len(wire') = Len(wire)
          /\ results' = Tail(results) /\ tokens' = tokens /\ inputs' = inputs /\ wire' = wire
          /\ sch'.running = Tail(runs)
      BY <2>2, <2>14, <3>1
    <3> HIDE DEF R, Q, I
    <3> QED BY <2>4, <3>1, <3>2, <3>4, <3>5, <3>6, <3>7, <3>8 DEF Piped
  <2>27. KeptTables
    <3>1. Range(sch'.prefill) = Range(sch.prefill)
      BY <2>3, <2>14, ListsRange DEF Placed
    <3>2. ASSUME NEW q \in Reqs
          PROVE  /\ sch'.obj[q].table = sch.obj[q].table
                 /\ sch'.obj[q].prompt = sch.obj[q].prompt
                 /\ sch.obj[q].computed > 0 => sch'.obj[q].computed > 0
      <4>1. CASE q \in T
        <5>1. sch.obj[q].computed \in Nat /\ sch.obj[q].todo \in Nat
          BY <2>3 DEF Typed, ObjOK
        <5> QED BY <2>18, <4>1, <5>1
      <4>2. CASE q \notin T
        BY <2>14, <4>2
      <4> QED BY <4>1, <4>2
    <3> QED BY <2>14, <3>1, <3>2 DEF KeptTables
  <2> QED BY <2>2, <2>23, <2>24, <2>25, <2>26, <2>27 DEF DriverInv, Calls
<1> QED BY <1>1, <1>2

-----------------------------------------------------------------------------
(* The theorems about the driver. *)

\* How often a queue has q.
LEMMA ListsCount ==
  ASSUME NEW s, NEW S, Lists(s, S), NEW q
  PROVE  Cardinality({i \in DOMAIN s : s[i] = q}) = IF q \in S THEN 1 ELSE 0
<1> DEFINE J == {i \in DOMAIN s : s[i] = q}
<1>1. DOMAIN s = 1 .. Len(s)
  BY DEF Lists
<1>2. CASE q \in S
  <2>1. PICK i \in 1 .. Len(s) : s[i] = q
    BY <1>2 DEF Lists
  <2>2. J = {i}
    BY <1>1, <2>1 DEF Lists, Injective
  <2> QED BY <1>2, <2>2, FS_Singleton
<1>3. CASE q \notin S
  <2>1. J = {}
    BY <1>1, <1>3 DEF Lists
  <2> QED BY <1>3, <2>1, FS_EmptySet
<1> QED BY <1>2, <1>3

\* How many running batches will tell the front end of q.
LEMMA RunsCount ==
  ASSUME NEW runs \in Seq(Seq(Rows)), NEW F, RunsOK(runs, F), NEW q \in Reqs
  PROVE  Cardinality({b \in DOMAIN runs : [req |-> q, part |-> FALSE] \in Range(runs[b])})
           = IF q \in F THEN 1 ELSE 0
<1> DEFINE x == [req |-> q, part |-> FALSE]
           J == {b \in DOMAIN runs : x \in Range(runs[b])}
<1>1. DOMAIN runs = 1 .. Len(runs)
  OBVIOUS
<1>2. ASSUME NEW b \in 1 .. Len(runs), NEW i \in 1 .. Len(runs[b])
      PROVE  runs[b][i] = x <=> runs[b][i].req = q /\ ~runs[b][i].part
  <2> DEFINE r == runs[b][i]
  <2>1. r \in [req : Reqs, part : BOOLEAN]
    <3>1. r \in Rows
      OBVIOUS
    <3> HIDE DEF r
    <3> QED BY <3>1 DEF Rows
  <2> HIDE DEF r
  <2>2. r = [req |-> r.req, part |-> r.part] /\ r.part \in BOOLEAN
    BY <2>1
  <2>3. r = x => r.req = q /\ ~r.part
    OBVIOUS
  <2>4. ASSUME r.req = q, ~r.part PROVE r = x
    <3>1. r.part = FALSE
      BY <2>2, <2>4
    <3> QED BY <2>2, <2>4, <3>1
  <2>5. r = x <=> r.req = q /\ ~r.part
    BY <2>3, <2>4
  <2> QED BY <2>5 DEF r
<1>3. \A b \in 1 .. Len(runs) : DOMAIN runs[b] = 1 .. Len(runs[b])
  <2>1. TAKE b \in 1 .. Len(runs)
  <2>2. runs[b] \in Seq(Rows)
    OBVIOUS
  <2> QED BY <2>2
<1> DEFINE Has(b) == \E i \in 1 .. Len(runs[b]) : runs[b][i].req = q /\ ~runs[b][i].part
<1> HIDE DEF x
<1>4. \A b \in 1 .. Len(runs) : x \in Range(runs[b]) <=> Has(b)
  <2>1. TAKE b \in 1 .. Len(runs)
  <2>2. x \in Range(runs[b]) <=> \E i \in 1 .. Len(runs[b]) : runs[b][i] = x
    BY <1>3 DEF Range
  <2> QED BY <1>2, <2>2
<1>5. ASSUME NEW b \in 1 .. Len(runs), NEW c \in 1 .. Len(runs), Has(b), Has(c) PROVE b = c
  <2>1. PICK i \in 1 .. Len(runs[b]) : runs[b][i].req = q /\ ~runs[b][i].part
    BY <1>5
  <2>2. PICK j \in 1 .. Len(runs[c]) : runs[c][j].req = q /\ ~runs[c][j].part
    BY <1>5
  <2>3. runs[b][i].req = runs[c][j].req
    BY <2>1, <2>2
  <2> QED BY <2>1, <2>2, <2>3 DEF RunsOK
<1>6. ASSUME NEW b \in 1 .. Len(runs), Has(b) PROVE q \in F
  <2>1. PICK i \in 1 .. Len(runs[b]) : runs[b][i].req = q /\ ~runs[b][i].part
    BY <1>6
  <2> QED BY <2>1 DEF RunsOK
<1>7. q \in F => \E b \in 1 .. Len(runs) : Has(b)
  BY DEF RunsOK
<1> HIDE DEF Has
<1>8. CASE q \in F
  <2>1. PICK b \in 1 .. Len(runs) : Has(b)
    BY <1>7, <1>8
  <2>2. J = {b}
    BY <1>1, <1>4, <1>5, <2>1
  <2> QED BY <1>8, <2>2, FS_Singleton DEF x
<1>9. CASE q \notin F
  <2>1. J = {}
    BY <1>1, <1>4, <1>6, <1>9
  <2> QED BY <1>9, <2>1, FS_EmptySet DEF x
<1> QED BY <1>8, <1>9

\* The invariant is kept by every step.
LEMMA NextDriver ==
  ASSUME DriverInv, [Next]_vars
  PROVE  DriverInv'
<1>1. CASE UNCHANGED vars
  <2>1. UNCHANGED <<sch, pc, results, inputs, tokens, wire, out, fate>>
    BY <1>1 DEF vars
  <2> QED BY <2>1 DEF DriverInv, Driving, Answering, Piped, Aligned, Updates
<1>2. CASE Next
  BY <1>2, CheckAbortDriver, RecvIpcDriver, RecvNextTokensDriver, ScheduleDriver,
     ProcessOutputDriver, RecvPayloadDriver, ForwardDriver DEF Next, Driver, LastStage
<1> QED BY <1>1, <1>2

\* The invariant of the driver holds of every behaviour: where each request is, what
\* its client has been told, and which batch each part of the pipe belongs to.
THEOREM DriverInvariance == Spec => []DriverInv
<1>1. Init => DriverInv
  BY InitDriver
<1>2. DriverInv /\ [Next]_vars => DriverInv'
  BY NextDriver
<1> QED BY <1>1, <1>2, PTL DEF Spec

\* A live request is in exactly one place and no other request is in any (schedule_once,
\* process_output, check_abort_seqs), for every load, pipe depth and page pool.
THEOREM RequestsAreInOnePlace == Spec => []InOnePlace
<1>1. DriverInv => InOnePlace
  <2>1. SUFFICES ASSUME DriverInv, NEW q \in Reqs
                 PROVE  Places(q) = IF fate[q] = "live" THEN 1 ELSE 0
    BY DEF InOnePlace
  <2>2. PICK W, D, F : Driving(W, D, F)
    BY <2>1 DEF DriverInv
  <2>3. /\ Lists(sch.prefill, W) /\ Lists(sch.decode, D)
        /\ sch.running \in Seq(Seq(Rows)) /\ RunsOK(sch.running, F)
        /\ W \cap D = {} /\ W \cap F = {} /\ D \cap F = {}
        /\ W \cup D \cup F = {x \in Reqs : fate[x] = "live"}
    BY <2>2 DEF Driving, Placed, Typed
  <2>4. Cardinality(Waiting(q)) = IF q \in W THEN 1 ELSE 0
    BY <2>3, ListsCount DEF Waiting
  <2>5. Cardinality(Decoding(q)) = IF q \in D THEN 1 ELSE 0
    BY <2>3, ListsCount DEF Decoding
  <2>6. Cardinality(InFlight(q)) = IF q \in F THEN 1 ELSE 0
    BY <2>3, RunsCount DEF InFlight
  <2>7. Places(q) = IF q \in W \cup D \cup F THEN 1 ELSE 0
    BY <2>3, <2>4, <2>5, <2>6 DEF Places
  <2> QED BY <2>3, <2>7
<1> QED BY <1>1, DriverInvariance, PTL

\* What a request is conditioned on is its prompt and the tokens its client got, in
\* order (process_output, preempt), for every load, pipe depth and page pool.
THEOREM StreamsAreOutput == Spec => []StreamIsOutput
<1>1. DriverInv => StreamIsOutput
  BY DEF DriverInv, Answering, StreamIsOutput
<1> QED BY <1>1, DriverInvariance, PTL

\* The engine implements the requests that the front end relies on: every step is a
\* step of GbRequests or a stutter.
THEOREM EngineImplementsRequests == Spec => ImplementsRequests
<1>1. Init => Requests!Init
  BY DEF Init, Requests!Init
<1>2. ASSUME DriverInv, [Next]_vars PROVE [Requests!Next]_<<out, fate>>
  <2>1. CASE UNCHANGED vars
    BY <2>1 DEF vars
  <2>2. CASE CheckAbortSeqs
    <3>1. Aborted(sch) \in SUBSET Reqs /\ \A q \in Aborted(sch) : fate[q] = "live"
      BY <1>2, <2>2, CheckAbortDriver
    <3>2. /\ fate' = [q \in Reqs |-> IF q \in Aborted(sch) THEN "aborted" ELSE fate[q]]
          /\ out' = out
      BY <2>2 DEF CheckAbortSeqs
    <3>3. Requests!Abort(Aborted(sch))
      BY <3>1, <3>2 DEF Requests!Abort
    <3> QED BY <3>1, <3>3 DEF Requests!Next
  <2>3. CASE RecvIpcPackage
    <3>1. PICK S \in SUBSET {q \in Reqs : fate[q] = "new"} :
                 fate' = [q \in Reqs |-> IF q \in S THEN "live" ELSE fate[q]]
      BY <1>2, <2>3, RecvIpcDriver
    <3>2. out' = out
      BY <2>3 DEF RecvIpcPackage
    <3>3. S \in SUBSET Reqs /\ Requests!Admit(S)
      BY <3>1, <3>2 DEF Requests!Admit
    <3> QED BY <3>3 DEF Requests!Next
  <2>4. CASE ProcessOutput
    <3>1. Answers
      BY <1>2, <2>4, ProcessOutputDriver
    <3> QED BY <3>1 DEF Answers, Requests!Next
  <2>5. CASE RecvNextTokens \/ ScheduleForward \/ RecvSchedulePayload \/ ForwardPp
    BY <2>5 DEF RecvNextTokens, ScheduleForward, RecvSchedulePayload, ForwardPp
  <2> QED BY <1>2, <2>1, <2>2, <2>3, <2>4, <2>5 DEF Next, Driver, LastStage
<1>3. DriverInv /\ [Next]_vars => [Requests!Next]_(Requests!vars)
  BY <1>2 DEF Requests!vars
<1> QED BY <1>1, <1>3, DriverInvariance, PTL DEF Spec, ImplementsRequests, Requests!Spec

-----------------------------------------------------------------------------
(* The mirror. *)

\* apply_payload, update after update.
LEMMA AppliedLoop ==
  ASSUME NEW store, NEW p, Len(p.updates) \in Nat
  PROVE  \E f : /\ f[0] = Registered(store, p.registers)
                /\ \A n \in 1 .. Len(p.updates) : f[n] = Mirrored(f[n - 1], p.updates[n])
                /\ Applied(store, p) = f[Len(p.updates)]
<1> DEFINE Good(k, f) ==
             f = [n \in 0 .. k |-> IF n = 0 THEN Registered(store, p.registers) ELSE Mirrored(f[n - 1], p.updates[n])]
           G == {k \in 0 .. Len(p.updates) : \E f : Good(k, f)}
           c == CHOOSE f : Good(Len(p.updates), f)
<1>1. Good(0, [n \in 0 .. 0 |-> Registered(store, p.registers)])
  OBVIOUS
<1>2. ASSUME NEW m \in 1 .. Len(p.updates), NEW g, Good(m - 1, g)
      PROVE  Good(m, [n \in 0 .. m |-> IF n = m THEN Mirrored(g[m - 1], p.updates[m]) ELSE g[n]])
  <2> DEFINE next == Mirrored(g[m - 1], p.updates[m])
             h == [n \in 0 .. m |-> IF n = m THEN next ELSE g[n]]
  <2> HIDE DEF next
  <2>1. \A n \in 0 .. m - 1 : g[n] = IF n = 0 THEN Registered(store, p.registers) ELSE Mirrored(g[n - 1], p.updates[n])
    BY <1>2
  <2>2. \A n \in 0 .. m - 1 : h[n] = g[n]
    OBVIOUS
  <2>3. \A n \in 0 .. m : h[n] = IF n = 0 THEN Registered(store, p.registers) ELSE Mirrored(h[n - 1], p.updates[n])
    BY <2>1, <2>2 DEF next
  <2>4. Good(m, h)
    BY <2>3
  <2> QED BY <2>4 DEF next
<1>3. ASSUME Good(Len(p.updates), c)
      PROVE  /\ c[0] = Registered(store, p.registers)
             /\ \A n \in 1 .. Len(p.updates) : c[n] = Mirrored(c[n - 1], p.updates[n])
  <2> HIDE DEF c
  <2> QED BY <1>3
<1>4. Applied(store, p) = c[Len(p.updates)]
  BY DEF Applied
<1> HIDE DEF Good, c
<1>5. 0 \in G
  BY <1>1
<1>6. ASSUME NEW m \in 1 .. Len(p.updates), m - 1 \in G
      PROVE  m \in G
  <2>1. PICK g : Good(m - 1, g)
    BY <1>6 DEF G
  <2>2. m \in 0 .. Len(p.updates)
    OBVIOUS
  <2> QED BY <1>2, <2>1, <2>2 DEF G
<1> HIDE DEF G
<1>7. \A n \in 0 .. Len(p.updates) : n \in G
  BY <1>5, <1>6, Induct, Zenon
<1>8. \E f : Good(Len(p.updates), f)
  BY <1>7 DEF G
<1>9. Good(Len(p.updates), c)
  BY <1>8 DEF c
<1> QED BY <1>3, <1>4, <1>9

Fields == {"table", "prompt"}

\* What the followers keep.
IsStore(store) == DOMAIN store \subseteq Reqs /\ \A q \in DOMAIN store : DOMAIN store[q] = Fields

\* R is store after the registers.
RegistersDone(store, registers, R) ==
  /\ IsStore(R) /\ DOMAIN R = DOMAIN store \cup {r.req : r \in registers}
  /\ R = [q \in DOMAIN R |-> R[q]]
  /\ \A q \in DOMAIN R : (\A r \in registers : r.req # q) => R[q] = store[q]
  /\ \A r \in registers : (\A x \in registers : x.req = r.req => x = r) =>
       R[r.req].table = <<>> /\ R[r.req].prompt = r.prompt

\* The registers of a payload.
LEMMA RegisteredOK ==
  ASSUME NEW store, NEW registers, IsStore(store), \A r \in registers : r.req \in Reqs
  PROVE  RegistersDone(store, registers, Registered(store, registers))
<1> DEFINE R == Registered(store, registers)
           fresh(q) == {r \in registers : r.req = q}
           D == DOMAIN store \cup {r.req : r \in registers}
<1>1. R = [q \in D |-> IF fresh(q) = {} THEN store[q]
                      ELSE [table |-> <<>>, prompt |-> (CHOOSE r \in fresh(q) : TRUE).prompt]]
  BY DEF Registered
<1> HIDE DEF R
<1>2. DOMAIN R = D /\ R = [q \in DOMAIN R |-> R[q]]
  BY <1>1
<1>3. D \subseteq Reqs
  BY DEF IsStore
<1>4. ASSUME NEW q \in D PROVE DOMAIN R[q] = Fields
  <2>1. CASE fresh(q) = {}
    <3>1. q \in DOMAIN store
      BY <2>1
    <3>2. R[q] = store[q]
      BY <1>1, <2>1
    <3> QED BY <3>1, <3>2 DEF IsStore
  <2>2. CASE fresh(q) # {}
    <3>1. R[q] = [table |-> <<>>, prompt |-> (CHOOSE r \in fresh(q) : TRUE).prompt]
      BY <1>1, <2>2
    <3> QED BY <3>1 DEF Fields
  <2> QED BY <2>1, <2>2
<1>5. ASSUME NEW q \in D, \A r \in registers : r.req # q PROVE R[q] = store[q]
  <2>1. fresh(q) = {}
    BY <1>5
  <2> QED BY <1>1, <2>1
<1>6. ASSUME NEW r \in registers, \A x \in registers : x.req = r.req => x = r
      PROVE  R[r.req].table = <<>> /\ R[r.req].prompt = r.prompt
  <2>1. fresh(r.req) = {r} /\ r.req \in D
    BY <1>6
  <2>2. (CHOOSE x \in fresh(r.req) : TRUE) = r
    BY <2>1
  <2>3. R[r.req] = [table |-> <<>>, prompt |-> r.prompt]
    BY <1>1, <2>1, <2>2
  <2> QED BY <2>3
<1>7. RegistersDone(store, registers, R)
  BY <1>2, <1>3, <1>4, <1>5, <1>6 DEF IsStore, RegistersDone
<1> QED BY <1>7 DEF R

\* At most one update of a request.
Distinct(updates) ==
  \A i, j \in 1 .. Len(updates) : updates[i].req = updates[j].req => i = j

\* now is R after the first n updates of p.
Mirroring(R, now, updates, n) ==
  /\ DOMAIN now = DOMAIN R /\ \A q \in DOMAIN R : DOMAIN now[q] = Fields
  /\ \A q \in DOMAIN R : now[q].prompt = R[q].prompt
  /\ \A q \in DOMAIN R : (\A i \in 1 .. n : updates[i].req # q) => now[q] = R[q]
  /\ \A i \in 1 .. n : LET u == updates[i] IN
       u.req \in DOMAIN R =>
         now[u.req].table = (IF u.reset THEN <<>> ELSE R[u.req].table) \o u.pages

\* One update more.
LEMMA MirroringNext ==
  ASSUME NEW R, NEW now, NEW updates, Distinct(updates), NEW n \in 1 .. Len(updates),
         Mirroring(R, now, updates, n - 1), Len(updates) \in Nat
  PROVE  Mirroring(R, Mirrored(now, updates[n]), updates, n)
<1> DEFINE u == updates[n]
           x == u.req
           t == Mirrored(now, u)
<1>1. t = [now EXCEPT ![x].table = (IF u.reset THEN <<>> ELSE @) \o u.pages]
  BY DEF Mirrored
<1>2. \A i \in 1 .. n : i \in 1 .. n - 1 \/ i = n
  OBVIOUS
<1>3. \A i \in 1 .. n - 1 : updates[i].req # x /\ i \in 1 .. n
  <2>1. TAKE i \in 1 .. n - 1
  <2>2. i \in 1 .. Len(updates) /\ i # n /\ i \in 1 .. n
    OBVIOUS
  <2> QED BY <2>2 DEF Distinct
<1>4. n \in 1 .. n
  OBVIOUS
<1> HIDE DEF t
<1>5. DOMAIN t = DOMAIN now /\ \A q \in DOMAIN now \ {x} : t[q] = now[q]
  BY <1>1
<1>6. ASSUME x \in DOMAIN R
      PROVE  /\ DOMAIN t[x] = Fields /\ t[x].prompt = R[x].prompt
             /\ t[x].table = (IF u.reset THEN <<>> ELSE R[x].table) \o u.pages
  <2>1. now[x] = R[x] /\ DOMAIN now[x] = Fields /\ x \in DOMAIN now
    BY <1>3, <1>6 DEF Mirroring
  <2>2. t[x] = [now[x] EXCEPT !.table = (IF u.reset THEN <<>> ELSE @) \o u.pages]
    BY <1>1, <2>1
  <2> DEFINE o == now[x]
  <2> HIDE DEF o
  <2>3. t[x] = [o EXCEPT !.table = (IF u.reset THEN <<>> ELSE o.table) \o u.pages] /\ DOMAIN o = Fields
        /\ o = R[x]
    BY <2>1, <2>2 DEF o
  <2> QED BY <2>3 DEF Fields
<1> HIDE DEF x
<1>7. ASSUME NEW q \in DOMAIN R, q # x
      PROVE  t[q] = now[q]
  BY <1>5, <1>7 DEF Mirroring
<1>8. ASSUME NEW q \in DOMAIN R
      PROVE  /\ DOMAIN t[q] = Fields /\ t[q].prompt = R[q].prompt
             /\ (\A i \in 1 .. n : updates[i].req # q) => t[q] = R[q]
  <2>1. CASE q = x
    BY <1>4, <1>6, <2>1 DEF x
  <2>2. CASE q # x
    <3>1. t[q] = now[q]
      BY <1>7, <2>2
    <3> QED BY <1>3, <3>1 DEF Mirroring
  <2> QED BY <2>1, <2>2
<1>9. ASSUME NEW i \in 1 .. n, updates[i].req \in DOMAIN R
      PROVE  LET v == updates[i]
             IN  t[v.req].table = (IF v.reset THEN <<>> ELSE R[v.req].table) \o v.pages
  <2>1. CASE i = n
    BY <1>6, <1>9, <2>1 DEF x
  <2>2. CASE i \in 1 .. n - 1
    <3>1. t[updates[i].req] = now[updates[i].req]
      BY <1>3, <1>7, <1>9, <2>2
    <3> QED BY <1>9, <2>2, <3>1 DEF Mirroring
  <2> QED BY <1>2, <2>1, <2>2
<1>10. DOMAIN t = DOMAIN R
  BY <1>5 DEF Mirroring
<1>11. Mirroring(R, t, updates, n)
  BY <1>8, <1>9, <1>10 DEF Mirroring
<1> QED BY <1>11 DEF t

\* apply_payload up to the frees.
LEMMA AppliedOK ==
  ASSUME NEW store, NEW p, IsStore(store), \A r \in p.registers : r.req \in Reqs,
         IsSeq(p.updates), Distinct(p.updates)
  PROVE  Mirroring(Registered(store, p.registers), Applied(store, p), p.updates, Len(p.updates))
<1> DEFINE R == Registered(store, p.registers)
           N == Len(p.updates)
<1>1. N \in Nat
  BY SeqFacts
<1>2. PICK f : /\ f[0] = R
               /\ \A n \in 1 .. N : f[n] = Mirrored(f[n - 1], p.updates[n])
               /\ Applied(store, p) = f[N]
  BY <1>1, AppliedLoop
<1>3. IsStore(R)
  BY RegisteredOK DEF RegistersDone
<1> HIDE DEF R
<1> DEFINE OK(n) == Mirroring(R, f[n], p.updates, n)
           G == {n \in 0 .. N : OK(n)}
<1>4. OK(0)
  BY <1>2, <1>3 DEF Mirroring, IsStore
<1>5. ASSUME NEW n \in 1 .. N, OK(n - 1) PROVE OK(n)
  <2>1. Mirroring(R, Mirrored(f[n - 1], p.updates[n]), p.updates, n)
    BY <1>1, <1>5, MirroringNext
  <2> QED BY <1>2, <2>1
<1> HIDE DEF OK
<1>6. 0 \in G
  BY <1>1, <1>4
<1>7. ASSUME NEW n \in 1 .. N, n - 1 \in G PROVE n \in G
  BY <1>5, <1>7
<1> HIDE DEF G
<1>8. \A n \in 0 .. N : n \in G
  BY <1>1, <1>6, <1>7, Induct, Zenon
<1>9. OK(N)
  BY <1>1, <1>8 DEF G
<1> QED BY <1>2, <1>9 DEF OK, R

-----------------------------------------------------------------------------
(* What is on its way to the mirror. *)

\* The mirror after the payload p.
After(store, p) == [q \in DOMAIN Applied(store, p) \ p.frees |-> Applied(store, p)[q]]

\* The last stage will compute on what the driver has, for the payload p.
Exact(store, p) ==
  \A i \in 1 .. Len(p.updates) :
    LET u == p.updates[i]
        now == Applied(store, p)
    IN  u.req \notin sch.preempted =>
          u.real = [table |-> now[u.req].table, decodes |-> u.from >= now[u.req].prompt]

\* m is what the followers will have of q: the part of its table that was sent.
Sent(m, q) ==
  /\ m.prompt = sch.obj[q].prompt
  /\ m.table \in Seq(Pages) /\ Len(m.table) = lastLen[q]
  /\ Extends(m.table, sch.obj[q].table)

\* v[k] is the mirror after the first k payloads that are on their way.
View(v) ==
  /\ v[0] = mirror
  /\ \A k \in 1 .. Len(wire) : v[k] = After(v[k - 1], wire[k]) /\ Exact(v[k - 1], wire[k])
  /\ \A k \in 0 .. Len(wire) : IsStore(v[k])
  /\ DOMAIN v[Len(wire)] = known
  /\ \A q \in known \ sch.preempted : Sent(v[Len(wire)][q], q)

\* A request that the followers know has been in a batch.
Begun ==
  /\ known \subseteq Reqs /\ lastLen \in [Reqs -> Nat]
  /\ \A q \in known : /\ fate[q] # "new"
                      /\ q \in sch.preempted \/ q \notin Range(sch.prefill)
                           \/ sch.obj[q].computed > 0

MirrorInv == (\E v : View(v)) /\ Begun /\ MirrorExactUnpreempted

-----------------------------------------------------------------------------
(* Steps of the driver that send nothing. *)

Silent ==
  /\ sch'.preempted = sch.preempted
  /\ \A q \in Reqs : /\ sch'.obj[q].table = sch.obj[q].table
                     /\ sch'.obj[q].prompt = sch.obj[q].prompt
                     /\ sch.obj[q].computed > 0 => sch'.obj[q].computed > 0
                     /\ q \in Range(sch'.prefill) => q \in Range(sch.prefill) \/ fate[q] = "new"
                     /\ fate'[q] = "new" => fate[q] = "new"
  /\ UNCHANGED <<known, lastLen, wire, mirror>>

\* Steps that send nothing and move no table leave the mirror as good as it was.
LEMMA SilentMirror ==
  ASSUME MirrorInv, Silent, MirrorExactUnpreempted'
  PROVE  MirrorInv'
<1>1. PICK v : View(v)
  BY DEF MirrorInv
<1>2. \A q \in known : q \in Reqs
  BY DEF MirrorInv, Begun
<1>3. \A q \in known : \A m : Sent(m, q) => Sent(m, q)'
  BY <1>2 DEF Sent, Silent
<1>4. View(v)'
  <2>1. \A k \in 1 .. Len(wire) : Exact(v[k - 1], wire[k])'
    BY <1>1 DEF View, Exact, Silent
  <2> QED BY <1>1, <1>3, <2>1 DEF View, Silent
<1>5. Begun'
  <2>1. Begun
    BY DEF MirrorInv
  <2>2. ASSUME NEW q \in known
        PROVE  /\ fate'[q] # "new"
               /\ q \in sch'.preempted \/ q \notin Range(sch'.prefill) \/ sch'.obj[q].computed > 0
    BY <1>2, <2>1 DEF Begun, Silent
  <2> QED BY <2>1, <2>2 DEF Begun, Silent
<1> QED BY <1>4, <1>5 DEF MirrorInv

LEMMA SameInputs ==
  ASSUME MirrorExactUnpreempted, inputs' = inputs, sch'.preempted = sch.preempted
  PROVE  MirrorExactUnpreempted'
BY DEF MirrorExactUnpreempted

LEMMA CheckAbortMirror ==
  ASSUME DriverInv, MirrorInv, CheckAbortSeqs
  PROVE  MirrorInv'
<1>0. PICK X : X = Aborted(sch)
  OBVIOUS
<1>1. PICK W, D, F : Driving(W, D, F)
  BY DEF DriverInv
<1>2. Typed(Alphabet, sch) /\ Placed(sch, W, D, F)
  BY <1>1 DEF Driving
<1>3. GivenUp(Alphabet, sch, CheckAbort(sch), W, D, F, X)
  BY <1>0, <1>2, CheckAbortOK
<1>4. /\ sch' = CheckAbort(sch)
      /\ fate' = [q \in Reqs |-> IF q \in X THEN "aborted" ELSE fate[q]]
      /\ UNCHANGED <<known, lastLen, wire, mirror, inputs>>
  BY <1>0 DEF CheckAbortSeqs, driver, last
<1>5. /\ sch'.obj = sch.obj /\ sch'.preempted = sch.preempted
      /\ Range(sch'.prefill) = W \ X /\ Range(sch.prefill) = W
  BY <1>2, <1>3, <1>4, ListsRange DEF GivenUp, Placed
<1>6. Silent
  BY <1>4, <1>5 DEF Silent
<1> QED BY <1>4, <1>5, <1>6, SilentMirror, SameInputs DEF MirrorInv

LEMMA RecvIpcMirror ==
  ASSUME DriverInv, MirrorInv, RecvIpcPackage
  PROVE  MirrorInv'
<1>1. PICK W, D, F : Driving(W, D, F)
  BY DEF DriverInv
<1>2. PICK new \in UNION {Orders(S) : S \in SUBSET {q \in Reqs : fate[q] = "new"}},
              gone \in SUBSET {q \in Abortable : fate[q] \in {"live", "finished"}} :
        /\ sch' = [sch EXCEPT !.prefill = @ \o new, !.abort = @ \cup gone]
        /\ fate' = [q \in Reqs |-> IF q \in Range(new) THEN "live" ELSE fate[q]]
  BY Zenon DEF RecvIpcPackage
<1>3. PICK S \in SUBSET {q \in Reqs : fate[q] = "new"} : new \in Orders(S)
  OBVIOUS
<1>4. UNCHANGED <<known, lastLen, wire, mirror, inputs>>
  BY DEF RecvIpcPackage, driver, last
<1>5. /\ DOMAIN sch = SchFields /\ sch.prefill \in Seq(Reqs)
  BY <1>1 DEF Driving, Typed, Placed, Lists
<1>6. /\ sch'.obj = sch.obj /\ sch'.preempted = sch.preempted /\ sch'.prefill = sch.prefill \o new
  BY <1>2, <1>5 DEF SchFields
<1>7. new \in Seq(Reqs) /\ \A i \in 1 .. Len(new) : new[i] \in S
  <2>1. IsFiniteSet(S)
    BY <1>3, SchedulerAssumption, FS_Subset
  <2>2. Cardinality(S) \in Nat
    BY <2>1, FS_CardinalityType
  <2>3. new \in [1 .. Cardinality(S) -> S]
    BY <1>3 DEF Orders, Bijection, Injection
  <2>4. new \in Seq(S)
    BY <2>2, <2>3
  <2> QED BY <2>2, <2>3, <2>4
<1>8. ASSUME NEW q \in Range(sch.prefill \o new) PROVE q \in Range(sch.prefill) \/ fate[q] = "new"
  <2> DEFINE s == sch.prefill
             c == s \o new
  <2>1. s \in Seq(Reqs) /\ new \in Seq(Reqs)
    BY <1>5, <1>7
  <2> HIDE DEF s
  <2>2. DOMAIN c = 1 .. Len(s) + Len(new) /\ Len(s) \in Nat /\ Len(new) \in Nat
    BY <2>1
  <2>3. \A i \in 1 .. Len(s) + Len(new) : c[i] = IF i <= Len(s) THEN s[i] ELSE new[i - Len(s)]
    BY <2>1
  <2> HIDE DEF c
  <2>4. PICK i \in 1 .. Len(s) + Len(new) : c[i] = q
    BY <1>8, <2>2 DEF Range, c, s
  <2>5. CASE i <= Len(s)
    <3>1. i \in DOMAIN s /\ s[i] = q
      BY <2>1, <2>2, <2>3, <2>4, <2>5
    <3> QED BY <3>1 DEF Range, s
  <2>6. CASE ~(i <= Len(s))
    <3>1. i - Len(s) \in 1 .. Len(new) /\ new[i - Len(s)] = q
      BY <2>2, <2>3, <2>4, <2>6
    <3> QED BY <1>7, <3>1
  <2> QED BY <2>5, <2>6
<1>9. Silent
  BY <1>2, <1>4, <1>6, <1>8 DEF Silent
<1> QED BY <1>4, <1>6, <1>9, SilentMirror, SameInputs DEF MirrorInv

LEMMA RecvNextTokensMirror ==
  ASSUME MirrorInv, RecvNextTokens
  PROVE  MirrorInv'
<1>1. UNCHANGED <<sch, fate, known, lastLen, wire, mirror, inputs>>
  BY DEF RecvNextTokens, last
<1>2. Silent
  BY <1>1 DEF Silent
<1> QED BY <1>1, <1>2, SilentMirror, SameInputs DEF MirrorInv

LEMMA ForwardMirror ==
  ASSUME DriverInv, MirrorInv, ForwardPp
  PROVE  MirrorInv'
<1>1. inputs' = Tail(inputs) /\ inputs # <<>> /\ UNCHANGED <<sch, fate, known, lastLen, wire, mirror>>
  BY DEF ForwardPp, driver
<1>2. IsSeq(inputs)
  BY DEF DriverInv, Piped
<1>3. MirrorExactUnpreempted'
  <2>1. /\ Len(inputs) \in Nat /\ DOMAIN inputs = 1 .. Len(inputs)
        /\ IsSeq(inputs') /\ Len(inputs') = Len(inputs) - 1
        /\ \A k \in 1 .. Len(inputs) - 1 : inputs'[k] = inputs[k + 1]
    BY <1>1, <1>2, SeqFacts
  <2>2. DOMAIN inputs' = 1 .. Len(inputs) - 1
    BY <2>1, SeqFacts
  <2>3. \A b \in 1 .. Len(inputs) - 1 : b + 1 \in DOMAIN inputs
    BY <2>1
  <2>4. \A b \in DOMAIN inputs' : inputs'[b] = inputs[b + 1] /\ b + 1 \in DOMAIN inputs
    BY <2>1, <2>2, <2>3
  <2> QED BY <1>1, <2>4 DEF MirrorInv, MirrorExactUnpreempted
<1>4. Silent
  BY <1>1 DEF Silent
<1> QED BY <1>3, <1>4, SilentMirror

LEMMA ProcessOutputMirror ==
  ASSUME DriverInv, MirrorInv, ProcessOutput
  PROVE  MirrorInv'
<1>1. UNCHANGED <<known, lastLen, wire, mirror, inputs>>
  BY DEF ProcessOutput, last
<1>2. KeptTables
  BY ProcessOutputDriver
<1>3. \A q \in Reqs : fate'[q] = "new" => fate[q] = "new"
  <2>1. CASE results = <<>>
    BY <2>1 DEF ProcessOutput
  <2>2. CASE results # <<>>
    <3>1. fate' = [q \in Reqs |->
             IF q \in Range(sch'.frees) \ Range(sch.frees) THEN "finished" ELSE fate[q]]
      BY <2>2 DEF ProcessOutput
    <3> QED BY <3>1
  <2> QED BY <2>1, <2>2
<1>4. Silent
  BY <1>1, <1>2, <1>3 DEF Silent, KeptTables
<1> QED BY <1>1, <1>2, <1>4, SilentMirror, SameInputs DEF MirrorInv, KeptTables

\* The last stage takes the oldest payload.
LEMMA RecvPayloadMirror ==
  ASSUME DriverInv, MirrorInv, RecvSchedulePayload
  PROVE  MirrorInv'
<1> DEFINE p == wire[1]
           now == Applied(mirror, p)
           N == Len(wire)
           row == [i \in DOMAIN p.updates |->
                        LET u == p.updates[i]
                        IN  [req |-> u.req, real |-> u.real, read |-> u.read,
                             used |-> [table |-> now[u.req].table,
                                       decodes |-> u.from >= now[u.req].prompt]]]
<1>1. PICK v : View(v)
  BY DEF MirrorInv
<1>2. IsSeq(wire) /\ IsSeq(inputs) /\ Piped
  BY DEF DriverInv, Piped
<1>3. /\ wire # <<>> /\ N \in Nat /\ N >= 1 /\ Head(wire) = p
      /\ IsSeq(Tail(wire)) /\ Len(Tail(wire)) = N - 1
      /\ \A k \in 1 .. N - 1 : Tail(wire)[k] = wire[k + 1]
  <2>1. wire # <<>>
    BY DEF RecvSchedulePayload
  <2> QED BY <1>2, <2>1, SeqFacts
<1>4. /\ inputs' = Append(inputs, row)
      /\ mirror' = After(mirror, p) /\ wire' = Tail(wire)
      /\ UNCHANGED <<sch, known, lastLen, fate>>
  BY <1>3 DEF RecvSchedulePayload, After, driver
<1>5. /\ v[0] = mirror /\ v[1] = After(v[0], p) /\ Exact(v[0], p)
  <2>1. 1 \in 1 .. N /\ 1 - 1 = 0
    BY <1>3
  <2> QED BY <1>1, <2>1 DEF View
<1>6. IsSeq(p.updates) /\ DOMAIN p.updates = 1 .. Len(p.updates)
  <2>1. 1 \in 1 .. Len(Updates(wire)) /\ Updates(wire)[1] = p.updates
    BY <1>2, <1>3, UpdatesFacts
  <2>2. IsSeq(Updates(wire)[1])
    BY <1>2, <2>1 DEF Piped, Aligned
  <2> QED BY <2>1, <2>2, SeqFacts
<1>7. \A i \in DOMAIN row : row[i].req \notin sch.preempted => row[i].used = row[i].real
  <2>1. TAKE i \in DOMAIN row
  <2>2. HAVE row[i].req \notin sch.preempted
  <2> DEFINE u == p.updates[i]
  <2>3. /\ row[i].req = u.req /\ row[i].real = u.real
        /\ row[i].used = [table |-> now[u.req].table, decodes |-> u.from >= now[u.req].prompt]
    OBVIOUS
  <2>4. i \in 1 .. Len(p.updates)
    BY <1>6
  <2> HIDE DEF row, now
  <2>5. u.real = [table |-> now[u.req].table, decodes |-> u.from >= now[u.req].prompt]
    BY <1>5, <2>2, <2>3, <2>4 DEF Exact, now
  <2> QED BY <2>3, <2>5
<1>8. MirrorExactUnpreempted'
  <2> HIDE DEF row
  <2>1. /\ DOMAIN inputs = 1 .. Len(inputs) /\ Len(inputs) \in Nat
        /\ IsSeq(inputs') /\ Len(inputs') = Len(inputs) + 1 /\ inputs'[Len(inputs) + 1] = row
        /\ \A b \in 1 .. Len(inputs) : inputs'[b] = inputs[b]
    BY <1>2, <1>4, SeqFacts
  <2>2. DOMAIN inputs' = 1 .. Len(inputs) + 1
    BY <2>1, SeqFacts
  <2>3. \A b \in DOMAIN inputs' : (b \in DOMAIN inputs /\ inputs'[b] = inputs[b]) \/ inputs'[b] = row
    BY <2>1, <2>2
  <2> QED BY <1>4, <1>7, <2>3 DEF MirrorInv, MirrorExactUnpreempted
<1>20. PICK n : n = N
  OBVIOUS
<1>9. PICK w : w = [k \in 0 .. n - 1 |-> v[k + 1]]
  OBVIOUS
<1>10. \A k \in 0 .. n - 1 : w[k] = v[k + 1]
  BY <1>9
<1>11. View(w)'
  <2>1. w[0] = mirror'
    BY <1>3, <1>4, <1>5, <1>10, <1>20
  <2>2. Len(wire') = n - 1 /\ n \in Nat /\ n >= 1
    BY <1>3, <1>4, <1>20
  <2>3. ASSUME NEW k \in 1 .. n - 1
        PROVE  w[k] = After(w[k - 1], wire'[k]) /\ Exact(w[k - 1], wire[k])'
    <3>1. wire'[k] = wire[k + 1] /\ k + 1 \in 1 .. N /\ (k + 1) - 1 = k
      BY <1>3, <1>4, <1>20
    <3>2. k \in 0 .. n - 1 /\ k - 1 \in 0 .. n - 1 /\ (k - 1) + 1 = k
      BY <2>2
    <3>3. w[k] = v[k + 1] /\ w[k - 1] = v[k]
      BY <1>10, <3>2
    <3>4. v[k + 1] = After(v[k], wire[k + 1]) /\ Exact(v[k], wire[k + 1])
      BY <1>1, <3>1 DEF View
    <3>5. Exact(w[k - 1], wire[k])'
      BY <1>4, <3>1, <3>3, <3>4 DEF Exact
    <3> QED BY <3>1, <3>3, <3>4, <3>5
  <2>4. \A k \in 0 .. n - 1 : k + 1 \in 0 .. N
    BY <1>20, <2>2
  <2>5. \A k \in 0 .. n - 1 : IsStore(w[k])
    BY <1>1, <1>10, <2>4 DEF View
  <2>6. w[n - 1] = v[N]
    BY <1>10, <1>20, <2>2
  <2>7. DOMAIN w[n - 1] = known' /\ \A q \in known' \ sch'.preempted : Sent(w[n - 1][q], q)'
    <3>1. DOMAIN v[N] = known /\ \A q \in known \ sch.preempted : Sent(v[N][q], q)
      BY <1>1 DEF View
    <3> HIDE DEF N
    <3>2. \A q \in known \ sch.preempted : Sent(w[n - 1][q], q)'
      BY <1>4, <2>6, <3>1 DEF Sent
    <3> QED BY <1>4, <2>6, <3>1, <3>2
  <2> HIDE DEF p, now, row, N
  <2> QED BY <2>1, <2>2, <2>3, <2>5, <2>7 DEF View
<1>12. Begun'
  BY <1>4 DEF MirrorInv, Begun
<1> QED BY <1>8, <1>11, <1>12 DEF MirrorInv

\* What is sent of a table completes what was sent before.
LEMMA Completed ==
  ASSUME NEW a \in Seq(Pages), NEW t \in Seq(Pages), Extends(a, t)
  PROVE  /\ ~(Len(t) < Len(a))
         /\ a \o SubSeq(t, Len(a) + 1, Len(t)) = t
<1> DEFINE n == Len(a)
           u == SubSeq(t, n + 1, Len(t))
           c == a \o u
<1>1. n \in Nat /\ Len(t) \in Nat /\ n <= Len(t) /\ \A i \in 1 .. n : t[i] = a[i]
  BY DEF Extends
<1>2. u \in Seq(Pages) /\ Len(u) = Len(t) - n /\ \A i \in 1 .. Len(t) - n : u[i] = t[n + i]
  BY <1>1
<1> HIDE DEF u, n
<1>3. c \in Seq(Pages) /\ Len(c) = Len(t)
  BY <1>1, <1>2 DEF n
<1>4. ASSUME NEW i \in 1 .. Len(t) PROVE c[i] = t[i]
  <2>1. CASE i <= n
    BY <1>1, <1>2, <2>1 DEF n
  <2>2. CASE ~(i <= n)
    <3>1. i - n \in 1 .. Len(t) - n /\ n + (i - n) = i
      BY <1>1, <2>2
    <3>2. c[i] = u[i - n]
      BY <1>1, <1>2, <2>2 DEF n
    <3> QED BY <1>2, <3>1, <3>2
  <2> QED BY <2>1, <2>2
<1> HIDE DEF c
<1>5. c = t
  <2>1. IsSeq(c) /\ IsSeq(t)
    BY <1>3 DEF IsSeq
  <2> QED BY <1>3, <1>4, <2>1, SameSeq
<1> QED BY <1>1, <1>5 DEF c, u, n

\* What scheduling does to the requests that the followers know.
LEMMA KnownMoved ==
  ASSUME NEW W, NEW D, NEW F, Driving(W, D, F), Answering, Begun,
         NEW m, NEW W2, NEW D2, NEW V, NEW B,
         Moved(Alphabet, sch, m, W, D, F, W2, D2, V, B),
         NEW q \in known, q \notin m.preempted
  PROVE  /\ m.obj[q].prompt = sch.obj[q].prompt
         /\ Extends(sch.obj[q].table, m.obj[q].table)
         /\ q \in W2 => m.obj[q].computed > 0
<1>1. /\ q \in Reqs /\ q \notin sch.preempted /\ q \notin V
      /\ ObjOK(Alphabet, sch.obj[q]) /\ ObjOK(Alphabet, m.obj[q])
      /\ W2 \subseteq W \cup D
  BY DEF Driving, Typed, Begun, Moved
<1>2. sch.obj[q].computed \in Nat /\ m.obj[q].computed \in Nat /\ sch.obj[q].table \in Seq(Pages)
  BY <1>1 DEF ObjOK
<1>3. CASE q \in W \cup D
  <2>1. sch.obj[q].computed > 0
    <3>1. CASE q \in W
      <4>1. q \in Range(sch.prefill)
        BY <3>1, ListsRange DEF Driving, Placed
      <4> QED BY <1>1, <4>1 DEF Begun
    <3>2. CASE q \in D
      <4>1. sch.obj[q].prompt <= sch.obj[q].computed /\ sch.obj[q].prompt \in Nat
        BY <1>1, <3>2 DEF Driving, Placed, Decodes, ObjOK
      <4>2. sch.obj[q].prompt >= Len(Prompt[q]) /\ Len(Prompt[q]) \in Nat /\ Len(Prompt[q]) # 0
        BY <1>1, PromptIn DEF Answering
      <4> QED BY <1>2, <4>1, <4>2
    <3> QED BY <1>3, <3>1, <3>2
  <2>2. Fed(sch.obj[q], m.obj[q])
    BY <1>1 DEF Moved
  <2> QED BY <1>2, <2>1, <2>2 DEF Fed
<1>4. CASE q \notin W \cup D
  <2>1. m.obj[q] = sch.obj[q]
    BY <1>1, <1>4 DEF Moved
  <2> QED BY <1>1, <1>2, <1>4, <2>1, ExtendsSelf
<1> QED BY <1>3, <1>4

\* The part of the table that was sent is a part of the table that is now there.
LEMMA SentMoved ==
  ASSUME NEW W, NEW D, NEW F, Driving(W, D, F), Answering, Begun,
         NEW m, NEW W2, NEW D2, NEW V, NEW B,
         Moved(Alphabet, sch, m, W, D, F, W2, D2, V, B),
         NEW q \in known, q \notin m.preempted, NEW x, Sent(x, q)
  PROVE  /\ x.prompt = m.obj[q].prompt
         /\ x.table \in Seq(Pages) /\ Len(x.table) = lastLen[q]
         /\ Extends(x.table, m.obj[q].table)
         /\ m.obj[q].table \in Seq(Pages)
<1>1. /\ m.obj[q].prompt = sch.obj[q].prompt
      /\ Extends(sch.obj[q].table, m.obj[q].table)
  BY KnownMoved
<1>2. /\ q \in Reqs /\ ObjOK(Alphabet, sch.obj[q]) /\ ObjOK(Alphabet, m.obj[q])
  BY DEF Driving, Typed, Begun, Moved
<1>3. sch.obj[q].table \in Seq(Pages) /\ m.obj[q].table \in Seq(Pages)
  BY <1>2 DEF ObjOK
<1>4. x.table \in Seq(Pages) /\ Extends(x.table, sch.obj[q].table)
  BY DEF Sent
<1>5. Extends(x.table, m.obj[q].table)
  BY <1>1, <1>3, <1>4, ExtendsTrans
<1> QED BY <1>1, <1>3, <1>5 DEF Sent

\* The registers and updates of a payload.
LEMMA PayloadOK ==
  ASSUME NEW b, NEW B, NEW U, IsBatch(b, B, U), NEW frees
  PROVE  LET p == Payload(b, frees)
             n(q) == IF q \in known THEN lastLen[q] ELSE 0
         IN  /\ IsSeq(p.updates) /\ Len(p.updates) = Len(b) /\ Distinct(p.updates)
             /\ \A i \in 1 .. Len(b) : p.updates[i] = Update(b[i], n(b[i].req))
             /\ \A r \in p.registers : \E i \in 1 .. Len(b) :
                  /\ b[i].req \notin known /\ r = [req |-> b[i].req, prompt |-> b[i].prompt]
             /\ \A i \in 1 .. Len(b) : b[i].req \notin known =>
                  /\ [req |-> b[i].req, prompt |-> b[i].prompt] \in p.registers
                  /\ \A r \in p.registers : r.req = b[i].req =>
                       r = [req |-> b[i].req, prompt |-> b[i].prompt]
             /\ p.frees = Range(frees)
<1> DEFINE p == Payload(b, frees)
           n(q) == IF q \in known THEN lastLen[q] ELSE 0
           reg(e) == [req |-> e.req, prompt |-> e.prompt]
<1>1. DOMAIN b = 1 .. Len(b) /\ Len(b) \in Nat
  BY SeqFacts DEF IsBatch
<1>2. /\ p.updates = [i \in 1 .. Len(b) |-> Update(b[i], n(b[i].req))]
      /\ p.registers = {reg(e) : e \in {f \in Range(b) : f.req \notin known}}
      /\ p.frees = Range(frees)
  BY <1>1 DEF Payload
<1> HIDE DEF p, n
<1>3. \A i \in 1 .. Len(b) : p.updates[i] = Update(b[i], n(b[i].req))
  BY <1>2
<1>4. IsSeq(p.updates) /\ Len(p.updates) = Len(b)
  <2>1. p.updates = [i \in 1 .. Len(b) |-> p.updates[i]]
    BY <1>2
  <2> QED BY <1>1, <2>1, FcnIsSeq, Zenon
<1>5. \A i \in 1 .. Len(b) : p.updates[i].req = b[i].req
  <2>1. \A e, x : Update(e, x).req = e.req
    BY DEF Update
  <2> QED BY <1>3, <2>1
<1>6. Distinct(p.updates)
  BY <1>4, <1>5 DEF Distinct, IsBatch
<1>7. ASSUME NEW r \in p.registers
      PROVE  \E i \in 1 .. Len(b) : b[i].req \notin known /\ r = reg(b[i])
  BY <1>1, <1>2 DEF Range
<1>8. ASSUME NEW i \in 1 .. Len(b), b[i].req \notin known
      PROVE  reg(b[i]) \in p.registers /\ \A r \in p.registers : r.req = b[i].req => r = reg(b[i])
  <2>1. reg(b[i]) \in p.registers
    BY <1>1, <1>2, <1>8 DEF Range
  <2>2. ASSUME NEW r \in p.registers, r.req = b[i].req PROVE r = reg(b[i])
    <3>1. PICK j \in 1 .. Len(b) : r = reg(b[j])
      BY <1>7
    <3>2. r.req = b[j].req
      BY <3>1
    <3>3. j = i
      BY <2>2, <3>2 DEF IsBatch
    <3> QED BY <3>1, <3>3
  <2> QED BY <2>1, <2>2
<1> QED BY <1>2, <1>3, <1>4, <1>6, <1>7, <1>8 DEF p, n

Arrived(now, u, e) ==
  /\ now[e.req].table = e.table /\ now[e.req].prompt = e.prompt
  /\ u.real = [table |-> now[e.req].table, decodes |-> u.from >= now[e.req].prompt]

\* The payload of a batch, where it arrives: u is the update of a request that was not
\* preempted, whose mirror was as long as what was sent of its table.
LEMMA UpdateArrives ==
  ASSUME NEW R, NEW now, NEW updates, NEW i \in 1 .. Len(updates),
         Mirroring(R, now, updates, Len(updates)),
         NEW e, NEW n, updates[i] = Update(e, n),
         e.req \in DOMAIN R, R[e.req].prompt = e.prompt,
         e.table \in Seq(Pages), R[e.req].table \in Seq(Pages),
         Len(R[e.req].table) = n, Extends(R[e.req].table, e.table)
  PROVE  Arrived(now, updates[i], e)
<1> DEFINE u == updates[i]
           a == R[e.req].table
           t == e.table
<1>1. /\ u.req = e.req /\ u.reset = (Len(t) < n) /\ u.from = e.from
      /\ u.pages = (IF Len(t) < n THEN t ELSE SubSeq(t, n + 1, Len(t)))
      /\ u.real = [table |-> t, decodes |-> e.from >= e.prompt]
  <2>1. u = Update(e, n)
    OBVIOUS
  <2> HIDE DEF u
  <2> QED BY <2>1 DEF Update
<1>2. ~(Len(t) < Len(a)) /\ a \o SubSeq(t, Len(a) + 1, Len(t)) = t
  BY Completed
<1>3. now[u.req].table = (IF u.reset THEN <<>> ELSE R[u.req].table) \o u.pages
  BY <1>1 DEF Mirroring
<1>4. now[e.req].prompt = e.prompt
  BY DEF Mirroring
<1>5. ~(Len(t) < n) /\ Len(a) = n
  BY <1>2
<1> HIDE DEF u, t, a
<1>6. now[e.req].table = a \o SubSeq(t, n + 1, Len(t))
  BY <1>1, <1>3, <1>5 DEF a
<1>7. now[e.req].table = t
  BY <1>2, <1>5, <1>6
<1>8. Arrived(now, u, e)
  BY <1>1, <1>4, <1>7 DEF Arrived, t
<1> QED BY <1>8 DEF u

\* What the followers have, of m, when they have applied the payload p of a batch.
BatchArrived(store, now, p, m, B, U) ==
  /\ DOMAIN now = known \cup B \cup U /\ IsStore(now)
  /\ \A i \in 1 .. Len(p.updates) : LET u == p.updates[i] IN
       u.req \notin m.preempted =>
         u.real = [table |-> now[u.req].table, decodes |-> u.from >= now[u.req].prompt]
  /\ \A q \in (B \cup U) \ m.preempted :
       now[q].prompt = m.obj[q].prompt /\ now[q].table = m.obj[q].table
  /\ \A q \in known \ (B \cup U) : now[q] = store[q]

\* The batch b of m is sent: what the followers will have then.
LEMMA BatchArrives ==
  ASSUME NEW W, NEW D, NEW F, Driving(W, D, F), Answering, Begun,
         NEW m, NEW b, NEW W2, NEW D2, NEW V, NEW B, NEW U,
         Built(Alphabet, sch, [sch |-> m, batch |-> b], W, D, F, W2, D2, V, B, U),
         NEW store, IsStore(store), DOMAIN store = known,
         \A q \in known \ sch.preempted : Sent(store[q], q)
  PROVE  BatchArrived(store, Applied(store, Payload(b, sch.frees)), Payload(b, sch.frees), m, B, U)
<1> DEFINE p == Payload(b, sch.frees)
           n(q) == IF q \in known THEN lastLen[q] ELSE 0
           R == Registered(store, p.registers)
           now == Applied(store, p)
<1>1. /\ Moved(Alphabet, sch, m, W, D, F, W2, D2, V, B) /\ IsBatch(b, B, U) /\ Shows(b, m)
  BY DEF Built
<1>2. /\ IsSeq(p.updates) /\ Len(p.updates) = Len(b) /\ Distinct(p.updates)
      /\ \A i \in 1 .. Len(b) : p.updates[i] = Update(b[i], n(b[i].req))
      /\ \A r \in p.registers : \E i \in 1 .. Len(b) :
           /\ b[i].req \notin known /\ r = [req |-> b[i].req, prompt |-> b[i].prompt]
      /\ \A i \in 1 .. Len(b) : b[i].req \notin known =>
           /\ [req |-> b[i].req, prompt |-> b[i].prompt] \in p.registers
           /\ \A r \in p.registers : r.req = b[i].req =>
                r = [req |-> b[i].req, prompt |-> b[i].prompt]
  BY <1>1, PayloadOK
<1> HIDE DEF p, n
<1>3. \A r \in p.registers : r.req \in Reqs
  <2>1. \A i \in 1 .. Len(b) : b[i].req \in Reqs
    BY <1>1 DEF IsBatch
  <2> QED BY <1>2, <2>1
<1>4. /\ IsStore(R) /\ DOMAIN R = DOMAIN store \cup {r.req : r \in p.registers}
      /\ \A q \in DOMAIN R : (\A r \in p.registers : r.req # q) => R[q] = store[q]
      /\ \A r \in p.registers : (\A x \in p.registers : x.req = r.req => x = r) =>
           R[r.req].table = <<>> /\ R[r.req].prompt = r.prompt
  <2> DEFINE g == p.registers
  <2>1. \A r \in g : r.req \in Reqs
    BY <1>3
  <2> HIDE DEF g
  <2>2. RegistersDone(store, g, Registered(store, g))
    BY <2>1, RegisteredOK
  <2>3. R = Registered(store, g)
    BY DEF g
  <2> HIDE DEF R
  <2> QED BY <2>2, <2>3 DEF RegistersDone, g
<1>5. Mirroring(R, now, p.updates, Len(p.updates))
  BY <1>2, <1>3, AppliedOK
<1> HIDE DEF R, now
<1>6. \A q : q \in B \cup U <=> \E i \in 1 .. Len(b) : b[i].req = q
  BY <1>1 DEF IsBatch
<1>7. DOMAIN R = known \cup B \cup U
  <2>1. \A q : q \in {r.req : r \in p.registers} <=> q \in (B \cup U) \ known
    <3>1. TAKE q
    <3>2. ASSUME NEW r \in p.registers PROVE r.req \in (B \cup U) \ known
      BY <1>2, <1>6
    <3>3. ASSUME q \in (B \cup U) \ known PROVE \E r \in p.registers : r.req = q
      <4>1. PICK i \in 1 .. Len(b) : b[i].req = q
        BY <1>6, <3>3
      <4> QED BY <1>2, <3>3, <4>1
    <3> QED BY <3>2, <3>3
  <2> QED BY <1>4, <2>1
<1>8. DOMAIN now = known \cup B \cup U /\ IsStore(now)
  BY <1>4, <1>5, <1>7 DEF Mirroring, IsStore
<1>9. \A q \in known : R[q] = store[q]
  <2>1. TAKE q \in known
  <2>2. \A r \in p.registers : r.req # q
    BY <1>2
  <2> QED BY <1>4, <1>7, <2>2
<1>10. \A q \in known \ (B \cup U) : now[q] = store[q]
  <2>1. TAKE q \in known \ (B \cup U)
  <2>2. \A i \in 1 .. Len(p.updates) : p.updates[i].req # q
    <3>1. \A e, x : Update(e, x).req = e.req
      BY DEF Update
    <3> QED BY <1>2, <1>6, <3>1
  <2> QED BY <1>5, <1>7, <1>9, <2>2 DEF Mirroring
<1>11. ASSUME NEW i \in 1 .. Len(b), b[i].req \notin m.preempted
       PROVE  /\ now[b[i].req].table = b[i].table /\ now[b[i].req].prompt = b[i].prompt
              /\ p.updates[i].real = [table |-> now[b[i].req].table,
                                      decodes |-> p.updates[i].from >= now[b[i].req].prompt]
  <2> DEFINE e == b[i]
             q == e.req
  <2>1. /\ q \in Reqs /\ e.table = m.obj[q].table /\ e.prompt = m.obj[q].prompt
        /\ q \in DOMAIN R /\ i \in 1 .. Len(p.updates) /\ p.updates[i] = Update(e, n(q))
    BY <1>1, <1>2, <1>6, <1>7 DEF IsBatch, Shows
  <2>2. m.obj[q].table \in Seq(Pages)
    BY <1>1, <2>1 DEF Moved, Typed, ObjOK
  <2> HIDE DEF e
  <2>3. /\ R[q].prompt = e.prompt /\ R[q].table \in Seq(Pages) /\ Len(R[q].table) = n(q)
        /\ Extends(R[q].table, e.table)
    <3>1. CASE q \in known
      <4>1. q \notin sch.preempted
        BY <1>1, <1>11 DEF Moved, e
      <4>2. Sent(store[q], q) /\ R[q] = store[q]
        BY <1>9, <3>1, <4>1
      <4>3. q \notin m.preempted
        BY <1>11 DEF e
      <4> DEFINE x == store[q]
      <4>4. Sent(x, q)
        BY <4>2
      <4> HIDE DEF x, q
      <4>5. /\ x.prompt = m.obj[q].prompt
            /\ x.table \in Seq(Pages) /\ Len(x.table) = lastLen[q]
            /\ Extends(x.table, m.obj[q].table)
        BY <1>1, <3>1, <4>3, <4>4, SentMoved
      <4> QED BY <2>1, <3>1, <4>2, <4>5 DEF n, x
    <3>2. CASE q \notin known
      <4>1. [req |-> q, prompt |-> e.prompt] \in p.registers
            /\ \A r \in p.registers : r.req = q => r = [req |-> q, prompt |-> e.prompt]
        BY <1>2, <3>2 DEF e
      <4>2. R[q].table = <<>> /\ R[q].prompt = e.prompt
        BY <1>4, <4>1
      <4> QED BY <3>2, <4>2 DEF n, Extends
    <3> QED BY <3>1, <3>2
  <2> DEFINE l == n(q)
             us == p.updates
  <2>4. /\ i \in 1 .. Len(us) /\ Mirroring(R, now, us, Len(us)) /\ us[i] = Update(e, l)
        /\ e.req \in DOMAIN R /\ R[e.req].prompt = e.prompt
        /\ e.table \in Seq(Pages) /\ R[e.req].table \in Seq(Pages)
        /\ Len(R[e.req].table) = l /\ Extends(R[e.req].table, e.table)
    BY <1>5, <2>1, <2>2, <2>3
  <2> HIDE DEF l, us
  <2>5. Arrived(now, us[i], e)
    BY <2>4, UpdateArrives
  <2> QED BY <2>5 DEF e, us, Arrived
<1>12. ASSUME NEW q \in (B \cup U) \ m.preempted
       PROVE  now[q].prompt = m.obj[q].prompt /\ now[q].table = m.obj[q].table
  <2>1. PICK i \in 1 .. Len(b) : b[i].req = q
    BY <1>6
  <2>2. b[i].table = m.obj[q].table /\ b[i].prompt = m.obj[q].prompt
    BY <1>1, <2>1 DEF Shows
  <2> QED BY <1>11, <2>1, <2>2
<1>13. ASSUME NEW i \in 1 .. Len(p.updates), p.updates[i].req \notin m.preempted
       PROVE  p.updates[i].real = [table |-> now[p.updates[i].req].table,
                                   decodes |-> p.updates[i].from >= now[p.updates[i].req].prompt]
  <2>1. i \in 1 .. Len(b) /\ p.updates[i].req = b[i].req
    <3>1. \A e, x : Update(e, x).req = e.req
      BY DEF Update
    <3> QED BY <1>2, <3>1
  <2> QED BY <1>11, <1>13, <2>1
<1>14. BatchArrived(store, now, p, m, B, U)
  BY <1>8, <1>10, <1>12, <1>13 DEF BatchArrived
<1> QED BY <1>14 DEF now, p

\* What is left of a scheduling for the followers, whether or not a batch was sent.
LEMMA ScheduleMirror ==
  ASSUME DriverInv, MirrorInv, ScheduleForward
  PROVE  MirrorInv'
<1>0. Answering /\ Begun /\ MirrorExactUnpreempted /\ Piped
  BY DEF DriverInv, MirrorInv
<1>1. PICK W, D, F : Driving(W, D, F)
  BY DEF DriverInv
<1>2. PICK m, b, W2, D2, V, B, U : Scheduled(m, b, W, D, F, W2, D2, V, B, U)
  BY <1>1, ScheduleStep
<1>3. UNCHANGED <<mirror, inputs, fate>>
  BY DEF ScheduleForward, last
<1>4. PICK v : View(v)
  BY DEF MirrorInv
<1>5. /\ Built(Alphabet, sch, [sch |-> m, batch |-> b], W, D, F, W2, D2, V, B, U)
      /\ Moved(Alphabet, sch, m, W, D, F, W2, D2, V, B) /\ IsBatch(b, B, U) /\ Shows(b, m)
      /\ U \subseteq W2 /\ \A x \in U : m.obj[x].computed > 0
  BY <1>2 DEF Scheduled, Built
<1>6. /\ sch'.obj = m.obj /\ sch'.preempted = m.preempted /\ sch'.prefill = m.prefill
      /\ sch.preempted \subseteq m.preempted
  BY <1>2, <1>5 DEF Scheduled, Moved
<1>7. /\ W \cup D \cup F = {q \in Reqs : fate[q] = "live"} /\ B \subseteq W \cup D
      /\ W2 \cup D2 = (W \cup D) \ B /\ Range(m.prefill) = W2
      /\ W \subseteq Reqs /\ D \subseteq Reqs
      /\ W2 \cap (F \cup B) = {}
  BY <1>1, <1>5, ListsRange DEF Driving, Moved, Placed
<1>8. MirrorExactUnpreempted'
  BY <1>0, <1>3, <1>6 DEF MirrorExactUnpreempted
<1>9. /\ \A k \in 0 .. Len(wire) : IsStore(v[k])
      /\ DOMAIN v[Len(wire)] = known /\ v[0] = mirror
      /\ \A k \in 1 .. Len(wire) : v[k] = After(v[k - 1], wire[k]) /\ Exact(v[k - 1], wire[k])
      /\ \A q \in known \ sch.preempted : Sent(v[Len(wire)][q], q)
      /\ Len(wire) \in Nat /\ IsSeq(wire)
  BY <1>0, <1>4, SeqFacts DEF View, Piped
<1>10. \A q \in known \ m.preempted : q \in W2 => m.obj[q].computed > 0
  BY <1>0, <1>1, <1>5, KnownMoved
<1>11. ASSUME NEW q \in known \ m.preempted, NEW x, Sent(x, q)
       PROVE  /\ x.prompt = m.obj[q].prompt
              /\ x.table \in Seq(Pages) /\ Len(x.table) = lastLen[q]
              /\ Extends(x.table, m.obj[q].table)
  BY <1>0, <1>1, <1>5, <1>11, SentMoved
<1>12. \A k \in 1 .. Len(wire) : Exact(v[k - 1], wire[k])'
  <2>1. ASSUME NEW k \in 1 .. Len(wire) PROVE Exact(v[k - 1], wire[k])'
    <3> DEFINE p == wire[k]
    <3>1. \A i \in 1 .. Len(p.updates) :
            LET u == p.updates[i]
                now == Applied(v[k - 1], p)
            IN  u.req \notin sch'.preempted =>
                  u.real = [table |-> now[u.req].table, decodes |-> u.from >= now[u.req].prompt]
      BY <1>6, <1>9 DEF Exact
    <3>2. wire'[k] = wire[k]
      <4>1. CASE b = <<>>
        BY <1>2, <4>1 DEF Scheduled
      <4>2. CASE b # <<>>
        <5>1. wire' = Append(wire, Payload(b, sch.frees))
          BY <1>2, <4>2 DEF Scheduled
        <5> DEFINE pl == Payload(b, sch.frees)
        <5> HIDE DEF pl
        <5>2. Append(wire, pl)[k] = wire[k]
          BY <1>9, SeqFacts
        <5> QED BY <5>1, <5>2 DEF pl
      <4> QED BY <4>1, <4>2
    <3> QED BY <3>1, <3>2 DEF Exact
  <2> QED BY <2>1
<1>13. CASE b = <<>>
  <2>1. UNCHANGED <<known, lastLen, wire>>
    BY <1>2, <1>13 DEF Scheduled
  <2>2. \A q \in known \ sch'.preempted : Sent(v[Len(wire)][q], q)'
    <3>1. ASSUME NEW q \in known \ m.preempted, NEW x, Sent(x, q) PROVE Sent(x, q)'
      BY <1>6, <1>11, <2>1, <3>1 DEF Sent
    <3>2. \A q \in known \ m.preempted : Sent(v[Len(wire)][q], q)
      BY <1>6, <1>9
    <3> QED BY <1>6, <2>1, <3>1, <3>2
  <2>3. View(v)'
    BY <1>3, <1>9, <1>12, <2>1, <2>2 DEF View
  <2>4. Begun'
    BY <1>0, <1>3, <1>6, <1>7, <1>10, <2>1 DEF Begun
  <2> QED BY <1>8, <2>3, <2>4 DEF MirrorInv
<1>14. CASE b # <<>>
  <2> DEFINE N == Len(wire)
             p == Payload(b, sch.frees)
             store == v[N]
             now == Applied(store, p)
  <2>1. /\ wire' = Append(wire, p) /\ known' = KnownAfter(b, sch.frees)
        /\ lastLen' = [q \in Reqs |->
                      IF q \in Range(sch.frees) THEN 0
                      ELSE IF \E e \in Range(b) : e.req = q
                      THEN Len((CHOOSE e \in Range(b) : e.req = q).table)
                      ELSE lastLen[q]]
    BY <1>2, <1>14 DEF Scheduled
  <2>2. IsStore(store) /\ DOMAIN store = known /\ \A q \in known \ sch.preempted : Sent(store[q], q)
    BY <1>9
  <2> HIDE DEF store
  <2>3a. BatchArrived(store, now, p, m, B, U)
    BY <1>0, <1>1, <1>5, <2>2, BatchArrives
  <2> HIDE DEF p, now
  <2>3. /\ DOMAIN now = known \cup B \cup U /\ IsStore(now)
        /\ \A i \in 1 .. Len(p.updates) : LET u == p.updates[i] IN
             u.req \notin m.preempted =>
               u.real = [table |-> now[u.req].table, decodes |-> u.from >= now[u.req].prompt]
        /\ \A q \in (B \cup U) \ m.preempted :
             now[q].prompt = m.obj[q].prompt /\ now[q].table = m.obj[q].table
        /\ \A q \in known \ (B \cup U) : now[q] = store[q]
    BY <2>3a DEF BatchArrived
  <2>4. p.frees = Range(sch.frees)
    BY <1>5, PayloadOK DEF p
  <2>5. \A q : q \in B \cup U <=> \E e \in Range(b) : e.req = q
    <3>1. DOMAIN b = 1 .. Len(b)
      BY <1>5, SeqFacts DEF IsBatch
    <3>2. \A q : q \in B \cup U <=> \E i \in 1 .. Len(b) : b[i].req = q
      BY <1>5 DEF IsBatch
    <3> QED BY <3>1, <3>2 DEF Range
  <2>6. known' = (known \cup B \cup U) \ Range(sch.frees)
    BY <2>1, <2>5 DEF KnownAfter
  <2>7. ASSUME NEW q \in (B \cup U) \ Range(sch.frees)
        PROVE  lastLen'[q] = Len(m.obj[q].table) /\ q \in Reqs /\ m.obj[q].table \in Seq(Pages)
    <3>1. q \in Reqs
      BY <1>5 DEF IsBatch
    <3>2. \E e \in Range(b) : e.req = q
      BY <2>5
    <3>3. PICK e : e = CHOOSE x \in Range(b) : x.req = q
      OBVIOUS
    <3>4. e \in Range(b) /\ e.req = q
      BY <3>2, <3>3
    <3>5. DOMAIN b = 1 .. Len(b)
      BY <1>5, SeqFacts DEF IsBatch
    <3>6. PICK i \in 1 .. Len(b) : e = b[i]
      BY <3>4, <3>5 DEF Range
    <3>7. e.table = m.obj[q].table
      BY <1>5, <3>4, <3>6 DEF Shows
    <3>8. lastLen'[q] = Len(e.table)
      BY <2>1, <3>1, <3>2, <3>3
    <3>9. m.obj[q].table \in Seq(Pages)
      BY <1>5, <3>1 DEF Moved, Typed, ObjOK
    <3> QED BY <3>1, <3>7, <3>8, <3>9
  <2>8. \A q \in Reqs : q \notin Range(sch.frees) /\ q \notin B \cup U => lastLen'[q] = lastLen[q]
    BY <2>1, <2>5
  <2>9. Begun'
    <3>1. known' \subseteq Reqs
      BY <1>0, <1>5, <1>7, <2>6 DEF Begun, IsBatch
    <3>2. lastLen' \in [Reqs -> Nat]
      <4>1. ASSUME NEW q \in Reqs PROVE lastLen'[q] \in Nat
        <5>1. CASE q \in Range(sch.frees)
          BY <2>1, <5>1
        <5>2. CASE q \notin Range(sch.frees) /\ q \in B \cup U
          BY <2>7, <5>2
        <5>3. CASE q \notin Range(sch.frees) /\ q \notin B \cup U
          BY <1>0, <2>8, <5>3 DEF Begun
        <5> QED BY <5>1, <5>2, <5>3
      <4> QED BY <2>1, <4>1
    <3>3. ASSUME NEW q \in known'
          PROVE  /\ fate'[q] # "new"
                 /\ q \in sch'.preempted \/ q \notin Range(sch'.prefill) \/ sch'.obj[q].computed > 0
      <4>1. CASE q \in known
        BY <1>0, <1>3, <1>6, <1>7, <1>10, <4>1 DEF Begun
      <4>2. CASE q \in B \cup U
        <5>1. fate[q] = "live"
          BY <1>5, <1>7, <4>2
        <5>2. q \in W2 => m.obj[q].computed > 0
          BY <1>5, <1>7, <4>2
        <5> QED BY <1>3, <1>6, <1>7, <5>1, <5>2
      <4> QED BY <2>6, <4>1, <4>2
    <3> QED BY <3>1, <3>2, <3>3 DEF Begun
  <2>10. PICK n, w : n = N /\ w = [k \in 0 .. N + 1 |-> IF k <= N THEN v[k] ELSE After(store, p)]
    OBVIOUS
  <2>11. n \in Nat /\ N = n /\ Len(wire') = n + 1 /\ wire'[n + 1] = p
         /\ \A k \in 1 .. n : wire'[k] = wire[k]
    BY <1>9, <2>1, <2>10, SeqFacts
  <2> HIDE DEF N
  <2>12. /\ w[n + 1] = After(store, p) /\ \A k \in 0 .. n : w[k] = v[k]
    BY <2>10, <2>11
  <2>13. After(store, p) = [q \in known' |-> now[q]]
    BY <2>3, <2>4, <2>6 DEF After, now
  <2>14. w[0] = mirror'
    BY <1>3, <1>9, <2>11, <2>12
  <2>15. ASSUME NEW k \in 1 .. n + 1
         PROVE  w[k] = After(w[k - 1], wire'[k]) /\ Exact(w[k - 1], wire[k])'
    <3>1. CASE k <= n
      <4>1. k \in 1 .. n /\ k \in 0 .. n /\ k - 1 \in 0 .. n
        BY <2>11, <3>1
      <4>2. w[k] = v[k] /\ w[k - 1] = v[k - 1] /\ wire'[k] = wire[k]
        BY <2>11, <2>12, <4>1
      <4>3. v[k] = After(v[k - 1], wire[k]) /\ Exact(v[k - 1], wire[k])'
        BY <1>9, <1>12, <2>11, <4>1 DEF N
      <4>4. Exact(w[k - 1], wire[k])'
        BY <4>2, <4>3 DEF Exact
      <4> QED BY <4>2, <4>3, <4>4
    <3>2. CASE k = n + 1
      <4>1. k - 1 = n /\ n \in 0 .. n
        BY <2>11, <3>2
      <4>2. w[k - 1] = store /\ wire'[k] = p
        BY <2>11, <2>12, <3>2, <4>1 DEF store
      <4>3. w[k] = After(w[k - 1], wire'[k])
        BY <2>12, <3>2, <4>2
      <4>4. Exact(w[k - 1], wire[k])'
        BY <1>6, <2>3, <4>2 DEF Exact, now
      <4> QED BY <4>3, <4>4
    <3> QED BY <2>11, <3>1, <3>2
  <2>16. \A k \in 0 .. n + 1 : IsStore(w[k])
    <3>1. \A k \in 0 .. n : IsStore(w[k])
      BY <1>9, <2>11, <2>12 DEF N
    <3>2. IsStore(w[n + 1])
      BY <2>3, <2>6, <2>12, <2>13 DEF IsStore
    <3> QED BY <2>11, <3>1, <3>2
  <2>17. DOMAIN w[n + 1] = known'
    BY <2>12, <2>13
  <2>18. ASSUME NEW q \in known' \ sch'.preempted PROVE Sent(w[n + 1][q], q)'
    <3>0. PICK x : x = w[n + 1][q]
      OBVIOUS
    <3>1. x = now[q] /\ q \notin m.preempted /\ q \notin Range(sch.frees)
      BY <1>6, <2>6, <2>12, <2>13, <2>18, <3>0
    <3>2. CASE q \in B \cup U
      <4>1. x.prompt = m.obj[q].prompt /\ x.table = m.obj[q].table
        BY <2>3, <3>1, <3>2
      <4>2. lastLen'[q] = Len(m.obj[q].table) /\ m.obj[q].table \in Seq(Pages)
        BY <2>7, <3>1, <3>2
      <4>3. Sent(x, q)'
        BY <1>6, <4>1, <4>2, ExtendsSelf DEF Sent
      <4> QED BY <2>11, <3>0, <4>3
    <3>3. CASE q \notin B \cup U
      <4>1. q \in known \ m.preempted /\ x = store[q]
        BY <2>3, <2>6, <3>1, <3>3
      <4>2. Sent(x, q)
        BY <1>6, <2>2, <4>1
      <4>3. /\ x.prompt = m.obj[q].prompt
            /\ x.table \in Seq(Pages) /\ Len(x.table) = lastLen[q]
            /\ Extends(x.table, m.obj[q].table)
        BY <1>11, <4>1, <4>2
      <4>4. lastLen'[q] = lastLen[q]
        BY <1>0, <2>8, <3>1, <3>3, <4>1 DEF Begun
      <4>5. Sent(x, q)'
        BY <1>6, <4>3, <4>4 DEF Sent
      <4> QED BY <3>0, <4>5
    <3> QED BY <3>2, <3>3
  <2>19. View(w)'
    BY <2>11, <2>14, <2>15, <2>16, <2>17, <2>18 DEF View
  <2> QED BY <1>8, <2>9, <2>19 DEF MirrorInv
<1> QED BY <1>13, <1>14

-----------------------------------------------------------------------------
(* The theorems about the mirror. *)

LEMMA InitMirror ==
  ASSUME Init PROVE MirrorInv
<1> DEFINE v == [k \in 0 .. 0 |-> mirror]
<1>1. wire = <<>> /\ inputs = <<>> /\ known = {} /\ lastLen = [q \in Reqs |-> 0]
  BY DEF Init
<1>2. DOMAIN mirror = {} /\ IsStore(mirror)
  BY DEF Init, IsStore
<1>3. Len(wire) = 0 /\ v[0] = mirror
  BY <1>1
<1> HIDE DEF v
<1>4. View(v)
  BY <1>1, <1>2, <1>3 DEF View
<1>5. Begun
  BY <1>1 DEF Begun
<1>6. MirrorExactUnpreempted
  BY <1>1 DEF MirrorExactUnpreempted
<1> QED BY <1>4, <1>5, <1>6 DEF MirrorInv

\* The invariant of the mirror is kept by every step.
LEMMA NextMirror ==
  ASSUME DriverInv, MirrorInv, [Next]_vars
  PROVE  MirrorInv'
<1>1. CASE UNCHANGED vars
  <2>1. UNCHANGED <<sch, wire, mirror, inputs, known, lastLen, fate>>
    BY <1>1 DEF vars
  <2>2. Silent
    BY <2>1 DEF Silent
  <2> QED BY <2>1, <2>2, SilentMirror, SameInputs DEF MirrorInv
<1>2. CASE Next
  BY <1>2, CheckAbortMirror, RecvIpcMirror, RecvNextTokensMirror, ScheduleMirror,
     ProcessOutputMirror, RecvPayloadMirror, ForwardMirror DEF Next, Driver, LastStage
<1> QED BY <1>1, <1>2

\* The updates of a payload add no request to the mirror.
LEMMA AppliedKeys ==
  ASSUME NEW store, NEW p, Len(p.updates) \in Nat
  PROVE  DOMAIN Applied(store, p) = DOMAIN store \cup {r.req : r \in p.registers}
<1> DEFINE N == Len(p.updates)
           R == Registered(store, p.registers)
<1>1. PICK f : /\ f[0] = R
               /\ \A n \in 1 .. N : f[n] = Mirrored(f[n - 1], p.updates[n])
               /\ Applied(store, p) = f[N]
  BY AppliedLoop
<1>2. DOMAIN R = DOMAIN store \cup {r.req : r \in p.registers}
  BY DEF Registered
<1> HIDE DEF R
<1> DEFINE G == {n \in 0 .. N : DOMAIN f[n] = DOMAIN R}
<1>3. 0 \in G
  BY <1>1
<1>4. ASSUME NEW n \in 1 .. N, n - 1 \in G PROVE n \in G
  <2>1. \A s, u : DOMAIN Mirrored(s, u) = DOMAIN s
    BY DEF Mirrored
  <2>2. DOMAIN f[n] = DOMAIN f[n - 1]
    BY <1>1, <2>1
  <2> QED BY <1>4, <2>2
<1> HIDE DEF G, N
<1>5. N \in Nat
  BY DEF N
<1>6. \A n \in 0 .. N : n \in G
  BY <1>3, <1>4, <1>5, Induct, Zenon
<1>7. N \in G
  BY <1>5, <1>6
<1> QED BY <1>1, <1>2, <1>7 DEF G

\* A request that the followers will know is one that they know or a register
\* on its way.
LEMMA KnownOnTheWay ==
  ASSUME DriverInv, NEW v, View(v), NEW q \in known
  PROVE  \/ q \in DOMAIN mirror
         \/ \E i \in 1 .. Len(wire) : \E r \in wire[i].registers : r.req = q
<1> DEFINE N == Len(wire)
<1>1. N \in Nat /\ \A k \in 1 .. N : Len(wire[k].updates) \in Nat
  <2>1. IsSeq(wire) /\ Len(wire) \in Nat /\ DOMAIN wire = 1 .. Len(wire)
    BY SeqFacts DEF DriverInv, Piped
  <2>2. ASSUME NEW k \in 1 .. N PROVE IsSeq(wire[k].updates)
    <3>1. Updates(wire)[k] = wire[k].updates /\ k \in 1 .. Len(Updates(wire))
      BY <2>1 DEF Updates
    <3> QED BY <3>1 DEF DriverInv, Piped, Aligned
  <2> QED BY <2>1, <2>2, SeqFacts
<1>2. /\ v[0] = mirror /\ DOMAIN v[N] = known
      /\ \A k \in 1 .. N : v[k] = After(v[k - 1], wire[k])
  BY DEF View
<1>3. SUFFICES ASSUME ~ \E i \in 1 .. N : \E r \in wire[i].registers : r.req = q
               PROVE  q \in DOMAIN mirror
  OBVIOUS
<1>4. ASSUME NEW k \in 1 .. N, q \in DOMAIN v[k] PROVE q \in DOMAIN v[k - 1]
  <2>1. \A s, p : DOMAIN After(s, p) \subseteq DOMAIN Applied(s, p)
    BY DEF After
  <2>2. q \in DOMAIN Applied(v[k - 1], wire[k])
    BY <1>2, <1>4, <2>1
  <2> DEFINE s == v[k - 1]
             p == wire[k]
  <2>3. Len(p.updates) \in Nat
    BY <1>1
  <2> HIDE DEF s, p
  <2>4. DOMAIN Applied(s, p) = DOMAIN s \cup {r.req : r \in p.registers}
    BY <2>3, AppliedKeys
  <2> QED BY <1>3, <2>2, <2>4 DEF s, p
<1> DEFINE G == {k \in 0 .. N : q \in DOMAIN v[N - k]}
<1> HIDE DEF N
<1>5. 0 \in G
  BY <1>1, <1>2
<1>6. ASSUME NEW k \in 1 .. N, k - 1 \in G PROVE k \in G
  <2>1. N - (k - 1) \in 1 .. N /\ (N - (k - 1)) - 1 = N - k
    BY <1>1
  <2>2. q \in DOMAIN v[N - (k - 1)]
    BY <1>6
  <2>3. q \in DOMAIN v[(N - (k - 1)) - 1]
    BY <1>4, <2>1, <2>2
  <2> QED BY <2>1, <2>3
<1> HIDE DEF G
<1>7. \A k \in 0 .. N : k \in G
  BY <1>1, <1>5, <1>6, Induct, Zenon
<1>8. N \in G /\ N - N = 0
  BY <1>1, <1>7
<1> QED BY <1>2, <1>8 DEF G

\* The invariant of the mirror holds of every behaviour: what the followers will have
\* when they have applied all that is on its way is what the driver has sent of its
\* tables (DriverPayloadBuilder.build, FollowerSeqStore.apply_payload).
THEOREM MirrorInvariance == Spec => [](DriverInv /\ MirrorInv)
<1>1. Init => DriverInv /\ MirrorInv
  BY InitDriver, InitMirror
<1>2. DriverInv /\ MirrorInv /\ [Next]_vars => DriverInv' /\ MirrorInv'
  BY NextDriver, NextMirror
<1> QED BY <1>1, <1>2, PTL DEF Spec

\* The last stage computes on the page tables of the driver, for requests that were not
\* preempted, and no update ever finds its request missing, however many batches are
\* in the pipe (dist_schedule.py).
THEOREM MirrorsAgree == Spec => []MirrorAgrees
<1>1. ASSUME DriverInv, MirrorInv PROVE MirrorAgrees
  <2>1. PICK v : View(v)
    BY <1>1 DEF MirrorInv
  <2>2. DOMAIN wire = 1 .. Len(wire)
    BY <1>1, SeqFacts DEF DriverInv, Piped
  <2>3. MirrorKept
    BY <1>1, <2>1, <2>2, KnownOnTheWay DEF MirrorKept
  <2> QED BY <1>1, <2>3 DEF MirrorInv, MirrorAgrees
<1>2. DriverInv /\ MirrorInv => MirrorAgrees
  BY <1>1
<1> QED BY <1>2, MirrorInvariance, PTL

-----------------------------------------------------------------------------
(* The accounts of the pages, through process_output. *)

\* register_decode_boundary.
LEMMA LedgerBoundary ==
  ASSUME NEW A, NEW s, Typed(A, s), NEW L \in SUBSET Reqs, NEW F, Ledger(s, L, F, {}),
         NEW q \in L, NoHash \notin Seq(Seq(A)),
         NEW t, Typed(A, t), t.obj = s.obj, t.filled = s.filled, t.hitters = s.hitters,
         t.unwritten = s.unwritten,
         t.pool = RegisterBoundary(s.pool, s.obj[q], Len(s.obj[q].tok))
  PROVE  Ledger(t, L, F, {})
<1> DEFINE o == s.obj[q]
           n == Len(o.tok)
           i == n \div PageSize
<1>1. ObjOK(A, o) /\ n \in Nat \ {0} /\ Len(o.table) \in Nat /\ PageSize \in Nat \ {0}
  <2>1. ObjOK(A, o)
    BY DEF Typed
  <2> HIDE DEF o
  <2> QED BY <2>1, PageNat DEF ObjOK
<1>2. t.pool = IF n % PageSize # 0 \/ i > Len(o.table) THEN s.pool
               ELSE Register(s.pool, o.table[i], HashOf(o, i))
  BY DEF RegisterBoundary
<1>3. CASE n % PageSize # 0 \/ i > Len(o.table)
  <2>1. t.pool = s.pool
    BY <1>2, <1>3
  <2> QED BY <2>1, LedgerSame
<1>4. CASE ~(n % PageSize # 0 \/ i > Len(o.table))
  <2>1. i \in Nat \ {0} /\ PageSize * i <= n
    <3> HIDE DEF n
    <3>1. n % PageSize = 0
      BY <1>4
    <3> QED BY <1>1, <3>1, DivPos, DivBounds
  <2>2. i \in 1 .. Len(o.table)
    <3>1. ~(i > Len(o.table))
      BY <1>4
    <3> HIDE DEF i
    <3> QED BY <1>1, <2>1, <3>1
  <2>3. HashOf(o, i) = Own(o, i)
    <3>1. ChainOK(o)
      BY DEF Ledger, Book
    <3> HIDE DEF o, i
    <3> QED BY <2>1, <3>1, HashIsOwn
  <2>4. t.pool = Register(s.pool, o.table[i], Own(o, i))
    BY <1>2, <1>4, <2>3
  <2> HIDE DEF i
  <2>5. Book(t, L)
    <3>1. Book(s, L)
      BY DEF Ledger
    <3> QED BY <2>1, <2>2, <2>4, <3>1, BookRegister
  <2>6. Kv(t, L, F, {})
    <3>1. Kv(s, L, F, {})
      BY DEF Ledger
    <3>2. \A x : Reach(t, F, x) = Reach(s, F, x)
      BY DEF Reach
    <3>3. \A x, k : Written(t, t.obj[x], k) <=> Written(s, s.obj[x], k)
      BY DEF Written
    <3> QED BY <3>1, <3>2, <3>3 DEF Kv
  <2> QED BY <2>5, <2>6 DEF Ledger
<1> QED BY <1>3, <1>4

\* One row of the batch that came back.
LEMMA SoundRow ==
  ASSUME NEW A, NEW s, NEW W, NEW D, NEW F, Sound(A, s, W, D, F, {}),
         NEW q \in F, NEW row \in Rows, row.req = q, ~row.part, NEW t \in A,
         NoHash \notin Seq(Seq(A))
  PROVE  LET r == OutputRow(s, row, t)
         IN  /\ RowAnswered(A, s, r, q, t, W, D, F)
             /\ Sound(A, r, W, IF Finished(q, r.obj[q]) THEN D ELSE D \cup {q}, F \ {q}, {})
<1> DEFINE o == s.obj[q]
           p == Sampled(o, t)
           told == [s EXCEPT !.obj[q] = p,
                             !.pool = IF ComputedPrompt(p)
                                      THEN RegisterBoundary(@, p, Len(p.tok)) ELSE @]
           r == OutputRow(s, row, t)
           L == W \cup D \cup F
           F2 == F \ {q}
<1>0. /\ Typed(A, s) /\ Placed(s, W, D, F) /\ Ledger(s, L, F, {})
      /\ \A x \in W : Ready(s.obj[x])
      /\ L \in SUBSET Reqs /\ W \subseteq Reqs /\ D \subseteq Reqs /\ F \subseteq Reqs
      /\ W \cap F = {} /\ D \cap F = {}
  BY SoundReqs DEF Sound
<1>a. RowAnswered(A, s, r, q, t, W, D, F)
  BY <1>0, OutputRowOK
<1>1. /\ q \in Reqs /\ q \in L /\ ObjOK(A, o) /\ Flies(o) /\ q \notin W /\ q \notin D
  BY <1>0 DEF Placed, Typed
<1>2. /\ p = [o EXCEPT !.computed = o.computed + o.todo, !.tok = Append(o.tok, t)]
      /\ ComputedPrompt(p)
  <2> DEFINE c == [o EXCEPT !.computed = @ + o.todo]
  <2>1. c.computed = o.computed + o.todo /\ c.prompt = o.prompt /\ c.tok = o.tok
    BY <1>1 DEF ObjOK
  <2>2. ComputedPrompt(c)
    BY <1>1, <2>1 DEF ComputedPrompt, Flies, ObjOK
  <2>3. p = [c EXCEPT !.tok = Append(@, t)]
    BY <2>2 DEF Sampled
  <2> HIDE DEF p
  <2>4. p = [o EXCEPT !.computed = o.computed + o.todo, !.tok = Append(o.tok, t)]
    BY <1>1, <2>3 DEF ObjOK
  <2>5. p.computed = c.computed /\ p.prompt = c.prompt
    BY <1>1, <2>1, <2>4 DEF ObjOK
  <2> QED BY <2>2, <2>4, <2>5 DEF ComputedPrompt
<1> HIDE DEF p, o
<1>3. /\ DOMAIN p = {"tok", "prompt", "table", "computed", "todo", "chain"}
      /\ p.tok = Append(o.tok, t) /\ p.prompt = o.prompt /\ p.table = o.table
      /\ p.computed = o.computed + o.todo /\ p.todo = o.todo /\ p.chain = o.chain
  BY <1>1, <1>2 DEF ObjOK
<1>4. /\ p.tok \in Seq(A) /\ Len(p.tok) = Len(o.tok) + 1 /\ Len(o.tok) \in Nat /\ p.tok # <<>>
      /\ \A i \in 1 .. Len(o.tok) : p.tok[i] = o.tok[i]
  BY <1>1, <1>3 DEF ObjOK
<1>5. ObjOK(A, p)
  BY <1>1, <1>3, <1>4 DEF ObjOK, Flies
<1>6. Extends(o.tok, p.tok)
  BY <1>4 DEF Extends
<1> DEFINE u == [s EXCEPT !.obj[q] = p]
<1>7. /\ DOMAIN u = SchFields /\ u.obj = [s.obj EXCEPT ![q] = p] /\ u.pool = s.pool
      /\ u.filled = s.filled /\ u.hitters = s.hitters /\ u.unwritten = s.unwritten
      /\ u.jitter = s.jitter /\ u.running = s.running /\ u.frees = s.frees
      /\ u.prefill = s.prefill /\ u.decode = s.decode
  BY <1>0 DEF Typed, SchFields
<1>8. /\ told = [u EXCEPT !.pool = RegisterBoundary(s.pool, p, Len(p.tok))]
  BY <1>0, <1>2 DEF Typed, SchFields
<1>9. r = IF Finished(q, p)
          THEN [GiveBack(told, q) EXCEPT !.frees = Append(@, q)]
          ELSE [told EXCEPT !.decode = <<q>> \o @]
  BY DEF OutputRow, o, p
<1> HIDE DEF told, u, r
<1>10. /\ u.obj[q] = p /\ DOMAIN u.obj = Reqs /\ \A x \in Reqs \ {q} : u.obj[x] = s.obj[x]
  BY <1>0, <1>1, <1>7 DEF Typed
<1>11. Typed(A, u)
  BY <1>0, <1>5, <1>7, <1>10 DEF Typed
<1>12. Ledger(u, L, F2, {})
  <2>1. ASSUME NEW x \in L
        PROVE  /\ u.obj[x].table = s.obj[x].table
               /\ Extends(s.obj[x].tok, u.obj[x].tok)
               /\ u.obj[x].chain = s.obj[x].chain
               /\ Reach(u, F2, x) = Reach(s, F, x)
    <3>1. CASE x = q
      <4>1. Reach(u, F2, q) = p.computed /\ Reach(s, F, q) = o.computed + o.todo
        BY <1>10 DEF Reach, o
      <4> QED BY <1>3, <1>6, <1>10, <3>1, <4>1 DEF o
    <3>2. CASE x # q
      <4>1. x \in Reqs /\ u.obj[x] = s.obj[x] /\ (x \in F2 <=> x \in F)
        BY <1>0, <1>10, <3>2
      <4>2. s.obj[x].tok \in Seq(A)
        BY <1>0, <4>1 DEF Typed, ObjOK
      <4>3. Extends(s.obj[x].tok, s.obj[x].tok)
        BY <4>2, ExtendsSame
      <4> QED BY <4>1, <4>3 DEF Reach
    <3> QED BY <3>1, <3>2
  <2> DEFINE E == {}
             Moves == \A x \in L :
               /\ u.obj[x].table = s.obj[x].table
               /\ Extends(s.obj[x].tok, u.obj[x].tok)
               /\ u.obj[x].chain = s.obj[x].chain \/ ChainOK(u.obj[x])
               /\ \A i \in Nat : i < Reach(u, F2, x) => Covers(E, x, i) \/ i < Reach(s, F, x)
  <2>3. Moves
    BY <2>1
  <2>4. E \subseteq E /\ \A e \in E : RowOK(u, F2, e) /\ e.req \in L
    OBVIOUS
  <2> HIDE DEF L, F2, E
  <2>5. Ledger(s, L, F, E)
    BY <1>0 DEF E
  <2>6. Ledger(u, L, F2, E)
    BY <1>0, <1>7, <1>11, <2>3, <2>4, <2>5, LedgerMoves
  <2> QED BY <2>6 DEF E
<1>13. /\ DOMAIN told = SchFields /\ told.obj = u.obj
       /\ told.pool = RegisterBoundary(u.pool, u.obj[q], Len(u.obj[q].tok))
       /\ told.filled = u.filled /\ told.hitters = u.hitters /\ told.unwritten = u.unwritten
       /\ told.jitter = u.jitter /\ told.running = u.running /\ told.frees = u.frees
       /\ told.prefill = u.prefill /\ told.decode = u.decode
  BY <1>7, <1>8, <1>10 DEF SchFields
<1>14. Typed(A, told)
  <2>1. PoolOK(told.pool)
    <3> DEFINE i == Len(p.tok) \div PageSize
    <3>1. told.pool = RegisterBoundary(s.pool, p, Len(p.tok)) /\ PoolOK(s.pool)
      BY <1>0, <1>7, <1>10, <1>13 DEF Typed
    <3>2. CASE Len(p.tok) % PageSize # 0 \/ i > Len(p.table)
      <4>1. told.pool = s.pool
        BY <3>1, <3>2 DEF RegisterBoundary
      <4> QED BY <3>1, <4>1
    <3>3. CASE ~(Len(p.tok) % PageSize # 0 \/ i > Len(p.table))
      <4>1. PageSize \in Nat \ {0} /\ Len(p.tok) \in Nat \ {0}
        BY <1>4, PageNat
      <4>2. i \in Nat \ {0}
        BY <3>3, <4>1, DivPos
      <4>3. i \in 1 .. Len(p.table)
        <5>1. Len(p.table) \in Nat /\ ~(i > Len(p.table))
          BY <1>5, <3>3 DEF ObjOK
        <5> HIDE DEF i
        <5> QED BY <4>2, <5>1
      <4>4. p.table[i] \in Pages
        BY <1>5, <4>3 DEF ObjOK
      <4>5. PoolOK(Register(s.pool, p.table[i], HashOf(p, i)))
        BY <3>1, <4>4, RegisterOK
      <4>6. told.pool = Register(s.pool, p.table[i], HashOf(p, i))
        BY <3>1, <3>3 DEF RegisterBoundary
      <4> QED BY <4>5, <4>6
    <3> QED BY <3>2, <3>3
  <2> QED BY <1>11, <1>13, <2>1 DEF Typed
<1>15. Ledger(told, L, F2, {})
  <2> HIDE DEF L, F2
  <2> QED BY <1>0, <1>1, <1>11, <1>12, <1>13, <1>14, LedgerBoundary
<1>16. Typed(A, r)
  BY <1>a DEF RowAnswered, r
<1>17. \A x \in W : Ready(r.obj[x])
  <2>1. \A x \in Reqs \ {q} : r.obj[x] = s.obj[x]
    BY <1>a DEF RowAnswered, r
  <2> QED BY <1>0, <1>1, <2>1
<1>18. CASE Finished(q, p)
  <2> DEFINE g == GiveBack(told, q)
  <2>1. /\ Ledger(g, L \ {q}, F2, {}) /\ Typed(A, g)
    <3> HIDE DEF L, F2
    <3> QED BY <1>0, <1>1, <1>14, <1>15, LedgerLeave
  <2>2. g = [told EXCEPT !.pool = Drops(@, told.obj[q].table)]
    BY DEF GiveBack
  <2>3. DOMAIN g = SchFields /\ g.obj = told.obj
    BY <1>13, <2>2 DEF SchFields
  <2>4. r = [g EXCEPT !.frees = Append(@, q)]
    BY <1>9, <1>18
  <2> HIDE DEF g
  <2>5. /\ r.obj = g.obj /\ r.pool = g.pool /\ r.filled = g.filled /\ r.hitters = g.hitters
        /\ r.unwritten = g.unwritten
    BY <2>3, <2>4 DEF SchFields
  <2>6. Ledger(r, L \ {q}, F2, {})
    <3> DEFINE M == L \ {q}
    <3>1. M \in SUBSET Reqs
      BY <1>0
    <3> HIDE DEF M, F2
    <3>2. Ledger(g, M, F2, {})
      BY <2>1 DEF M
    <3>3. Ledger(r, M, F2, {})
      BY <1>16, <2>1, <2>5, <3>1, <3>2, LedgerSame
    <3> QED BY <3>3 DEF M
  <2>7. L \ {q} = W \cup D \cup F2
    BY <1>1
  <2>8. Finished(q, r.obj[q])
    BY <1>10, <1>13, <1>18, <2>3, <2>5
  <2>9. Placed(r, W, D, F2)
    BY <1>a, <2>8 DEF RowAnswered, r
  <2> HIDE DEF L, F2
  <2>10. Sound(A, r, W, D, F2, {})
    BY <1>16, <1>17, <2>6, <2>7, <2>9 DEF Sound
  <2> QED BY <1>a, <2>8, <2>10 DEF r, F2
<1>19. CASE ~Finished(q, p)
  <2>1. r = [told EXCEPT !.decode = <<q>> \o @]
    BY <1>9, <1>19
  <2>2. /\ r.obj = told.obj /\ r.pool = told.pool /\ r.filled = told.filled
        /\ r.hitters = told.hitters /\ r.unwritten = told.unwritten
    BY <1>13, <2>1 DEF SchFields
  <2>3. Ledger(r, L, F2, {})
    <3> HIDE DEF L, F2
    <3> QED BY <1>0, <1>14, <1>15, <1>16, <2>2, LedgerSame
  <2>4. L = W \cup (D \cup {q}) \cup F2
    BY <1>1
  <2>5. ~Finished(q, r.obj[q])
    BY <1>10, <1>13, <1>19, <2>2
  <2>6. Placed(r, W, D \cup {q}, F2)
    BY <1>a, <2>5 DEF RowAnswered, r
  <2> DEFINE D2 == D \cup {q}
  <2> HIDE DEF L, F2, D2
  <2>7. Sound(A, r, W, D2, F2, {})
    BY <1>16, <1>17, <2>3, <2>4, <2>6 DEF Sound, D2
  <2> QED BY <1>a, <2>5, <2>7 DEF r, F2, D2
<1> QED BY <1>18, <1>19

\* r is s after the first n rows of a batch came back, and its accounts are exact.
Returned(A, s, r, rows, got, n, W, D, F, E) ==
  /\ Answered(A, s, r, rows, got, n, W, D, F, E)
  /\ Sound(A, r, W, D \cup (Read(rows, n) \ E), F \ Read(rows, n), {})

\* One row more of the batch that came back.
LEMMA ReturnedNext ==
  ASSUME NEW A, NEW s, Typed(A, s), NEW W, NEW D, NEW F, Placed(s, W, D, F),
         NEW rows \in Seq(Rows), NEW got, NEW n \in 1 .. Len(rows), NEW u, NEW E,
         Returned(A, s, u, rows, got, n - 1, W, D, F, E), NoHash \notin Seq(Seq(A)),
         ~rows[n].part => /\ rows[n].req \in F /\ got[n] \in A
                          /\ rows[n].req \notin Read(rows, n - 1)
  PROVE  \E E2 : Returned(A, s, OutputRow(u, rows[n], got[n]), rows, got, n, W, D, F, E2)
<1> DEFINE row == rows[n]
           q == row.req
           t == got[n]
           r == OutputRow(u, row, t)
           Y == Read(rows, n - 1)
           T == Read(rows, n)
<1>1. n \in Nat \ {0} /\ row \in Rows
  OBVIOUS
<1>2. T = IF row.part THEN Y ELSE Y \cup {q}
  BY <1>1, ReadNext
<1>3. Answered(A, s, u, rows, got, n - 1, W, D, F, E) /\ Sound(A, u, W, D \cup (Y \ E), F \ Y, {})
  BY DEF Returned
<1>4. PICK E2 : Answered(A, s, r, rows, got, n, W, D, F, E2)
  BY <1>3, AnsweredNext
<1>5. Placed(r, W, D \cup (T \ E2), F \ T)
  BY <1>4 DEF Answered
<1>6. CASE row.part
  <2>1. r = u /\ T = Y
    BY <1>2, <1>6 DEF OutputRow
  <2> DEFINE G == F \ Y
             DE == D \cup (Y \ E)
             D2 == D \cup (T \ E2)
  <2>2. Sound(A, u, W, DE, G, {}) /\ Placed(u, W, D2, G)
    BY <1>3, <1>5, <2>1
  <2> HIDE DEF G, DE, D2, r, T, Y
  <2>3. Placed(u, W, DE, G)
    BY <2>2 DEF Sound
  <2>4. DE = D2
    BY <2>2, <2>3, PlacedUnique
  <2>5. Sound(A, r, W, D2, G, {})
    BY <2>1, <2>2, <2>4
  <2>6. G = F \ T
    BY <2>1 DEF G
  <2> QED BY <1>4, <2>5, <2>6 DEF Returned, r, D2, T
<1>7. CASE ~row.part
  <2>1. T = Y \cup {q} /\ q \in F \ Y /\ t \in A
    BY <1>2, <1>7
  <2> DEFINE G == F \ Y
             DE == D \cup (Y \ E)
             D2 == D \cup (T \ E2)
             G2 == F \ T
  <2>2. Sound(A, u, W, DE, G, {}) /\ Placed(r, W, D2, G2) /\ G2 = G \ {q} /\ q \in G
    BY <1>3, <1>5, <2>1
  <2> HIDE DEF G, DE, D2, G2, t
  <2>3. \E D3 : Sound(A, r, W, D3, G \ {q}, {})
    <3> DEFINE p == q
               w == row
    <3>1. w \in Rows /\ w.req = p /\ ~w.part /\ p \in G
      BY <1>1, <1>7, <2>2
    <3> HIDE DEF p, w
    <3> DEFINE x == OutputRow(u, w, t)
    <3>2. Sound(A, x, W, IF Finished(p, x.obj[p]) THEN DE ELSE DE \cup {p}, G \ {p}, {})
      BY <2>1, <2>2, <3>1, SoundRow
    <3> HIDE DEF x
    <3>3. \E D3 : Sound(A, x, W, D3, G \ {p}, {})
      BY <3>2
    <3> QED BY <3>3 DEF x, p, w
  <2> HIDE DEF r, T, Y
  <2>4. PICK D3 : Sound(A, r, W, D3, G2, {})
    BY <2>2, <2>3
  <2>5. Placed(r, W, D3, G2)
    BY <2>4 DEF Sound
  <2>6. D3 = D2
    BY <2>2, <2>5, PlacedUnique
  <2>7. Sound(A, r, W, D2, G2, {})
    BY <2>4, <2>6
  <2> QED BY <1>4, <2>7 DEF Returned, r, D2, G2, T, t
<1> QED BY <1>6, <1>7

\* process_output, as a whole.
LEMMA SoundOutputRows ==
  ASSUME NEW A, NEW s, NEW W, NEW D, NEW F, Sound(A, s, W, D, F, {}), NoHash \notin Seq(Seq(A)),
         NEW rows \in Seq(Rows), NEW got,
         Read(rows, Len(rows)) \subseteq F,
         \A i, j \in 1 .. Len(rows) :
           ~rows[i].part /\ ~rows[j].part /\ rows[i].req = rows[j].req => i = j,
         \A i \in 1 .. Len(rows) : got[i] \in A
  PROVE  \E E : Returned(A, s, OutputRows(s, rows, got), rows, got, Len(rows), W, D, F, E)
<1> DEFINE N == Len(rows)
<1>0. Typed(A, s) /\ Placed(s, W, D, F)
  BY DEF Sound
<1>1. N \in Nat
  OBVIOUS
<1>2. PICK f : /\ f[0] = s
               /\ \A n \in 1 .. N : f[n] = OutputRow(f[n - 1], rows[n], got[n])
               /\ OutputRows(s, rows, got) = f[N]
  BY <1>1, OutputRowsLoop
<1> DEFINE OK(n) == \E E : Returned(A, s, f[n], rows, got, n, W, D, F, E)
           G == {n \in 0 .. N : OK(n)}
<1>3. OK(0)
  <2>1. Read(rows, 0) = {}
    BY DEF Read
  <2>2. D \cup ({} \ {}) = D /\ F \ {} = F
    OBVIOUS
  <2>4. Answered(A, s, s, rows, got, 0, W, D, F, {})
    <3> DEFINE T == Read(rows, 0)
    <3>1. T = {}
      BY <2>1
    <3>2. \A i \in 1 .. 0 : FALSE
      OBVIOUS
    <3>4. Placed(s, W, D \cup ({} \ {}), F \ {})
      BY <1>0, <2>2
    <3> HIDE DEF T
    <3>3. /\ {} \subseteq T /\ Placed(s, W, D \cup (T \ {}), F \ T)
          /\ \A x \in T : x \in {} <=> Finished(x, s.obj[x])
      BY <3>1, <3>4
    <3> QED BY <1>0, <3>2, <3>3 DEF Answered, T
  <2>5. Sound(A, s, W, D \cup ({} \ {}), F \ {}, {})
    BY <2>2
  <2>6. Returned(A, s, s, rows, got, 0, W, D, F, {})
    BY <2>1, <2>4, <2>5 DEF Returned
  <2> QED BY <1>2, <2>6
<1>4. ASSUME NEW n \in 1 .. N, OK(n - 1) PROVE OK(n)
  <2>1. PICK E : Returned(A, s, f[n - 1], rows, got, n - 1, W, D, F, E)
    BY <1>4
  <2>2. ~rows[n].part => /\ rows[n].req \in F /\ got[n] \in A
                         /\ rows[n].req \notin Read(rows, n - 1)
    <3>1. \A i \in 1 .. n - 1 : i \in 1 .. N /\ i # n
      BY <1>1
    <3>2. ~rows[n].part => rows[n].req \in F
      BY DEF Read
    <3>3. ~rows[n].part => rows[n].req \notin Read(rows, n - 1)
      BY <3>1 DEF Read
    <3> QED BY <3>2, <3>3
  <2>3. \E E2 : Returned(A, s, OutputRow(f[n - 1], rows[n], got[n]), rows, got, n, W, D, F, E2)
    BY <1>0, <2>1, <2>2, ReturnedNext
  <2> QED BY <1>2, <2>3
<1> HIDE DEF OK
<1>5. 0 \in G
  BY <1>1, <1>3
<1>6. ASSUME NEW n \in 1 .. N, n - 1 \in G PROVE n \in G
  BY <1>4, <1>6
<1> HIDE DEF G
<1>7. \A n \in 0 .. N : n \in G
  BY <1>1, <1>5, <1>6, Induct, Zenon
<1>8. OK(N)
  BY <1>1, <1>7 DEF G
<1> QED BY <1>2, <1>8 DEF OK

-----------------------------------------------------------------------------
(* The invariant of the pages. *)

Live == {q \in Reqs : fate[q] = "live"}

\* The accounts of the driver's pages are those of the live requests.
Accounted(W, D, F) == Sound(Alphabet, sch, W, D, F, {}) /\ W \cup D \cup F = Live

\* A request that the engine has not got yet is as its client made it.
Fresh == \A q \in Reqs : fate[q] = "new" => sch.obj[q] = NewSeq(q)

PagesInv == (\E W, D, F : Accounted(W, D, F)) /\ Fresh

\* With pages of one token, no prompt is one page.
LongPrompts == PageSize > 1 \/ \A q \in Reqs : Len(Prompt[q]) > 1

\* No prefix is hashed to NoHash.
LEMMA NoHashIsNone == NoHash \notin Seq(Seq(Alphabet))
BY WorkerAssumption DEF Alphabet

\* The two invariants speak of the same sets.
LEMMA SameDriving ==
  ASSUME DriverInv, NEW W, NEW D, NEW F, Accounted(W, D, F)
  PROVE  Driving(W, D, F)
<1>1. PICK W2, D2, F2 : Driving(W2, D2, F2)
  BY DEF DriverInv
<1>2. Placed(sch, W, D, F) /\ Placed(sch, W2, D2, F2)
  BY <1>1 DEF Accounted, Driving, Sound
<1>3. W = W2 /\ D = D2
  BY <1>2, PlacedUnique
<1>4. F = F2
  <2>1. W \cup D \cup F = W2 \cup D2 \cup F2
    BY <1>1 DEF Accounted, Driving, Live
  <2>2. W \cap F = {} /\ D \cap F = {} /\ W2 \cap F2 = {} /\ D2 \cap F2 = {}
    BY <1>2 DEF Placed
  <2> QED BY <1>3, <2>1, <2>2
<1> QED BY <1>1, <1>3, <1>4

\* At the start every page is free.
LEMMA InitPages ==
  ASSUME Init PROVE PagesInv
<1>1. DriverInv
  BY InitDriver
<1>2. PICK W, D, F : Driving(W, D, F)
  BY <1>1 DEF DriverInv
<1>3. fate = [q \in Reqs |-> "new"] /\ sch = NewScheduler
  BY DEF Init
<1>4. Live = {}
  BY <1>3 DEF Live
<1>5. W = {} /\ D = {} /\ F = {}
  BY <1>2, <1>4 DEF Driving, Live
<1>6. Typed(Alphabet, sch) /\ Placed(sch, {}, {}, {})
  BY <1>2, <1>5 DEF Driving
<1>7. /\ sch.pool = EmptyPool /\ sch.filled = [p \in Pages |-> {}]
      /\ sch.unwritten = {} /\ sch.hitters = {} /\ sch.obj = [q \in Reqs |-> NewSeq(q)]
  BY <1>3 DEF NewScheduler
<1>8. PoolExact(EmptyPool)
  <2> DEFINE free == [i \in 1 .. NumPages |-> i - 1]
  <2>1. NumPages \in Nat
    BY PagesAssumption
  <2>2. Len(free) = NumPages /\ \A i \in 1 .. NumPages : free[i] = i - 1
    BY <2>1
  <2> HIDE DEF free
  <2>3. Injective(free)
    BY <2>1, <2>2 DEF Injective
  <2>4. \A p \in Pages : Listed(free, p)
    <3>1. TAKE p \in Pages
    <3>2. p + 1 \in 1 .. NumPages /\ (p + 1) - 1 = p
      BY <2>1 DEF Pages
    <3>3. free[p + 1] = p
      BY <2>2, <3>2
    <3> QED BY <2>2, <3>2, <3>3 DEF Listed
  <2>5. /\ EmptyPool.free = free /\ EmptyPool.ref = [p \in Pages |-> 0]
        /\ DOMAIN EmptyPool.h2p = {}
    BY DEF EmptyPool, free
  <2> QED BY <2>3, <2>4, <2>5 DEF PoolExact
<1>9. Book(sch, {})
  <2>1. \A p \in Pages : sch.pool.ref[p] = 0
    BY <1>7 DEF EmptyPool
  <2>2. \A p : Holders(sch, {}, p) = {}
    BY DEF Holders
  <2>3. \A p \in Pages : sch.pool.ref[p] = Cardinality(Holders(sch, {}, p))
    BY <2>1, <2>2, FS_EmptySet
  <2> QED BY <1>7, <1>8, <2>3 DEF Book
<1>10. Kv(sch, {}, {}, {})
  BY <1>7 DEF Kv
<1>11. Ledger(sch, {} \cup {} \cup {}, {}, {})
  <2>1. {} \cup {} \cup {} = {}
    OBVIOUS
  <2>2. Ledger(sch, {}, {}, {})
    BY <1>9, <1>10 DEF Ledger
  <2> QED BY <2>1, <2>2
<1>12. Accounted({}, {}, {})
  BY <1>4, <1>6, <1>11 DEF Accounted, Sound
<1>13. Fresh
  BY <1>7 DEF Fresh
<1> QED BY <1>12, <1>13 DEF PagesInv

\* Steps that leave the scheduler and the requests alone.
LEMMA SilentPages ==
  ASSUME PagesInv, UNCHANGED <<sch, fate>>
  PROVE  PagesInv'
<1>1. PICK W, D, F : Accounted(W, D, F)
  BY DEF PagesInv
<1>2. Accounted(W, D, F)'
  BY <1>1 DEF Accounted, Live
<1>3. Fresh'
  BY DEF PagesInv, Fresh
<1> QED BY <1>2, <1>3 DEF PagesInv

\* Those that are given up give their pages back.
LEMMA CheckAbortPages ==
  ASSUME DriverInv, PagesInv, CheckAbortSeqs
  PROVE  PagesInv'
<1>0. PICK X : X = Aborted(sch)
  OBVIOUS
<1>1. PICK W, D, F : Accounted(W, D, F)
  BY DEF PagesInv
<1>2. Typed(Alphabet, sch) /\ Placed(sch, W, D, F) /\ W \cup D \cup F = Live
  BY <1>1 DEF Accounted, Sound
<1>3. X = (W \cup D) \cap sch.abort /\ GivenUp(Alphabet, sch, CheckAbort(sch), W, D, F, X)
  BY <1>0, <1>2, CheckAbortOK
<1>4. sch' = CheckAbort(sch) /\ fate' = [q \in Reqs |-> IF q \in X THEN "aborted" ELSE fate[q]]
  BY <1>0 DEF CheckAbortSeqs
<1>5. Sound(Alphabet, sch', W \ X, D \ X, F, {})
  BY <1>0, <1>1, <1>4, SoundCheckAbort DEF Accounted
<1>6. (W \ X) \cup (D \ X) \cup F = Live'
  <2>1. (W \cup D) \cap F = {}
    BY <1>2 DEF Placed
  <2> QED BY <1>2, <1>3, <1>4, <2>1 DEF Live
<1>7. Accounted(W \ X, D \ X, F)'
  BY <1>5, <1>6 DEF Accounted
<1>8. Fresh'
  <2>1. sch'.obj = sch.obj
    BY <1>3, <1>4 DEF GivenUp
  <2> QED BY <1>4, <2>1 DEF PagesInv, Fresh
<1> QED BY <1>7, <1>8 DEF PagesInv

\* New requests have no page.
LEMMA RecvIpcPages ==
  ASSUME LongPrompts, DriverInv, PagesInv, RecvIpcPackage, DriverInv'
  PROVE  PagesInv'
<1>1. PICK W, D, F : Accounted(W, D, F)
  BY DEF PagesInv
<1>2. PICK new \in UNION {Orders(S) : S \in SUBSET {q \in Reqs : fate[q] = "new"}},
              gone \in SUBSET {q \in Abortable : fate[q] \in {"live", "finished"}} :
        /\ sch' = [sch EXCEPT !.prefill = @ \o new, !.abort = @ \cup gone]
        /\ fate' = [q \in Reqs |-> IF q \in Range(new) THEN "live" ELSE fate[q]]
  BY Zenon DEF RecvIpcPackage
<1>20. PICK S \in SUBSET {q \in Reqs : fate[q] = "new"} : new \in Orders(S)
  OBVIOUS
<1>3. /\ Typed(Alphabet, sch) /\ Placed(sch, W, D, F) /\ W \cup D \cup F = Live
      /\ Ledger(sch, W \cup D \cup F, F, {}) /\ \A q \in W : Ready(sch.obj[q])
      /\ W \cup D \cup F \in SUBSET Reqs /\ F \in SUBSET Reqs
  BY <1>1, SoundReqs DEF Accounted, Sound
<1>4. Lists(new, S) /\ Range(new) = S
  <2> DEFINE n == Cardinality(S)
  <2>1. n \in Nat
    BY SchedulerAssumption, FS_Subset, FS_CardinalityType
  <2> HIDE DEF n
  <2>2. new \in Bijection(1 .. n, S)
    BY <1>20 DEF Orders, n
  <2>3. /\ new \in [1 .. n -> S] /\ \A a, b \in 1 .. n : new[a] = new[b] => a = b
        /\ \A x \in S : \E a \in 1 .. n : new[a] = x
    BY <2>2 DEF Bijection, Injection, Surjection, IsInjective
  <2>4. new \in Seq(Reqs) /\ Len(new) = n
    BY <2>1, <2>3
  <2>5. Lists(new, S)
    BY <2>3, <2>4 DEF Lists, Injective
  <2> QED BY <2>5, ListsRange
<1>5. /\ sch'.obj = sch.obj /\ sch'.pool = sch.pool /\ sch'.filled = sch.filled
      /\ sch'.hitters = sch.hitters /\ sch'.unwritten = sch.unwritten
      /\ sch'.prefill = sch.prefill \o new /\ sch'.decode = sch.decode
  BY <1>2, <1>3 DEF Typed, SchFields
<1>6. Typed(Alphabet, sch')
  BY DEF DriverInv, Driving
<1>7. ASSUME NEW q \in S
      PROVE  LET o == sch.obj[q] IN
             /\ q \in Reqs /\ q \notin W \cup D \cup F /\ o.table = <<>> /\ o.computed = 0
             /\ ChainOK(o) /\ Long(o) /\ Ready(o) /\ Waits(o)
  <2>1. q \in Reqs /\ fate[q] = "new" /\ q \notin W \cup D \cup F
    BY <1>3 DEF Live
  <2> DEFINE o == sch.obj[q]
  <2>2. o = NewSeq(q) /\ ObjOK(Alphabet, o)
    BY <1>3, <2>1 DEF PagesInv, Fresh, Typed
  <2> HIDE DEF o
  <2>3. /\ o.table = <<>> /\ o.computed = 0 /\ o.chain = <<>> /\ o.tok = Prompt[q]
    BY <2>2 DEF NewSeq
  <2>4. ChainOK(o)
    BY <2>2, <2>3, ChainNone
  <2>5. Long(o)
    BY <2>1, <2>3 DEF Long, LongPrompts
  <2>6. Ready(o)
    <3>1. PagesFor(0) = 0
      <4>1. PageSize \in Nat \ {0}
        BY PageNat
      <4>2. (0 + PageSize - 1) \div PageSize = 0
        <5> DEFINE m == 0 + PageSize - 1
                   d == m \div PageSize
        <5>1. m \in Nat /\ m < PageSize
          BY <4>1
        <5>2. d \in Nat /\ PageSize * d <= m
          BY <4>1, <5>1, DivBounds
        <5> HIDE DEF d, m
        <5>3. PageSize * d < PageSize * 1
          BY <4>1, <5>1, <5>2
        <5>4. d < 1
          BY <4>1, <5>2, <5>3, ProductMono
        <5> QED BY <5>2, <5>4 DEF d, m
      <4> QED BY <4>2 DEF PagesFor
    <3>2. Len(<<>>) = 0
      OBVIOUS
    <3> QED BY <2>3, <3>1, <3>2 DEF Ready
  <2>7. Waits(o)
    <3>1. Len(o.tok) > 0
      BY <2>2 DEF ObjOK
    <3> QED BY <2>3, <3>1 DEF Waits
  <2> QED BY <2>1, <2>3, <2>4, <2>5, <2>6, <2>7 DEF o
<1>8. Ledger(sch, (W \cup D \cup F) \cup S, F, {})
  <2> DEFINE L == W \cup D \cup F
  <2>1. new \in Seq(Reqs) /\ \A i \in 1 .. Len(new) : new[i] \in S
    BY <1>4 DEF Lists
  <2>2. \A i \in 1 .. Len(new) : LET o == sch.obj[new[i]] IN
           /\ new[i] \notin F /\ o.table = <<>> /\ o.computed = 0
           /\ ChainOK(o) /\ Long(o)
    BY <1>7, <2>1
  <2>3. L \in SUBSET Reqs
    BY <1>3
  <2> HIDE DEF L
  <2>4. Ledger(sch, L, F, {})
    BY <1>3 DEF L
  <2>5. Ledger(sch, L \cup Range(new), F, {})
    BY <1>3, <2>1, <2>2, <2>3, <2>4, LedgerEnters
  <2> QED BY <1>4, <2>5 DEF L
<1>9. Sound(Alphabet, sch', W \cup S, D, F, {})
  <2> DEFINE L == (W \cup S) \cup D \cup F
  <2>1. L = (W \cup D \cup F) \cup S /\ L \in SUBSET Reqs
    BY <1>3
  <2> HIDE DEF L
  <2>2. Ledger(sch', L, F, {})
    BY <1>3, <1>5, <1>6, <1>8, <2>1, LedgerSame
  <2>3. Lists(sch'.prefill, W \cup S)
    <3>1. W \cap S = {}
      BY <1>7
    <3> QED BY <1>3, <1>4, <1>5, <3>1, ListsConcat DEF Placed
  <2>4. S \cap (W \cup D \cup F) = {}
    BY <1>7
  <2>5. \A q \in W \cup S : Waits(sch'.obj[q]) /\ Ready(sch'.obj[q])
    BY <1>3, <1>5, <1>7 DEF Placed
  <2>6. Placed(sch', W \cup S, D, F)
    BY <1>3, <1>5, <2>3, <2>4, <2>5 DEF Placed
  <2> QED BY <1>6, <2>2, <2>5, <2>6 DEF Sound, L
<1>10. Live' = (W \cup S) \cup D \cup F
  BY <1>2, <1>3, <1>4 DEF Live
<1>11. Accounted(W \cup S, D, F)'
  BY <1>9, <1>10 DEF Accounted
<1>12. Fresh'
  BY <1>2, <1>5 DEF PagesInv, Fresh
<1> QED BY <1>11, <1>12 DEF PagesInv

\* schedule_forward.
LEMMA SchedulePages ==
  ASSUME DriverInv, PagesInv, ScheduleForward, DriverInv'
  PROVE  PagesInv'
<1>1. PICK W, D, F : Accounted(W, D, F)
  BY DEF PagesInv
<1>2. Driving(W, D, F)
  BY <1>1, SameDriving
<1>3. PICK ratio \in Ratios : \E r \in {ScheduleOnce(sch, ratio)} :
       IF r.batch = <<>> THEN sch' = r.sch
       ELSE sch' = Forward([r.sch EXCEPT !.frees = <<>>], r.batch)
  BY DEF ScheduleForward
<1>4. PICK r : r = ScheduleOnce(sch, ratio)
  OBVIOUS
<1> DEFINE b == r.batch
<1>5. IF b = <<>> THEN sch' = r.sch ELSE sch' = Forward([r.sch EXCEPT !.frees = <<>>], b)
  BY <1>3, <1>4
<1>6. ratio \in Nat
  BY SchedulerAssumption
<1>7. \E m, W2, D2 : OnceMade(Alphabet, r, m, W, D, F, W2, D2)
  BY <1>1, <1>4, <1>6, NoHashIsNone, SoundOnce DEF Accounted
<1>8. PICK m, W2, D2 : OnceMade(Alphabet, r, m, W, D, F, W2, D2)
  BY <1>7
<1> DEFINE G == F \cup Goes(b)
<1>9. /\ Sound(Alphabet, m, W2, D2, G, Range(b)) /\ W2 \cup D2 \cup G = W \cup D \cup F
      /\ b = <<>> => r.sch = m
      /\ b # <<>> => r.sch = [m EXCEPT !.running = Append(m.running, RowsOf(b))]
  BY <1>8 DEF OnceMade
<1> HIDE DEF b, G
<1>10. UNCHANGED fate
  BY DEF ScheduleForward
<1>11. Live' = W2 \cup D2 \cup G
  BY <1>1, <1>9, <1>10 DEF Accounted, Live
<1>12. Typed(Alphabet, sch')
  BY DEF DriverInv, Driving
<1>13. Typed(Alphabet, m) /\ Placed(m, W2, D2, G) /\ DOMAIN m = SchFields
  BY <1>9 DEF Sound, Typed
<1>14. ASSUME b = <<>> PROVE Sound(Alphabet, sch', W2, D2, G, {})
  <2>1. sch' = m
    BY <1>5, <1>9, <1>14
  <2>2. Range(b) = {}
    BY <1>14, RangeNone
  <2> QED BY <1>9, <2>1, <2>2
<1>15. ASSUME b # <<>> PROVE Sound(Alphabet, sch', W2, D2, G, {})
  <2> DEFINE x == [r.sch EXCEPT !.frees = <<>>]
  <2>1. sch' = Forward(x, b) /\ r.sch = [m EXCEPT !.running = Append(m.running, RowsOf(b))]
    BY <1>5, <1>9, <1>15
  <2>2. /\ DOMAIN x = SchFields /\ x.obj = m.obj /\ x.pool = m.pool /\ x.filled = m.filled
        /\ x.prefill = m.prefill /\ x.decode = m.decode
        /\ x.hitters = m.hitters /\ x.unwritten = m.unwritten
    BY <1>13, <2>1 DEF SchFields
  <2> HIDE DEF x
  <2>3. /\ sch'.obj = m.obj /\ sch'.pool = m.pool /\ sch'.prefill = m.prefill
        /\ sch'.decode = m.decode /\ sch'.hitters = m.hitters
    BY <2>1, <2>2 DEF Forward, SchFields
  <2>4. sch'.filled = Forward(m, b).filled /\ sch'.unwritten = Forward(m, b).unwritten
    BY <1>13, <2>1, <2>2 DEF Forward, SchFields
  <2>5. Placed(sch', W2, D2, G)
    BY <1>13, <2>3 DEF Placed
  <2> QED BY <1>9, <1>12, <2>3, <2>4, <2>5, SoundForward
<1>16. \E X, Y, Z : Sound(Alphabet, sch', X, Y, Z, {}) /\ X \cup Y \cup Z = Live'
  <2>1. Sound(Alphabet, sch', W2, D2, G, {})
    BY <1>14, <1>15
  <2> QED BY <1>11, <2>1
<1>17. Fresh'
  <2>1. PICK n, c, X, Y, V, B, U : Scheduled(n, c, W, D, F, X, Y, V, B, U)
    BY <1>2, ScheduleStep
  <2>2. \A q \in Reqs \ (W \cup D) : sch'.obj[q] = sch.obj[q]
    BY <2>1 DEF Scheduled, Built, Moved
  <2>3. \A q \in Reqs : fate[q] = "new" => q \notin W \cup D
    BY <1>1 DEF Accounted, Live
  <2> QED BY <1>10, <2>2, <2>3 DEF PagesInv, Fresh
<1> QED BY <1>16, <1>17 DEF PagesInv, Accounted

\* process_output.
LEMMA ProcessOutputPages ==
  ASSUME DriverInv, PagesInv, ProcessOutput
  PROVE  PagesInv'
<1>1. CASE results = <<>>
  <2>1. UNCHANGED <<sch, fate>>
    BY <1>1 DEF ProcessOutput
  <2> QED BY <2>1, SilentPages
<1>2. CASE results # <<>>
  <2>1. PICK W, D, F : Accounted(W, D, F)
    BY DEF PagesInv
  <2> DEFINE runs == sch.running
             rows == Head(runs)
             got == Head(results)
             N == Len(rows)
             T == Read(rows, N)
             start == [sch EXCEPT !.running = Tail(@)]
  <2>2. /\ sch' = OutputRows(start, rows, got)
        /\ fate' = [q \in Reqs |->
             IF q \in Range(sch'.frees) \ Range(sch.frees) THEN "finished" ELSE fate[q]]
    BY <1>2 DEF ProcessOutput
  <2>3. Driving(W, D, F)
    BY <2>1, SameDriving
  <2>4. /\ Typed(Alphabet, sch) /\ Placed(sch, W, D, F) /\ RunsOK(runs, F) /\ Len(runs) <= PP
        /\ runs \in Seq(Seq(Rows)) /\ IsSeq(runs)
        /\ W \cup D \cup F = {q \in Reqs : fate[q] = "live"}
        /\ W \cap F = {} /\ D \cap F = {} /\ F \subseteq Reqs
    BY <2>3 DEF Driving, Typed, Placed, IsSeq
  <2>5. /\ results \in Seq(Seq(Tokens)) /\ Aligned(runs, 0, results) /\ Len(results) \in Nat
        /\ Len(tokens) \in Nat /\ Len(inputs) \in Nat /\ Len(wire) \in Nat
        /\ Len(runs) = Len(results) + Len(tokens) + Len(inputs) + Len(wire)
        /\ IsSeq(results)
    <3>1. Piped
      BY DEF DriverInv
    <3>2. results \in Seq(Seq(Tokens)) /\ tokens \in Seq(Seq(Tokens)) /\ IsSeq(wire) /\ IsSeq(inputs)
      BY <3>1 DEF Piped
    <3>3. IsSeq(results)
      BY <3>2 DEF IsSeq
    <3> QED BY <3>1, <3>2, <3>3, SeqFacts DEF Piped
  <2>6. Len(results) >= 1 /\ runs # <<>> /\ Len(runs) \in Nat
    <3>1. Len(results) >= 1
      BY <1>2, <2>5, SeqFacts
    <3> QED BY <2>4, <2>5, <3>1, SeqFacts
  <2>7. /\ rows \in Seq(Rows) /\ Tail(runs) \in Seq(Seq(Rows))
        /\ T \subseteq F
        /\ \A i, j \in 1 .. Len(rows) :
             ~rows[i].part /\ ~rows[j].part /\ rows[i].req = rows[j].req => i = j
    <3> HIDE DEF runs
    <3> QED BY <2>4, <2>6, RunsTail DEF Read
  <2>8. N \in Nat /\ \A i \in 1 .. N : got[i] \in Alphabet
    <3>1. got = results[1] /\ got \in Seq(Tokens) /\ 1 \in 1 .. Len(results)
      BY <1>2, <2>5
    <3>2. Len(got) = Len(runs[0 + 1])
      BY <2>5, <3>1 DEF Aligned
    <3>3. runs[0 + 1] = rows
      BY <2>4, <2>6
    <3> HIDE DEF got, rows
    <3>4. Len(got) = N
      BY <3>2, <3>3
    <3> QED BY <2>7, <3>1, <3>4 DEF Alphabet
  <2>9. /\ DOMAIN start = SchFields /\ start.running = Tail(runs)
        /\ start.obj = sch.obj /\ start.prefill = sch.prefill /\ start.decode = sch.decode
        /\ start.pool = sch.pool /\ start.jitter = sch.jitter /\ start.frees = sch.frees
        /\ start.filled = sch.filled /\ start.hitters = sch.hitters
        /\ start.unwritten = sch.unwritten
    BY <2>4 DEF Typed, SchFields
  <2> HIDE DEF rows, got, runs, start
  <2>10. Sound(Alphabet, start, W, D, F, {})
    <3>1. Typed(Alphabet, start)
      BY <2>4, <2>7, <2>9 DEF Typed
    <3>2. Placed(start, W, D, F)
      BY <2>4, <2>9 DEF Placed
    <3> QED BY <2>1, <2>9, <3>1, <3>2, SoundSame DEF Accounted
  <2>11. \E E : Returned(Alphabet, start, OutputRows(start, rows, got), rows, got, Len(rows), W, D, F, E)
    BY <2>7, <2>8, <2>10, NoHashIsNone, SoundOutputRows
  <2>12. PICK E : Returned(Alphabet, start, sch', rows, got, N, W, D, F, E)
    BY <2>2, <2>11
  <2>13. Answered(Alphabet, start, sch', rows, got, N, W, D, F, E)
         /\ Sound(Alphabet, sch', W, D \cup (T \ E), F \ T, {})
    BY <2>12 DEF Returned
  <2>14. /\ E \subseteq T /\ \A x \in Reqs \ T : sch'.obj[x] = sch.obj[x]
         /\ \A q : q \in Range(sch'.frees) <=> q \in Range(sch.frees) \/ q \in E
    BY <2>9, <2>13 DEF Answered
  <2> HIDE DEF N, T
  <2>15. E \cap Range(sch.frees) = {}
    <3>1. \A q \in E : fate[q] = "live"
      BY <2>4, <2>7, <2>14
    <3> QED BY <3>1 DEF DriverInv, Answering
  <2>16. fate' = [q \in Reqs |-> IF q \in E THEN "finished" ELSE fate[q]]
    <3>1. \A q : q \in Range(sch'.frees) \ Range(sch.frees) <=> q \in E
      BY <2>14, <2>15
    <3> QED BY <2>2, <3>1
  <2>17. Live' = W \cup (D \cup (T \ E)) \cup (F \ T)
    <3>1. Live' = {q \in Reqs : fate[q] = "live"} \ E
      BY <2>16 DEF Live
    <3> QED BY <2>4, <2>7, <2>14, <3>1
  <2>19. Fresh'
    <3>1. \A q \in Reqs : fate'[q] = "new" => fate[q] = "new" /\ q \notin T
      BY <2>4, <2>7, <2>16
    <3> QED BY <2>14, <3>1 DEF PagesInv, Fresh
  <2>20. \E X, Y, Z : Sound(Alphabet, sch', X, Y, Z, {}) /\ X \cup Y \cup Z = Live'
    BY <2>13, <2>17
  <2> QED BY <2>19, <2>20 DEF PagesInv, Accounted
<1> QED BY <1>1, <1>2

\* The invariant of the pages is kept by every step.
LEMMA NextPages ==
  ASSUME LongPrompts, DriverInv, PagesInv, [Next]_vars, DriverInv'
  PROVE  PagesInv'
<1>1. CASE UNCHANGED vars
  <2>1. UNCHANGED <<sch, fate>>
    BY <1>1 DEF vars
  <2> QED BY <2>1, SilentPages
<1>2. CASE RecvNextTokens \/ RecvSchedulePayload \/ ForwardPp
  <2>1. UNCHANGED <<sch, fate>>
    BY <1>2 DEF RecvNextTokens, RecvSchedulePayload, ForwardPp
  <2> QED BY <2>1, SilentPages
<1>3. CASE CheckAbortSeqs
  BY <1>3, CheckAbortPages
<1>4. CASE RecvIpcPackage
  BY <1>4, RecvIpcPages
<1>5. CASE ScheduleForward
  BY <1>5, SchedulePages
<1>6. CASE ProcessOutput
  BY <1>6, ProcessOutputPages
<1> QED BY <1>1, <1>2, <1>3, <1>4, <1>5, <1>6 DEF Next, Driver, LastStage

-----------------------------------------------------------------------------
(* The theorems about the pages. *)

\* The invariant of the pages holds of every behaviour: the counts of the pool are
\* the holders, a page has one hash, and the slots of a request are written or will be
\* by the batches in the pipe (memory_manager.py, scheduler.py).
THEOREM PagesInvariance == ASSUME LongPrompts PROVE Spec => [](DriverInv /\ PagesInv)
<1>1. Init => DriverInv /\ PagesInv
  BY InitDriver, InitPages
<1>2. DriverInv /\ PagesInv /\ [Next]_vars => DriverInv' /\ PagesInv'
  BY NextDriver, NextPages
<1> QED BY <1>1, <1>2, PTL DEF Spec

\* What is held is what the live requests have.
LEMMA HeldIsTable ==
  ASSUME InOnePlace, NEW q \in Reqs
  PROVE  /\ Held(q) = IF q \in Live THEN Range(sch.obj[q].table) ELSE {}
         /\ Places(q) = 1 <=> q \in Live
<1>1. Places(q) = IF fate[q] = "live" THEN 1 ELSE 0
  BY DEF InOnePlace
<1>2. Places(q) = 0 <=> q \notin Live
  BY <1>1 DEF Live
<1> QED BY <1>1, <1>2 DEF Held, Live

\* Two ways to say that s has p.
LEMMA ListedRange ==
  ASSUME NEW S, NEW s \in Seq(S), NEW p
  PROVE  p \in Range(s) <=> Listed(s, p)
BY DEF Range, Listed

\* The accounts say what the run checks of the pool.
LEMMA AccountsExact ==
  ASSUME DriverInv, PagesInv, InOnePlace
  PROVE  PagesAccounted
<1>1. PICK W, D, F : Accounted(W, D, F)
  BY DEF PagesInv
<1>2. Book(sch, Live) /\ Typed(Alphabet, sch)
  BY <1>1 DEF Accounted, Sound, Ledger
<1>3. ASSUME NEW p \in Pages
      PROVE  /\ sch.pool.ref[p] = Cardinality({q \in Reqs : p \in Held(q)})
             /\ sch.pool.ref[p] = 0 <=> p \in Range(sch.pool.free)
  <2>1. {q \in Reqs : p \in Held(q)} = Holders(sch, Live, p)
    <3>1. ASSUME NEW q \in Reqs PROVE p \in Held(q) <=> q \in Holders(sch, Live, p)
      <4>1. sch.obj[q].table \in Seq(Pages)
        BY <1>2 DEF Typed, ObjOK
      <4>2. p \in Range(sch.obj[q].table) <=> Listed(sch.obj[q].table, p)
        BY <4>1, ListedRange
      <4> QED BY <4>2, HeldIsTable DEF Holders
    <3>2. Holders(sch, Live, p) \subseteq Reqs
      BY DEF Holders, Live
    <3> QED BY <3>1, <3>2
  <2>2. sch.pool.ref[p] = Cardinality(Holders(sch, Live, p))
    BY <1>2 DEF Book
  <2>3. sch.pool.free \in Seq(Pages)
    BY <1>2 DEF Typed, PoolOK
  <2>4. Listed(sch.pool.free, p) <=> sch.pool.ref[p] = 0
    BY <1>2 DEF Book, PoolExact
  <2> QED BY <2>1, <2>2, <2>3, <2>4, ListedRange
<1> QED BY <1>3 DEF PagesAccounted

\* They say what the run checks of the cache and the slots.
LEMMA CachedExact ==
  ASSUME DriverInv, PagesInv, InOnePlace
  PROVE  CachedUnderOwnPrefix /\ OwnKvWritten
<1>1. PICK W, D, F : Accounted(W, D, F)
  BY DEF PagesInv
<1>2. Book(sch, Live) /\ Typed(Alphabet, sch) /\ Kv(sch, Live, F, {})
  BY <1>1 DEF Accounted, Sound, Ledger
<1>3. ASSUME NEW q \in Reqs, Places(q) = 1, NEW i \in DOMAIN sch.obj[q].table,
             sch.pool.p2h[sch.obj[q].table[i]] # NoHash
      PROVE  sch.pool.p2h[sch.obj[q].table[i]] = [j \in 1 .. i |-> PageTokens(sch.obj[q], j)]
  <2>1. q \in Live
    BY <1>3, HeldIsTable
  <2>2. HashesOK(sch.pool, sch.obj[q])
    BY <1>2, <2>1 DEF Book
  <2>3. i \in 1 .. Len(sch.obj[q].table)
    BY <1>2 DEF Typed, ObjOK
  <2> QED BY <1>3, <2>2, <2>3 DEF HashesOK, Own
<1>4. CachedUnderOwnPrefix
  BY <1>3 DEF CachedUnderOwnPrefix
<1>5. OwnKvWritten
  BY <1>2 DEF Kv, OwnKvWritten
<1> QED BY <1>4, <1>5

\* The three invariants give the types.
LEMMA WorkerTyped ==
  ASSUME DriverInv, MirrorInv, PagesInv
  PROVE  TypeOK
<1>1. PICK W, D, F : Driving(W, D, F)
  BY DEF DriverInv
<1>2. Typed(Alphabet, sch) /\ Placed(sch, W, D, F) /\ Len(sch.running) <= PP
      /\ fate \in [Reqs -> Fates]
  BY <1>1 DEF Driving
<1>3. sch.prefill \in Seq(Reqs) /\ sch.decode \in Seq(Reqs)
  BY <1>2 DEF Placed, Lists
<1>4. sch.pool.free \in Seq(Pages) /\ sch.pool.ref \in [Pages -> Nat]
  <2>1. PoolExact(sch.pool)
    BY DEF PagesInv, Accounted, Sound, Ledger, Book
  <2> QED BY <1>2, <2>1 DEF Typed, PoolOK, PoolExact
<1>5. ASSUME NEW q \in Reqs
      PROVE  /\ sch.obj[q].table \in Seq(Pages)
             /\ sch.obj[q].computed \in 0 .. Len(sch.obj[q].tok)
             /\ sch.obj[q].prompt \in Len(Prompt[q]) .. Len(sch.obj[q].tok)
             /\ out[q] \in Seq(Tokens)
             /\ fate[q] \in {"new", "live", "finished", "aborted"}
  <2>1. ObjOK(Alphabet, sch.obj[q])
    BY <1>2 DEF Typed
  <2>2. Len(sch.obj[q].tok) \in Nat
    BY <2>1 DEF ObjOK
  <2>3. sch.obj[q].prompt >= Len(Prompt[q]) /\ out[q] \in Seq(Tokens)
    BY DEF DriverInv, Answering
  <2>4. Len(Prompt[q]) \in Nat
    BY PromptIn
  <2> QED BY <1>2, <2>1, <2>2, <2>3, <2>4 DEF ObjOK, Fates
<1>6. DOMAIN mirror \subseteq Reqs
  <2>1. PICK v : View(v)
    BY DEF MirrorInv
  <2>2. Len(wire) \in Nat
    BY SeqFacts DEF DriverInv, Piped
  <2>3. IsStore(v[0]) /\ v[0] = mirror
    BY <2>1, <2>2 DEF View
  <2> QED BY <2>3 DEF IsStore
<1>7. known \subseteq Reqs /\ lastLen \in [Reqs -> Nat]
  BY DEF MirrorInv, Begun
<1> QED BY <1>2, <1>3, <1>4, <1>5, <1>6, <1>7 DEF TypeOK, DriverInv

\* A page is free exactly when no live request has it, its count is the number of those
\* that do, and every live request is in one place: for every load, pipe depth and pool,
\* through chunks, preemptions, finishes and aborts.
THEOREM EngineIsExact == ASSUME LongPrompts PROVE Spec => []EngineExact
<1>1. DriverInv /\ MirrorInv /\ PagesInv /\ InOnePlace => EngineExact
  BY AccountsExact, WorkerTyped DEF EngineExact
<1> QED BY <1>1, MirrorInvariance, PagesInvariance, RequestsAreInOnePlace, PTL

\* What a request is conditioned on is its own: its tokens, the prefix its cached pages
\* are found under, and no KV slot of its own pages before it is written.
THEOREM ContextsAreOwn == ASSUME LongPrompts PROVE Spec => []ContextIsOwn
<1>1. DriverInv /\ PagesInv /\ InOnePlace /\ StreamIsOutput => ContextIsOwn
  BY CachedExact DEF ContextIsOwn
<1> QED BY <1>1, PagesInvariance, RequestsAreInOnePlace, StreamsAreOutput, PTL
==============================================================================
