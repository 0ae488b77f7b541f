------------------------- MODULE ChildSession_proofs -------------------------
(***************************************************************************)
(* Proofs about ChildSession for any number of reports, sessions, closed   *)
(* connections and crashes: its type invariant, that reports are handled   *)
(* in the order in which they were made, that an authenticated child lost  *)
(* none, that no session of a closed agent is open, and that the           *)
(* controller has seen the end of every turn of a child at rest.           *)
(***************************************************************************)
EXTENDS ChildSession, SequenceTheorems, TLAPS

USE ActionsAssumption, BoundsAssumption

Ascending(s) == \A i, j \in DOMAIN s : i < j => s[i] <= s[j]

Elements(s) == {s[i] : i \in DOMAIN s}

Before(S, T) == \A x \in S, y \in T : x <= y

\* The numbers of the reports in the executor's chain and in the child's queue.
ChainOf(w) == [i \in DOMAIN w |-> w[i].report.n]

Numbers(q) == [i \in DOMAIN q |-> q[i].n]

\* What is handled, in the chain, in the request under way and in the queue is
\* one line: all that is handled was made before all that is in the chain, and
\* so on, up to the last report made.
LineAt(handled, chain, calling, queue, last) ==
  /\ Ascending(handled) /\ Ascending(chain) /\ Ascending(queue)
  /\ Before(Elements(handled), Elements(chain))
  /\ Before(Elements(handled) \cup Elements(chain), calling)
  /\ Before(Elements(handled) \cup Elements(chain) \cup calling,
            Elements(queue))
  /\ Before(Elements(handled) \cup Elements(chain) \cup calling
            \cup Elements(queue), {last})

Calling == IF call.for = "none" THEN {} ELSE {call.report.n}

Line == LineAt(log, ChainOf(work), Calling, Numbers(outbox), made)

\* Only the last request can still be answered: it is the one under way.  Of a
\* request that has begun the message is handled.
RequestAt(i) ==
  /\ work[i].live =>
       /\ i = Len(work) /\ link
       /\ call.step = "taken" /\ work[i].report = call.report
  /\ work[i].outcome # "none" => work[i].report.n \in Elements(log)

Requests == \A i \in DOMAIN work : RequestAt(i)

\* The session is authenticated between its start and its last message.
Phases ==
  /\ call.for = "none" <=> call.step = "none"
  /\ call.for = "none" => call = NoCall
  /\ call.for = "open" <=> session = "opening"
  /\ call.for = "open" => made = base + 1 /\ call.report.n = base + 1
  /\ call.for = "last" => ~authenticated /\ session = "shutting"
  /\ session \in {"none", "opening", "ended"} => ~authenticated
  /\ session \in {"none", "ended"} => ~link /\ call = NoCall
  /\ turn = "running" => session \in {"open", "closing"}
  /\ link => connected

\* Every report of an authenticated session is somewhere.
Accounted ==
  authenticated =>
    \A n \in (base + 1)..made :
      n \in Elements(Numbers(outbox)) \/ n = call.report.n \/ n \in Elements(log)

SessionInv == TypeOK /\ Line /\ Requests /\ Phases /\ Accounted
-----------------------------------------------------------------------------
(* Sequences.                                                              *)

LEMMA AppendAscending ==
  ASSUME NEW s \in Seq(Nat), NEW n \in Nat, Ascending(s),
         \A x \in Elements(s) : x <= n
  PROVE  /\ Append(s, n) \in Seq(Nat)
         /\ Ascending(Append(s, n))
         /\ Elements(Append(s, n)) = Elements(s) \cup {n}
<1>1. /\ Len(Append(s, n)) = Len(s) + 1
      /\ \A i \in 1..Len(s) : Append(s, n)[i] = s[i]
      /\ Append(s, n)[Len(s) + 1] = n
      /\ DOMAIN Append(s, n) = 1..(Len(s) + 1) /\ DOMAIN s = 1..Len(s)
      /\ Len(s) \in Nat
  OBVIOUS
<1>2. Ascending(Append(s, n))
  BY <1>1 DEF Ascending, Elements
<1>3. Elements(Append(s, n)) = Elements(s) \cup {n}
  BY <1>1 DEF Elements
<1> QED BY <1>2, <1>3

LEMMA TailAscending ==
  ASSUME NEW s \in Seq(Nat), s # <<>>, Ascending(s)
  PROVE  /\ Tail(s) \in Seq(Nat) /\ Head(s) \in Nat
         /\ Ascending(Tail(s))
         /\ Elements(s) = Elements(Tail(s)) \cup {Head(s)}
         /\ \A x \in Elements(Tail(s)) : Head(s) <= x
<1>1. /\ Len(Tail(s)) = Len(s) - 1
      /\ \A i \in 1..(Len(s) - 1) : Tail(s)[i] = s[i + 1]
      /\ Head(s) = s[1]
      /\ DOMAIN Tail(s) = 1..(Len(s) - 1) /\ DOMAIN s = 1..Len(s)
      /\ Len(s) \in Nat \ {0}
  OBVIOUS
<1>2. Ascending(Tail(s))
  BY <1>1 DEF Ascending
<1>3. \A i \in 1..Len(s) : i = 1 \/ i - 1 \in 1..(Len(s) - 1)
  BY <1>1
<1>4. Elements(s) = Elements(Tail(s)) \cup {Head(s)}
  <2>1. ASSUME NEW x \in Elements(s) PROVE x \in Elements(Tail(s)) \cup {Head(s)}
    <3>1. PICK i \in 1..Len(s) : x = s[i]
      BY <1>1, <2>1 DEF Elements
    <3>2. CASE i = 1
      BY <3>1, <3>2, <1>1
    <3>3. CASE i # 1
      <4>1. i - 1 \in 1..(Len(s) - 1) /\ Tail(s)[i - 1] = s[i]
        BY <3>3, <1>1, <1>3
      <4> QED BY <4>1, <3>1, <1>1 DEF Elements
    <3> QED BY <3>2, <3>3
  <2>2. ASSUME NEW x \in Elements(Tail(s)) \cup {Head(s)} PROVE x \in Elements(s)
    BY <1>1, <2>2 DEF Elements
  <2> QED BY <2>1, <2>2
<1>5. \A x \in Elements(Tail(s)) : Head(s) <= x
  BY <1>1 DEF Elements, Ascending
<1> QED BY <1>1, <1>2, <1>4, <1>5

LEMMA NumbersOf ==
  ASSUME NEW q \in Seq(Report)
  PROVE  /\ Numbers(q) \in Seq(Nat) /\ Len(Numbers(q)) = Len(q)
         /\ Len(q) \in Nat /\ DOMAIN q = 1..Len(q)
<1>1. DOMAIN q = 1..Len(q) /\ Len(q) \in Nat
  OBVIOUS
<1>2. \A i \in 1..Len(q) : q[i].n \in Nat
  <2>1. \A i \in 1..Len(q) : q[i] \in Report
    BY <1>1
  <2> QED BY <2>1 DEF Report
<1>3. Numbers(q) = [i \in 1..Len(q) |-> q[i].n]
  BY <1>1 DEF Numbers
<1>4. Numbers(q) \in [1..Len(q) -> Nat]
  BY <1>2, <1>3
<1>5. Numbers(q) \in Seq(Nat)
  BY <1>1, <1>4, SeqDef
<1> QED BY <1>1, <1>3, <1>5

LEMMA NumbersAppend ==
  ASSUME NEW q \in Seq(Report), NEW r \in Report
  PROVE  /\ Append(q, r) \in Seq(Report)
         /\ Numbers(q) \in Seq(Nat)
         /\ Numbers(Append(q, r)) = Append(Numbers(q), r.n)
<1>1. /\ Numbers(q) \in Seq(Nat) /\ Len(Numbers(q)) = Len(q)
      /\ DOMAIN q = 1..Len(q) /\ Len(q) \in Nat
  BY NumbersOf
<1>2. /\ DOMAIN Append(q, r) = 1..(Len(q) + 1)
      /\ \A i \in 1..Len(q) : Append(q, r)[i] = q[i]
      /\ Append(q, r)[Len(q) + 1] = r
  BY <1>1
<1>3. /\ DOMAIN Append(Numbers(q), r.n) = 1..(Len(q) + 1)
      /\ \A i \in 1..Len(q) : Append(Numbers(q), r.n)[i] = Numbers(q)[i]
      /\ Append(Numbers(q), r.n)[Len(q) + 1] = r.n
  BY <1>1 DEF Report
<1>4. Append(Numbers(q), r.n)
        = [i \in 1..(Len(q) + 1) |-> Append(Numbers(q), r.n)[i]]
  BY <1>1, <1>3 DEF Report
<1>5. \A i \in 1..(Len(q) + 1) :
        Append(q, r)[i].n = Append(Numbers(q), r.n)[i]
  BY <1>1, <1>2, <1>3 DEF Numbers
<1> QED BY <1>1, <1>2, <1>4, <1>5 DEF Numbers

LEMMA NumbersTail ==
  ASSUME NEW q \in Seq(Report), q # <<>>
  PROVE  /\ Tail(q) \in Seq(Report) /\ Head(q) \in Report
         /\ Numbers(q) \in Seq(Nat) /\ Numbers(q) # <<>>
         /\ Head(Numbers(q)) = Head(q).n
         /\ Numbers(Tail(q)) = Tail(Numbers(q))
<1>1. /\ Numbers(q) \in Seq(Nat) /\ Len(Numbers(q)) = Len(q)
      /\ DOMAIN q = 1..Len(q) /\ Len(q) \in Nat \ {0}
  BY NumbersOf
<1>2. /\ DOMAIN Tail(q) = 1..(Len(q) - 1)
      /\ \A i \in 1..(Len(q) - 1) : Tail(q)[i] = q[i + 1]
  BY <1>1
<1>3. /\ Len(Tail(Numbers(q))) = Len(q) - 1
      /\ \A i \in 1..(Len(q) - 1) : Tail(Numbers(q))[i] = Numbers(q)[i + 1]
      /\ Head(Numbers(q)) = Numbers(q)[1] /\ Numbers(q) # <<>>
      /\ Tail(Numbers(q)) \in Seq(Nat)
  BY <1>1
<1>4. Tail(q) \in Seq(Report) /\ Len(Tail(q)) = Len(q) - 1
      /\ Head(q) \in Report
  BY <1>1
<1>5. /\ Numbers(Tail(q)) \in Seq(Nat)
      /\ Len(Numbers(Tail(q))) = Len(q) - 1
  BY <1>1, <1>4, NumbersOf
<1>6. \A i \in 1..(Len(q) - 1) : Tail(Numbers(q))[i] = Numbers(Tail(q))[i]
  BY <1>1, <1>2, <1>3 DEF Numbers
<1>7. Numbers(Tail(q)) = Tail(Numbers(q))
  BY <1>3, <1>5, <1>6, SeqEqual
<1> QED BY <1>1, <1>3, <1>4, <1>7 DEF Numbers

LEMMA ChainIsSeq ==
  ASSUME NEW w \in Seq(Request)
  PROVE  /\ ChainOf(w) \in Seq(Nat) /\ Len(ChainOf(w)) = Len(w)
         /\ Len(w) \in Nat /\ DOMAIN w = 1..Len(w)
<1>1. DOMAIN w = 1..Len(w) /\ Len(w) \in Nat
  OBVIOUS
<1>2. \A i \in 1..Len(w) : w[i].report.n \in Nat
  <2>1. \A i \in 1..Len(w) : w[i] \in Request
    BY <1>1
  <2>2. \A i \in 1..Len(w) : w[i].report \in Report
    BY <2>1 DEF Request
  <2> QED BY <2>2 DEF Report
<1>3. ChainOf(w) = [i \in 1..Len(w) |-> w[i].report.n]
  BY <1>1 DEF ChainOf
<1>4. ChainOf(w) \in [1..Len(w) -> Nat]
  BY <1>2, <1>3
<1>5. ChainOf(w) \in Seq(Nat)
  BY <1>1, <1>4, SeqDef
<1> QED BY <1>1, <1>3, <1>5

LEMMA ChainAppend ==
  ASSUME NEW w \in Seq(Request), NEW r \in Request
  PROVE  /\ Append(w, r) \in Seq(Request)
         /\ ChainOf(Append(w, r)) = Append(ChainOf(w), r.report.n)
<1>1. /\ ChainOf(w) \in Seq(Nat) /\ Len(ChainOf(w)) = Len(w)
      /\ DOMAIN w = 1..Len(w) /\ Len(w) \in Nat
  BY ChainIsSeq
<1>2. /\ Append(w, r) \in Seq(Request) /\ Len(Append(w, r)) = Len(w) + 1
      /\ \A i \in 1..Len(w) : Append(w, r)[i] = w[i]
      /\ Append(w, r)[Len(w) + 1] = r
  BY <1>1
<1>3. r.report.n \in Nat
  <2>1. r.report \in Report
    BY DEF Request
  <2> QED BY <2>1 DEF Report
<1>4. /\ Append(ChainOf(w), r.report.n) \in Seq(Nat)
      /\ Len(Append(ChainOf(w), r.report.n)) = Len(w) + 1
      /\ \A i \in 1..Len(w) :
           Append(ChainOf(w), r.report.n)[i] = ChainOf(w)[i]
      /\ Append(ChainOf(w), r.report.n)[Len(w) + 1] = r.report.n
  BY <1>1, <1>3
<1>5. /\ ChainOf(Append(w, r)) \in Seq(Nat)
      /\ Len(ChainOf(Append(w, r))) = Len(w) + 1
      /\ DOMAIN Append(w, r) = 1..(Len(w) + 1)
  BY <1>2, ChainIsSeq
<1>6. \A i \in 1..(Len(w) + 1) :
        ChainOf(Append(w, r))[i] = Append(ChainOf(w), r.report.n)[i]
  BY <1>1, <1>2, <1>4, <1>5 DEF ChainOf
<1>7. ChainOf(Append(w, r)) = Append(ChainOf(w), r.report.n)
  BY <1>4, <1>5, <1>6, SeqEqual
<1> QED BY <1>2, <1>7

LEMMA ChainTail ==
  ASSUME NEW w \in Seq(Request), w # <<>>
  PROVE  /\ Tail(w) \in Seq(Request) /\ Head(w) = w[1] /\ w[1] \in Request
         /\ ChainOf(w) # <<>> /\ Head(ChainOf(w)) = w[1].report.n
         /\ ChainOf(Tail(w)) = Tail(ChainOf(w))
<1>1. /\ ChainOf(w) \in Seq(Nat) /\ Len(ChainOf(w)) = Len(w)
      /\ DOMAIN w = 1..Len(w) /\ Len(w) \in Nat \ {0}
  BY ChainIsSeq
<1>2. /\ Tail(w) \in Seq(Request) /\ Len(Tail(w)) = Len(w) - 1
      /\ \A i \in 1..(Len(w) - 1) : Tail(w)[i] = w[i + 1]
      /\ Head(w) = w[1] /\ w[1] \in Request
  BY <1>1
<1>3. /\ Tail(ChainOf(w)) \in Seq(Nat) /\ Len(Tail(ChainOf(w))) = Len(w) - 1
      /\ \A i \in 1..(Len(w) - 1) : Tail(ChainOf(w))[i] = ChainOf(w)[i + 1]
      /\ Head(ChainOf(w)) = ChainOf(w)[1] /\ ChainOf(w) # <<>>
  BY <1>1
<1>4. /\ ChainOf(Tail(w)) \in Seq(Nat) /\ Len(ChainOf(Tail(w))) = Len(w) - 1
      /\ DOMAIN Tail(w) = 1..(Len(w) - 1)
  BY <1>1, <1>2, ChainIsSeq
<1>5. \A i \in 1..(Len(w) - 1) : Tail(ChainOf(w))[i] = ChainOf(Tail(w))[i]
  BY <1>1, <1>2, <1>3, <1>4 DEF ChainOf
<1>6. ChainOf(Tail(w)) = Tail(ChainOf(w))
  BY <1>3, <1>4, <1>5, SeqEqual
<1> QED BY <1>1, <1>2, <1>3, <1>6 DEF ChainOf

\* Closing a connection changes no report, and leaves no request to answer.
LEMMA CutRequests ==
  ASSUME NEW w \in Seq(Request)
  PROVE  /\ Cut(w) \in Seq(Request) /\ Len(Cut(w)) = Len(w)
         /\ DOMAIN Cut(w) = DOMAIN w
         /\ \A i \in DOMAIN w :
              /\ Cut(w)[i].live = FALSE
              /\ Cut(w)[i].report = w[i].report
              /\ Cut(w)[i].outcome = w[i].outcome
         /\ ChainOf(Cut(w)) = ChainOf(w)
<1>1. DOMAIN w = 1..Len(w) /\ Len(w) \in Nat
  OBVIOUS
<1>2. \A i \in 1..Len(w) : w[i] \in Request
  BY <1>1
<1>3. \A i \in 1..Len(w) :
        /\ [w[i] EXCEPT !.live = FALSE] \in Request
        /\ [w[i] EXCEPT !.live = FALSE].live = FALSE
        /\ [w[i] EXCEPT !.live = FALSE].report = w[i].report
        /\ [w[i] EXCEPT !.live = FALSE].outcome = w[i].outcome
  BY <1>2 DEF Request
<1>4. Cut(w) = [i \in 1..Len(w) |-> [w[i] EXCEPT !.live = FALSE]]
  BY <1>1 DEF Cut
<1>5. Cut(w) \in [1..Len(w) -> Request]
  BY <1>3, <1>4
<1>6. Cut(w) \in Seq(Request) /\ Len(Cut(w)) = Len(w)
  BY <1>1, <1>5, SeqDef
<1>7. \A i \in 1..Len(w) : Cut(w)[i] = [w[i] EXCEPT !.live = FALSE]
  BY <1>4
<1>8. ChainOf(Cut(w)) = ChainOf(w)
  BY <1>1, <1>3, <1>4, <1>7 DEF ChainOf
<1> QED BY <1>1, <1>3, <1>4, <1>6, <1>7, <1>8

Decided(w, o) == [w EXCEPT ![1].outcome = o]

LEMMA OutcomeRequests ==
  ASSUME NEW w \in Seq(Request), w # <<>>,
         NEW o \in {"none", "accepted", "refused", "failed"}
  PROVE  /\ Decided(w, o) \in Seq(Request)
         /\ Len(Decided(w, o)) = Len(w) /\ DOMAIN Decided(w, o) = DOMAIN w
         /\ \A i \in DOMAIN w :
              /\ Decided(w, o)[i].live = w[i].live
              /\ Decided(w, o)[i].report = w[i].report
              /\ i # 1 => Decided(w, o)[i].outcome = w[i].outcome
         /\ ChainOf(Decided(w, o)) = ChainOf(w)
<1> DEFINE e == [w[1] EXCEPT !.outcome = o]
           v == Decided(w, o)
<1>1. DOMAIN w = 1..Len(w) /\ Len(w) \in Nat \ {0} /\ 1 \in 1..Len(w)
  OBVIOUS
<1>2. w[1] \in Request
  BY <1>1
<1>3. /\ e \in Request /\ e.live = w[1].live /\ e.report = w[1].report
      /\ v = [w EXCEPT ![1] = e]
  BY <1>2 DEF Request, Decided
<1> HIDE DEF e, v
<1>4. /\ v \in Seq(Request) /\ Len(v) = Len(w)
      /\ \A i \in 1..Len(w) : v[i] = IF i = 1 THEN e ELSE w[i]
  BY <1>1, <1>3, ExceptSeq
<1>5. DOMAIN v = 1..Len(w)
  BY <1>1, <1>4
<1>6. ChainOf(v) = ChainOf(w)
  BY <1>1, <1>3, <1>4, <1>5 DEF ChainOf
<1> QED BY <1>1, <1>3, <1>4, <1>5, <1>6 DEF v

-----------------------------------------------------------------------------
(* How a report moves along the line.                                      *)

Lines(h, c, k, q, m) ==
  /\ h \in Seq(Nat) /\ c \in Seq(Nat) /\ q \in Seq(Nat)
  /\ k \subseteq Nat /\ m \in Nat
  /\ LineAt(h, c, k, q, m)

LEMMA ElementsNat ==
  ASSUME NEW s \in Seq(Nat)
  PROVE  Elements(s) \subseteq Nat
  BY DEF Elements

LEMMA NothingWaits ==
  /\ <<>> \in Seq(Nat) /\ Ascending(<<>>) /\ Elements(<<>>) = {}
  BY DEF Ascending, Elements

LEMMA LineMade ==
  ASSUME NEW h, NEW c, NEW k, NEW q, NEW m, Lines(h, c, k, q, m)
  PROVE  Lines(h, c, k, Append(q, m + 1), m + 1)
<1>1. /\ m + 1 \in Nat /\ \A x \in Elements(q) : x <= m + 1
      /\ Elements(h) \subseteq Nat /\ Elements(c) \subseteq Nat
      /\ Elements(q) \subseteq Nat
  BY ElementsNat DEF Lines, LineAt, Before
<1>2. /\ Append(q, m + 1) \in Seq(Nat) /\ Ascending(Append(q, m + 1))
      /\ Elements(Append(q, m + 1)) = Elements(q) \cup {m + 1}
  BY <1>1, AppendAscending DEF Lines, LineAt
<1>3. \A x \in Elements(h) \cup Elements(c) \cup k \cup Elements(q) :
        x <= m + 1
  <2>1. \A x \in Elements(h) \cup Elements(c) \cup k \cup Elements(q) : x <= m
    BY DEF Lines, LineAt, Before
  <2>2. /\ Elements(h) \cup Elements(c) \cup k \cup Elements(q) \subseteq Nat
        /\ m \in Nat
    BY <1>1 DEF Lines
  <2>3. \A x \in Nat : x <= m => x <= m + 1
    BY <2>2
  <2> QED BY <2>1, <2>2, <2>3
<1>4. Before(Elements(h) \cup Elements(c) \cup k, Elements(Append(q, m + 1)))
  BY <1>2, <1>3 DEF Lines, LineAt, Before
<1>5. Before(Elements(h) \cup Elements(c) \cup k
               \cup Elements(Append(q, m + 1)), {m + 1})
  BY <1>1, <1>2, <1>3 DEF Before
<1> QED BY <1>1, <1>2, <1>4, <1>5 DEF Lines, LineAt

LEMMA LineOpened ==
  ASSUME NEW h, NEW c, NEW k, NEW q, NEW m, Lines(h, c, k, q, m)
  PROVE  Lines(h, c, {m + 1}, <<>>, m + 1)
<1>1. /\ m + 1 \in Nat /\ Elements(h) \subseteq Nat /\ Elements(c) \subseteq Nat
  BY ElementsNat DEF Lines
<1> QED BY <1>1, NothingWaits DEF Lines, LineAt, Before

\* Whatever is given up leaves the line in order.
LEMMA LineShorter ==
  ASSUME NEW h, NEW c, NEW k, NEW q, NEW m, Lines(h, c, k, q, m)
  PROVE  /\ Lines(h, c, {}, q, m)
         /\ Lines(h, c, {}, <<>>, m)
         /\ Lines(h, <<>>, k, q, m)
         /\ c # <<>> => Lines(h, Tail(c), k, q, m)
         /\ q # <<>> => Lines(h, c, k, Tail(q), m)
<1>1. /\ Lines(h, c, {}, q, m)
      /\ Lines(h, c, {}, <<>>, m)
      /\ Lines(h, <<>>, k, q, m)
  BY NothingWaits DEF Lines, LineAt, Before
<1>2. ASSUME c # <<>> PROVE Lines(h, Tail(c), k, q, m)
  <2>1. /\ Tail(c) \in Seq(Nat) /\ Ascending(Tail(c))
        /\ Elements(Tail(c)) \subseteq Elements(c)
    BY <1>2, TailAscending DEF Lines, LineAt
  <2> QED BY <2>1 DEF Lines, LineAt, Before
<1>3. ASSUME q # <<>> PROVE Lines(h, c, k, Tail(q), m)
  <2>1. /\ Tail(q) \in Seq(Nat) /\ Ascending(Tail(q))
        /\ Elements(Tail(q)) \subseteq Elements(q)
    BY <1>3, TailAscending DEF Lines, LineAt
  <2> QED BY <2>1 DEF Lines, LineAt, Before
<1> QED BY <1>1, <1>2, <1>3

LEMMA LineSent ==
  ASSUME NEW h, NEW c, NEW q, NEW m, Lines(h, c, {}, q, m), q # <<>>
  PROVE  Lines(h, c, {Head(q)}, Tail(q), m)
<1>1. /\ Tail(q) \in Seq(Nat) /\ Head(q) \in Nat /\ Ascending(Tail(q))
      /\ Elements(q) = Elements(Tail(q)) \cup {Head(q)}
      /\ \A x \in Elements(Tail(q)) : Head(q) <= x
  BY TailAscending DEF Lines, LineAt
<1> QED BY <1>1 DEF Lines, LineAt, Before

LEMMA LineTaken ==
  ASSUME NEW h, NEW c, NEW n \in Nat, NEW q, NEW m, Lines(h, c, {n}, q, m)
  PROVE  Lines(h, Append(c, n), {n}, q, m)
<1>1. \A x \in Elements(c) : x <= n
  BY DEF Lines, LineAt, Before
<1>2. /\ Append(c, n) \in Seq(Nat) /\ Ascending(Append(c, n))
      /\ Elements(Append(c, n)) = Elements(c) \cup {n}
  BY <1>1, AppendAscending DEF Lines, LineAt
<1> QED BY <1>2 DEF Lines, LineAt, Before

LEMMA LineHandled ==
  ASSUME NEW h, NEW c, NEW k, NEW q, NEW m, Lines(h, c, k, q, m), c # <<>>
  PROVE  /\ Lines(Append(h, Head(c)), c, k, q, m)
         /\ Elements(Append(h, Head(c))) = Elements(h) \cup {Head(c)}
<1>1. /\ Head(c) \in Nat
      /\ Elements(c) = Elements(Tail(c)) \cup {Head(c)}
      /\ \A x \in Elements(Tail(c)) : Head(c) <= x
  BY TailAscending DEF Lines, LineAt
<1>2. \A x \in Elements(h) : x <= Head(c)
  BY <1>1 DEF Lines, LineAt, Before
<1>3. /\ Append(h, Head(c)) \in Seq(Nat) /\ Ascending(Append(h, Head(c)))
      /\ Elements(Append(h, Head(c))) = Elements(h) \cup {Head(c)}
  BY <1>1, <1>2, AppendAscending DEF Lines, LineAt
<1>4. \A x \in Elements(c) : Head(c) <= x
  BY <1>1
<1> QED BY <1>1, <1>3, <1>4 DEF Lines, LineAt, Before

-----------------------------------------------------------------------------
(* What the parts of a step do.                                            *)

LEMMA CallFacts ==
  ASSUME TypeOK
  PROVE  /\ call.report \in Report /\ call.report.n \in Nat
         /\ call.for \in Purpose /\ call.step \in CallStep
         /\ Calling \subseteq Nat
<1>1. /\ call.report \in Report
      /\ call.for \in Purpose /\ call.step \in CallStep
  BY DEF TypeOK, Call
<1>2. call.report.n \in Nat
  BY <1>1 DEF Report
<1> QED BY <1>1, <1>2 DEF Calling

LEMMA NoCallFacts ==
  NoCall \in Call /\ NoCall.for = "none" /\ NoCall.step = "none"
    /\ NoCall.report.n = 0
<1>1. NoCall.report \in Report
  BY DEF NoCall, Report, ReportType
<1> QED BY <1>1 DEF NoCall, Call, Purpose, CallStep

LEMMA LineNow ==
  ASSUME TypeOK, Line
  PROVE  Lines(log, ChainOf(work), Calling, Numbers(outbox), made)
<1>1. ChainOf(work) \in Seq(Nat) /\ Numbers(outbox) \in Seq(Nat)
  BY ChainIsSeq, NumbersOf DEF TypeOK
<1> QED BY <1>1, CallFacts DEF TypeOK, Line, Lines

LEMMA NewReportIs ==
  ASSUME made \in Nat, NEW type \in ReportType,
         NEW by \in {"hook", "tool", "settle"}
  PROVE  NewReport(type, by) \in Report /\ NewReport(type, by).n = made + 1
  BY DEF NewReport, Report

LEMMA JoinQueue ==
  ASSUME made \in Nat, NEW type \in ReportType,
         NEW by \in {"hook", "tool", "settle"}, NEW q \in Seq(Report),
         NEW h, NEW c, NEW k, Lines(h, c, k, Numbers(q), made)
  PROVE  LET r == Append(q, NewReport(type, by)) IN
         /\ r \in Seq(Report)
         /\ Lines(h, c, k, Numbers(r), made + 1)
         /\ Elements(Numbers(r)) = Elements(Numbers(q)) \cup {made + 1}
<1> DEFINE new == NewReport(type, by)
<1>1. new \in Report /\ new.n = made + 1
  BY NewReportIs
<1> HIDE DEF new
<1>2. /\ Append(q, new) \in Seq(Report) /\ Numbers(q) \in Seq(Nat)
      /\ Numbers(Append(q, new)) = Append(Numbers(q), made + 1)
  BY <1>1, NumbersAppend
<1>3. Lines(h, c, k, Append(Numbers(q), made + 1), made + 1)
  BY LineMade
<1>4. Elements(Append(Numbers(q), made + 1))
        = Elements(Numbers(q)) \cup {made + 1}
  <2>1. \A x \in Elements(Numbers(q)) : x <= made
    BY DEF Lines, LineAt, Before
  <2>2. \A x \in Elements(Numbers(q)) : x <= made + 1
    BY <2>1, <1>2, ElementsNat
  <2>3. Ascending(Numbers(q))
    BY DEF Lines, LineAt
  <2> QED BY <1>2, <2>2, <2>3, AppendAscending
<1> QED BY <1>2, <1>3, <1>4 DEF new

\* What the end of a report, and the start of one, do to the queue.
Joined(q, h, c, k) ==
  /\ outbox' \in Seq(Report) /\ made' \in Nat
  /\ Lines(h, c, k, Numbers(outbox'), made')
  /\ Elements(Numbers(q)) \subseteq Elements(Numbers(outbox'))
  /\ made' = made \/ (made' = made + 1
                      /\ made + 1 \in Elements(Numbers(outbox')))

LEMMA ResolvedStep ==
  ASSUME TypeOK, NEW report \in Report, NEW result, NEW rest \in Seq(Report),
         NEW h, NEW c, NEW k, Lines(h, c, k, Numbers(rest), made),
         Resolved(report, result, rest)
  PROVE  /\ Joined(rest, h, c, k)
         /\ failure' \in BOOLEAN /\ terminal' \in BOOLEAN
         /\ session' = session \/ (session = "open" /\ session' = "closing")
<1>1. "heartbeat" \in ReportType /\ made \in Nat
  BY DEF ReportType, TypeOK
<1>2. Joined(rest, h, c, k)
  <2>1. CASE outbox' = Append(rest, NewReport("heartbeat", "hook"))
             /\ made' = made + 1
    BY <1>1, <2>1, JoinQueue DEF Joined
  <2>2. CASE outbox' = rest /\ made' = made
    BY <1>1, <2>2 DEF Joined
  <2> QED BY <2>1, <2>2 DEF Resolved
<1>3. failure' \in BOOLEAN
  BY DEF Resolved, TypeOK
<1>4. terminal' \in BOOLEAN
  BY DEF Resolved, TypeOK
<1>5. session' = session \/ (session = "open" /\ session' = "closing")
  BY DEF Resolved
<1> QED BY <1>2, <1>3, <1>4, <1>5

LEMMA ReportsStep ==
  ASSUME TypeOK, NEW type \in ReportType, NEW by \in {"hook", "tool", "settle"},
         NEW h, NEW c, NEW k, Lines(h, c, k, Numbers(outbox), made),
         Reports(type, by)
  PROVE  Joined(outbox, h, c, k)
<1>1. made \in Nat /\ outbox \in Seq(Report)
  BY DEF TypeOK
<1>2. outbox' = Append(outbox, NewReport(type, by)) /\ made' = made + 1
  BY DEF Reports
<1> QED BY <1>1, <1>2, JoinQueue DEF Joined

\* An authenticated session's reports stay accounted for when the queue only
\* grows and nothing that was handled or sent is forgotten.
LEMMA AccountedStays ==
  ASSUME TypeOK, Accounted, authenticated' => authenticated, base' = base,
         Elements(Numbers(outbox)) \subseteq
           Elements(Numbers(outbox')) \cup Elements(log') \cup {call'.report.n},
         call.report.n \in {call'.report.n} \cup Elements(log') \cup {0},
         Elements(log) \subseteq Elements(log'),
         made' = made \/ (made' = made + 1
                          /\ made + 1 \in Elements(Numbers(outbox')))
  PROVE  Accounted'
<1>1. made \in Nat /\ base \in Nat
  BY DEF TypeOK
<1> SUFFICES ASSUME authenticated', NEW n \in (base' + 1)..made'
             PROVE  \/ n \in Elements(Numbers(outbox')) \/ n = call'.report.n
                    \/ n \in Elements(log')
  BY DEF Accounted
<1>2. CASE n = made + 1
  <2>1. made' = made + 1
    BY <1>1, <1>2
  <2> QED BY <1>1, <1>2, <2>1
<1>3. CASE n # made + 1
  <2>1. n \in (base + 1)..made /\ n # 0
    BY <1>1, <1>3
  <2>2. n \in Elements(Numbers(outbox)) \/ n = call.report.n \/ n \in Elements(log)
    BY <2>1 DEF Accounted
  <2> QED BY <2>1, <2>2
<1> QED BY <1>2, <1>3

-----------------------------------------------------------------------------
(* The steps of the bridge.                                                *)

BridgeTypes ==
  /\ session \in Session /\ turn \in {"idle", "running"}
  /\ authenticated \in BOOLEAN /\ connected \in BOOLEAN /\ link \in BOOLEAN
  /\ failure \in BOOLEAN /\ terminal \in BOOLEAN
  /\ outbox \in Seq(Report) /\ call \in Call
  /\ made \in Nat /\ base \in Nat

ServedTypes ==
  /\ sessions \in Nat /\ drops \in Nat /\ crashes \in Nat
  /\ up \in BOOLEAN /\ work \in Seq(Request)
  /\ status \in AgentStatus /\ submitted \in BOOLEAN
  /\ log \in Seq(Nat) /\ unrecorded \in BOOLEAN

\* What a step of the bridge keeps when the chain is left as c.
BridgeKeeps(c) ==
  /\ BridgeTypes' /\ Phases' /\ Accounted'
  /\ Lines(log', c, Calling', Numbers(outbox'), made')

LEMMA TypesApart == TypeOK <=> BridgeTypes /\ ServedTypes
  BY DEF TypeOK, BridgeTypes, ServedTypes

LEMMA Together ==
  ASSUME ServedTypes', BridgeKeeps(ChainOf(work')), Requests'
  PROVE  SessionInv'
<1>1. TypeOK'
  BY DEF TypeOK, BridgeTypes, ServedTypes, BridgeKeeps
<1>2. Line'
  BY DEF BridgeKeeps, Lines, Line
<1> QED BY <1>1, <1>2 DEF SessionInv, BridgeKeeps

LEMMA OpenFailsKeeps ==
  ASSUME TypeOK, Phases, call.for = "open", log' = log,
         NEW c, Lines(log, c, Calling, Numbers(outbox), made), OpenFails
  PROVE  BridgeKeeps(c)
<1>1. BridgeTypes'
  BY NoCallFacts DEF OpenFails, TypeOK, BridgeTypes, Session
<1>2. Phases'
  BY NoCallFacts DEF OpenFails, Phases
<1>3. Accounted'
  BY DEF OpenFails, Phases, Accounted
<1>4. Lines(log', c, Calling', Numbers(outbox'), made')
  BY NoCallFacts, LineShorter DEF OpenFails, Calling
<1> QED BY <1>1, <1>2, <1>3, <1>4 DEF BridgeKeeps

LEMMA ShutDownKeeps ==
  ASSUME TypeOK, Phases, call.for = "last", log' = log,
         NEW c, Lines(log, c, Calling, Numbers(outbox), made), ShutDown
  PROVE  BridgeKeeps(c)
<1>1. BridgeTypes'
  BY NoCallFacts DEF ShutDown, TypeOK, BridgeTypes, Session
<1>2. Phases'
  <2>1. turn = "idle" /\ ~authenticated
    BY DEF Phases, TypeOK
  <2> QED BY <2>1, NoCallFacts DEF ShutDown, Phases
<1>3. Accounted'
  BY DEF ShutDown, Phases, Accounted
<1>4. Lines(log', c, Calling', Numbers(outbox'), made')
  BY NoCallFacts, LineShorter DEF ShutDown, Calling
<1> QED BY <1>1, <1>2, <1>3, <1>4 DEF BridgeKeeps

LEMMA LockedOutKeeps ==
  ASSUME TypeOK, Phases, call.for = "retry", log' = log,
         NEW c, Lines(log, c, Calling, Numbers(outbox), made), LockedOut
  PROVE  BridgeKeeps(c)
<1>1. Lines(log, c, {}, Numbers(outbox), made)
  BY LineShorter
<1>2. /\ Joined(outbox, log, c, {})
      /\ failure' \in BOOLEAN /\ terminal' \in BOOLEAN
      /\ session' = session \/ (session = "open" /\ session' = "closing")
  <2>1. Resolved(call.report, "failed", outbox)
    BY DEF LockedOut
  <2>2. call.report \in Report /\ outbox \in Seq(Report)
    BY CallFacts DEF TypeOK
  <2> QED BY <1>1, <2>1, <2>2, ResolvedStep
<1>3. BridgeTypes'
  BY <1>2, NoCallFacts DEF LockedOut, TypeOK, BridgeTypes, Session, Joined
<1>4. Phases'
  <2>1. /\ session \notin {"none", "opening", "ended"}
        /\ session' \notin {"none", "opening", "ended"}
    BY <1>2, NoCallFacts DEF Phases
  <2> QED BY <1>2, <2>1, NoCallFacts DEF LockedOut, Phases
<1>5. Accounted'
  BY DEF LockedOut, Accounted
<1>6. Lines(log', c, Calling', Numbers(outbox'), made')
  BY <1>2, NoCallFacts DEF LockedOut, Calling, Joined
<1> QED BY <1>3, <1>4, <1>5, <1>6 DEF BridgeKeeps

\* The report of the request under way is given up or delivered; delivered
\* means handled.
LEMMA RetiredKeeps ==
  ASSUME TypeOK, Phases, Accounted, call.for \in {"first", "retry"}, log' = log,
         call.report.n \in Elements(log),
         NEW c, Lines(log, c, Calling, Numbers(outbox), made),
         NEW result, Resolved(call.report, result, outbox), call' = NoCall,
         UNCHANGED <<authenticated, connected, link, turn, base>>
  PROVE  BridgeKeeps(c)
<1>1. Lines(log, c, {}, Numbers(outbox), made)
  BY LineShorter
<1>2. /\ Joined(outbox, log, c, {})
      /\ failure' \in BOOLEAN /\ terminal' \in BOOLEAN
      /\ session' = session \/ (session = "open" /\ session' = "closing")
  <2>1. call.report \in Report /\ outbox \in Seq(Report)
    BY CallFacts DEF TypeOK
  <2> QED BY <1>1, <2>1, ResolvedStep
<1>3. BridgeTypes'
  BY <1>2, NoCallFacts DEF TypeOK, BridgeTypes, Session, Joined
<1>4. Phases'
  <2>1. /\ session \notin {"none", "opening", "ended"}
        /\ session' \notin {"none", "opening", "ended"}
    BY <1>2, NoCallFacts DEF Phases
  <2> QED BY <1>2, <2>1, NoCallFacts DEF Phases
<1>5. Accounted'
  BY <1>2, AccountedStays DEF Joined
<1>6. Lines(log', c, Calling', Numbers(outbox'), made')
  BY <1>2, NoCallFacts DEF Calling, Joined
<1> QED BY <1>3, <1>4, <1>5, <1>6 DEF BridgeKeeps

LEMMA AnsweredKeeps ==
  ASSUME TypeOK, Phases, Accounted, call.for # "none", log' = log,
         call.report.n \in Elements(log),
         NEW c, Lines(log, c, Calling, Numbers(outbox), made),
         NEW result \in {"recorded", "refused"}, Answered(result)
  PROVE  BridgeKeeps(c)
<1>1. CASE call.for = "open" /\ result = "recorded"
  <2>1. /\ session' = "open" /\ authenticated' = TRUE
        /\ call' = NoCall
        /\ UNCHANGED <<connected, link, turn, failure, terminal, outbox, made,
                       base>>
    BY <1>1 DEF Answered
  <2>2. /\ session = "opening" /\ turn = "idle"
        /\ made = base + 1 /\ call.report.n = base + 1
        /\ made \in Nat /\ base \in Nat
    BY <1>1 DEF Phases, TypeOK
  <2>3. BridgeTypes'
    BY <2>1, NoCallFacts DEF TypeOK, BridgeTypes, Session
  <2>4. Phases'
    BY <2>1, <2>2, NoCallFacts DEF Phases
  <2>5. Accounted'
    <3>1. \A n \in (base + 1)..made : n = base + 1
      BY <2>2
    <3> QED BY <2>1, <2>2, <3>1 DEF Accounted
  <2>6. Lines(log', c, Calling', Numbers(outbox'), made')
    BY <2>1, NoCallFacts, LineShorter DEF Calling
  <2> QED BY <2>3, <2>4, <2>5, <2>6 DEF BridgeKeeps
<1>2. CASE call.for = "open" /\ result = "refused"
  <2>1. OpenFails
    BY <1>2 DEF Answered
  <2> QED BY <1>2, <2>1, OpenFailsKeeps
<1>3. CASE call.for = "first" \/ (call.for = "retry" /\ result = "recorded")
  <2>1. /\ call' = NoCall
        /\ Resolved(call.report, result, outbox)
        /\ UNCHANGED <<authenticated, connected, link, turn, base>>
    BY <1>3 DEF Answered
  <2> QED BY <1>3, <2>1, RetiredKeeps
<1>4. CASE call.for = "retry" /\ result = "refused"
  <2>1. LockedOut
    BY <1>4 DEF Answered
  <2> QED BY <1>4, <2>1, LockedOutKeeps
<1>5. CASE call.for = "last"
  <2>1. ShutDown
    BY <1>5 DEF Answered
  <2> QED BY <1>5, <2>1, ShutDownKeeps
<1>6. call.for \in {"open", "first", "retry", "last"}
  BY CallFacts DEF Purpose
<1> QED BY <1>1, <1>2, <1>3, <1>4, <1>5, <1>6

-----------------------------------------------------------------------------
(* The steps of the child's session.                                       *)

LEMMA NobodyWaits ==
  ASSUME SessionInv, call.step # "taken" \/ ~link, UNCHANGED <<work, log>>
  PROVE  Requests'
<1>1. \A i \in DOMAIN work : ~work[i].live
  BY DEF SessionInv, Requests, RequestAt
<1>2. \A i \in DOMAIN work :
        work[i].outcome # "none" => work[i].report.n \in Elements(log)
  BY DEF SessionInv, Requests, RequestAt
<1> QED BY <1>1, <1>2 DEF Requests, RequestAt

LEMMA SameRequests ==
  ASSUME SessionInv, UNCHANGED <<work, log, link, call>>
  PROVE  Requests'
  BY DEF SessionInv, Requests, RequestAt, Elements

LEMMA ServedStays ==
  ASSUME TypeOK, UNCHANGED <<bounds, served>>
  PROVE  ServedTypes'
  BY DEF TypeOK, ServedTypes, bounds, served

\* A step that at most adds a report to the queue.
LEMMA QueueKeeps ==
  ASSUME SessionInv, UNCHANGED <<bounds, served>>,
         UNCHANGED <<connected, link, call, base>>,
         authenticated' \in BOOLEAN, authenticated' => authenticated,
         session' \in Session, turn' \in {"idle", "running"},
         failure' \in BOOLEAN, terminal' \in BOOLEAN,
         Joined(outbox, log, ChainOf(work), Calling), Phases'
  PROVE  SessionInv'
<1>1. TypeOK /\ Accounted
  BY DEF SessionInv
<1>2. BridgeTypes'
  BY <1>1 DEF TypeOK, BridgeTypes, Joined
<1>3. Accounted'
  <2>1. log' = log
    BY DEF served
  <2> QED BY <1>1, <2>1, AccountedStays DEF Joined
<1>4. Lines(log', ChainOf(work'), Calling', Numbers(outbox'), made')
  BY DEF served, Joined, Calling
<1>5. Requests'
  BY SameRequests DEF served
<1>6. ServedTypes'
  BY <1>1, ServedStays
<1> QED BY <1>2, <1>3, <1>4, <1>5, <1>6, Together DEF BridgeKeeps

\* A queue that stays as it is has its place in the line.
LEMMA NothingJoins ==
  ASSUME SessionInv, UNCHANGED <<outbox, made>>
  PROVE  Joined(outbox, log, ChainOf(work), Calling)
  BY LineNow DEF SessionInv, TypeOK, Joined

LEMMA OneJoins ==
  ASSUME SessionInv, NEW type \in ReportType, NEW by \in {"hook", "tool", "settle"},
         Reports(type, by)
  PROVE  Joined(outbox, log, ChainOf(work), Calling)
<1>1. TypeOK /\ Lines(log, ChainOf(work), Calling, Numbers(outbox), made)
  BY LineNow DEF SessionInv
<1> QED BY <1>1, ReportsStep

LEMMA ReportTypes ==
  /\ {"session-started", "operation-started", "operation-completed",
      "operation-failed", "session-shutdown", "heartbeat"} \subseteq ReportType
  /\ Actions \subseteq ReportType
  BY DEF ReportType, MessageType, ToolReport

LEMMA PromptKeeps ==
  ASSUME SessionInv, Prompt PROVE SessionInv'
<1>1. TypeOK /\ Phases
  BY DEF SessionInv
<1>2. CASE authenticated
  <2>1. /\ session = "open" /\ session' = session /\ turn' = "running"
        /\ failure' = FALSE /\ terminal' = FALSE
        /\ Reports("operation-started", "hook")
        /\ UNCHANGED <<bounds, served>>
        /\ UNCHANGED <<authenticated, connected, link, call, base>>
    BY <1>2 DEF Prompt
  <2>2. Joined(outbox, log, ChainOf(work), Calling)
    BY <2>1, OneJoins, ReportTypes
  <2>3. Phases'
    BY <1>1, <2>1 DEF Phases
  <2>4. session' \in Session /\ authenticated' \in BOOLEAN
    BY <1>1, <2>1 DEF TypeOK
  <2> QED BY <2>1, <2>2, <2>3, <2>4, QueueKeeps
<1>3. CASE ~authenticated
  <2>1. /\ session = "open" /\ session' = "closing"
        /\ UNCHANGED <<turn, failure, terminal, outbox, made>>
        /\ UNCHANGED <<bounds, served>>
        /\ UNCHANGED <<authenticated, connected, link, call, base>>
    BY <1>3 DEF Prompt
  <2>2. Joined(outbox, log, ChainOf(work), Calling)
    BY <2>1, NothingJoins
  <2>3. Phases'
    BY <1>1, <2>1 DEF Phases
  <2>4. /\ session' \in Session /\ authenticated' \in BOOLEAN
        /\ turn' \in {"idle", "running"}
        /\ failure' \in BOOLEAN /\ terminal' \in BOOLEAN
    BY <1>1, <2>1 DEF TypeOK, Session
  <2> QED BY <2>1, <2>2, <2>3, <2>4, QueueKeeps
<1> QED BY <1>1, <1>2, <1>3 DEF TypeOK

LEMMA TurnKeeps ==
  ASSUME SessionInv, Progress \/ ToolEnds \/ Tool \/ Settle
  PROVE  SessionInv'
<1>1. TypeOK /\ Phases
  BY DEF SessionInv
<1>2. /\ turn = "running" /\ turn' \in {"idle", "running"}
      /\ failure' \in BOOLEAN /\ terminal' \in BOOLEAN
      /\ UNCHANGED <<bounds, served>>
      /\ UNCHANGED <<session, authenticated, connected, link, call, base>>
  BY <1>1 DEF TypeOK, Progress, ToolEnds, Tool, Settle
<1>3. Joined(outbox, log, ChainOf(work), Calling)
  <2>1. CASE Progress
    BY <2>1, OneJoins, ReportTypes DEF Progress
  <2>2. CASE ToolEnds
    BY <2>2, OneJoins, NothingJoins, ReportTypes DEF ToolEnds
  <2>3. CASE Tool
    BY <2>3, OneJoins, ReportTypes DEF Tool
  <2>4. CASE Settle
    <3>1. CASE terminal
      BY <2>4, <3>1, NothingJoins DEF Settle
    <3>2. CASE ~terminal /\ failure
      BY <2>4, <3>2, OneJoins, ReportTypes DEF Settle
    <3>3. CASE ~terminal /\ ~failure
      BY <2>4, <3>3, OneJoins, ReportTypes DEF Settle
    <3> QED BY <3>1, <3>2, <3>3
  <2> QED BY <2>1, <2>2, <2>3, <2>4
<1>4. Phases'
  <2>1. session \in {"open", "closing"}
    BY <1>1, <1>2 DEF Phases
  <2> QED BY <1>1, <1>2, <2>1 DEF Phases
<1>5. session' \in Session /\ authenticated' \in BOOLEAN
  BY <1>1, <1>2 DEF TypeOK
<1> QED BY <1>2, <1>3, <1>4, <1>5, QueueKeeps

LEMMA QuitKeeps ==
  ASSUME SessionInv, Quit PROVE SessionInv'
<1>1. TypeOK /\ Phases
  BY DEF SessionInv
<1>2. Joined(outbox, log, ChainOf(work), Calling)
  BY NothingJoins DEF Quit
<1>3. Phases'
  BY <1>1 DEF Phases, Quit
<1>4. /\ session' \in Session /\ turn' \in {"idle", "running"}
      /\ failure' \in BOOLEAN /\ terminal' \in BOOLEAN
      /\ authenticated' \in BOOLEAN /\ authenticated' = authenticated
      /\ UNCHANGED <<bounds, served>>
      /\ UNCHANGED <<connected, link, call, base>>
  BY <1>1 DEF TypeOK, Quit, Session
<1> QED BY <1>2, <1>3, <1>4, QueueKeeps

LEMMA LockdownKeeps ==
  ASSUME SessionInv, Lockdown PROVE SessionInv'
<1>1. TypeOK /\ Phases /\ Accounted
  BY DEF SessionInv
<1>2. BridgeTypes' /\ ServedTypes'
  BY <1>1 DEF TypeOK, Lockdown, BridgeTypes, ServedTypes, served, Session
<1>3. Phases'
  BY <1>1 DEF Phases, Lockdown
<1>4. Accounted'
  BY <1>1 DEF Phases, Accounted, Lockdown
<1>5. Lines(log', ChainOf(work'), Calling', Numbers(outbox'), made')
  BY LineNow DEF SessionInv, Lockdown, served, Calling
<1>6. Requests'
  BY SameRequests DEF Lockdown, served
<1> QED BY <1>2, <1>3, <1>4, <1>5, <1>6, Together DEF BridgeKeeps

LEMMA OpenKeeps ==
  ASSUME SessionInv, Open PROVE SessionInv'
<1>1. TypeOK /\ Phases
  BY DEF SessionInv
<1> DEFINE first == NewReport("session-started", "hook")
<1>2. first \in Report /\ first.n = made + 1
  BY <1>1, NewReportIs, ReportTypes DEF TypeOK
<1> HIDE DEF first
<1>3. /\ session' = "opening" /\ session \in {"none", "ended"}
      /\ authenticated' = FALSE /\ connected' = FALSE /\ link' = FALSE
      /\ turn' = "idle" /\ failure' = FALSE /\ terminal' = FALSE
      /\ outbox' = <<>>
      /\ call' = [for |-> "open", step |-> "connect", report |-> first]
      /\ made' = made + 1 /\ base' = made
      /\ sessions' = sessions + 1
      /\ UNCHANGED <<drops, crashes, up, work, status, submitted, log,
                     unrecorded>>
  BY DEF Open, served, first
<1>4. /\ call' \in Call /\ call'.for = "open" /\ call'.step = "connect"
      /\ call'.report.n = made + 1
  BY <1>2, <1>3 DEF Call, Purpose, CallStep
<1>5. BridgeTypes' /\ ServedTypes'
  <2>1. made + 1 \in Nat /\ sessions + 1 \in Nat /\ <<>> \in Seq(Report)
    BY <1>1 DEF TypeOK
  <2>2. BridgeTypes'
    BY <1>1, <1>3, <1>4, <2>1 DEF TypeOK, BridgeTypes, Session
  <2>3. ServedTypes'
    BY <1>1, <1>3, <2>1 DEF TypeOK, ServedTypes
  <2> QED BY <2>2, <2>3
<1>6. Phases'
  BY <1>3, <1>4 DEF Phases
<1>7. Accounted'
  BY <1>3 DEF Accounted
<1>8. Lines(log', ChainOf(work'), Calling', Numbers(outbox'), made')
  <2>1. Lines(log, ChainOf(work), {made + 1}, <<>>, made + 1)
    BY LineNow, LineOpened DEF SessionInv
  <2>2. Calling' = {made + 1} /\ Numbers(<<>>) = <<>>
    BY <1>4 DEF Calling, Numbers
  <2> QED BY <2>1, <2>2, <1>3
<1>9. Requests'
  <2>1. ~link
    BY <1>1, <1>3 DEF Phases
  <2> QED BY <2>1, <1>3, NobodyWaits
<1> QED BY <1>5, <1>6, <1>7, <1>8, <1>9, Together DEF BridgeKeeps

LEMMA SendKeeps ==
  ASSUME SessionInv, Send PROVE SessionInv'
<1>1. TypeOK /\ Phases /\ Accounted
  BY DEF SessionInv
<1>2. /\ call = NoCall /\ outbox # <<>> /\ outbox \in Seq(Report)
      /\ session \in {"open", "closing", "shutting"}
      /\ UNCHANGED <<authenticated, connected, link, turn, base>>
      /\ UNCHANGED <<bounds, served>>
  BY <1>1 DEF Send, TypeOK
<1>3. UNCHANGED <<up, work, status, submitted, log, sessions, drops, crashes>>
  BY <1>2 DEF bounds, served
<1>4. /\ Tail(outbox) \in Seq(Report) /\ Head(outbox) \in Report
      /\ Numbers(outbox) \in Seq(Nat) /\ Numbers(outbox) # <<>>
      /\ Head(Numbers(outbox)) = Head(outbox).n
      /\ Numbers(Tail(outbox)) = Tail(Numbers(outbox))
  BY <1>2, NumbersTail
<1>5. Lines(log, ChainOf(work), {}, Numbers(outbox), made)
  BY <1>2, LineNow, NoCallFacts DEF SessionInv, Calling
<1>6. ServedTypes' /\ Requests'
  BY <1>1, <1>2, <1>3, ServedStays, NobodyWaits, NoCallFacts
<1>7. CASE authenticated
  <2>1. /\ call' = [for |-> "first", step |-> "sent", report |-> Head(outbox)]
        /\ outbox' = Tail(outbox)
        /\ UNCHANGED <<session, failure, terminal, made>>
    BY <1>7 DEF Send
  <2>2. /\ call' \in Call /\ call'.for = "first" /\ call'.step = "sent"
        /\ call'.report.n = Head(outbox).n
    BY <1>4, <2>1 DEF Call, Purpose, CallStep
  <2>3. BridgeTypes'
    BY <1>1, <1>2, <1>4, <2>1, <2>2 DEF TypeOK, BridgeTypes
  <2>4. Phases'
    BY <1>1, <1>2, <2>1, <2>2 DEF Phases
  <2>5. Accounted'
    <3>1. Elements(Numbers(outbox))
            = Elements(Numbers(outbox')) \cup {call'.report.n}
      BY <1>4, <1>5, <2>1, <2>2, TailAscending DEF Lines, LineAt
    <3>2. call.report.n = 0
      BY <1>2, NoCallFacts
    <3> QED BY <1>1, <1>2, <1>3, <2>1, <3>1, <3>2, AccountedStays
  <2>6. Lines(log', ChainOf(work'), Calling', Numbers(outbox'), made')
    <3>1. Lines(log, ChainOf(work), {Head(outbox).n}, Tail(Numbers(outbox)), made)
      BY <1>4, <1>5, LineSent
    <3> QED BY <1>3, <1>4, <2>1, <2>2, <3>1 DEF Calling
  <2> QED BY <1>6, <2>3, <2>4, <2>5, <2>6, Together DEF BridgeKeeps
<1>8. CASE ~authenticated
  <2>1. Resolved(Head(outbox), "dropped", Tail(outbox)) /\ call' = call
    BY <1>8 DEF Send
  <2>2. Lines(log, ChainOf(work), {}, Numbers(Tail(outbox)), made)
    BY <1>4, <1>5, LineShorter
  <2>3. /\ Joined(Tail(outbox), log, ChainOf(work), {})
        /\ failure' \in BOOLEAN /\ terminal' \in BOOLEAN
        /\ session' = session \/ (session = "open" /\ session' = "closing")
    BY <1>1, <1>4, <2>1, <2>2, ResolvedStep
  <2>4. BridgeTypes'
    BY <1>1, <1>2, <2>1, <2>3 DEF TypeOK, BridgeTypes, Session, Joined
  <2>5. Phases'
    BY <1>1, <1>2, <2>1, <2>3, NoCallFacts DEF Phases
  <2>6. Accounted'
    BY <1>2, <1>8 DEF Accounted
  <2>7. Lines(log', ChainOf(work'), Calling', Numbers(outbox'), made')
    BY <1>2, <1>3, <2>1, <2>3, NoCallFacts DEF Calling, Joined
  <2> QED BY <1>6, <2>4, <2>5, <2>6, <2>7, Together DEF BridgeKeeps
<1> QED BY <1>1, <1>7, <1>8 DEF TypeOK

LEMMA GoodbyeKeeps ==
  ASSUME SessionInv, Goodbye PROVE SessionInv'
<1>1. TypeOK /\ Phases
  BY DEF SessionInv
<1>2. /\ session = "shutting" /\ call = NoCall /\ outbox = <<>>
      /\ authenticated' = FALSE /\ failure' = FALSE /\ terminal' = FALSE
      /\ UNCHANGED <<connected, link, turn, outbox, base>>
      /\ UNCHANGED <<bounds, served>>
  BY DEF Goodbye
<1>3. UNCHANGED <<up, work, status, submitted, log, sessions, drops, crashes>>
  BY <1>2 DEF bounds, served
<1>4. Lines(log, ChainOf(work), {}, Numbers(outbox), made)
  BY <1>2, LineNow, NoCallFacts DEF SessionInv, Calling
<1>5. ServedTypes' /\ Requests'
  BY <1>1, <1>2, <1>3, ServedStays, NobodyWaits, NoCallFacts
<1>6. turn = "idle" /\ Accounted'
  BY <1>1, <1>2 DEF Phases, TypeOK, Accounted
<1>7. CASE connected
  <2> DEFINE last == NewReport("session-shutdown", "hook")
  <2>1. last \in Report /\ last.n = made + 1 /\ made + 1 \in Nat
    BY <1>1, NewReportIs, ReportTypes DEF TypeOK
  <2> HIDE DEF last
  <2>2. /\ call' = [for |-> "last", step |-> "sent", report |-> last]
        /\ made' = made + 1 /\ session' = session
    BY <1>7 DEF Goodbye, last
  <2>3. /\ call' \in Call /\ call'.for = "last" /\ call'.step = "sent"
        /\ call'.report.n = made + 1
    BY <2>1, <2>2 DEF Call, Purpose, CallStep
  <2>4. BridgeTypes'
    BY <1>1, <1>2, <2>1, <2>2, <2>3 DEF TypeOK, BridgeTypes
  <2>5. Phases'
    BY <1>1, <1>2, <1>6, <2>2, <2>3 DEF Phases
  <2>6. Lines(log', ChainOf(work'), Calling', Numbers(outbox'), made')
    <3>1. Lines(log, ChainOf(work), {made + 1}, <<>>, made + 1)
      BY <1>4, LineOpened
    <3>2. Calling' = {made + 1} /\ Numbers(<<>>) = <<>>
      BY <2>3 DEF Calling, Numbers
    <3> QED BY <1>2, <1>3, <2>2, <3>1, <3>2
  <2> QED BY <1>5, <1>6, <2>4, <2>5, <2>6, Together DEF BridgeKeeps
<1>8. CASE ~connected
  <2>1. session' = "ended" /\ UNCHANGED <<call, made>>
    BY <1>8 DEF Goodbye
  <2>2. BridgeTypes'
    BY <1>1, <1>2, <2>1 DEF TypeOK, BridgeTypes, Session
  <2>3. Phases'
    BY <1>1, <1>2, <1>6, <1>8, <2>1, NoCallFacts DEF Phases
  <2>4. Lines(log', ChainOf(work'), Calling', Numbers(outbox'), made')
    BY <1>2, <1>3, <1>4, <2>1, NoCallFacts DEF Calling
  <2> QED BY <1>5, <1>6, <2>2, <2>3, <2>4, Together DEF BridgeKeeps
<1> QED BY <1>1, <1>7, <1>8 DEF TypeOK

-----------------------------------------------------------------------------
(* The steps of the connection.                                            *)

\* A step of the request under way that changes how far it has come, no more.
LEMMA CallMoves ==
  ASSUME SessionInv, UNCHANGED <<bounds, served>>, Requests',
         UNCHANGED <<session, authenticated, turn, failure, terminal, outbox,
                     made, base>>,
         call.for \in {"open", "first", "retry", "last"},
         NEW for \in Purpose, NEW step \in CallStep \ {"none"},
         call' = [call EXCEPT !.for = for, !.step = step],
         for = call.for \/ (call.for = "first" /\ for = "retry"),
         link' \in BOOLEAN, connected' \in BOOLEAN,
         link' => connected' /\ session \notin {"none", "ended"}
  PROVE  SessionInv'
<1>1. TypeOK /\ Phases /\ Accounted
  BY DEF SessionInv
<1>2. /\ call' \in Call /\ call'.for = for /\ call'.step = step
      /\ call'.report = call.report /\ step # "none"
  BY <1>1 DEF TypeOK, Call
<1>3. UNCHANGED <<up, work, status, submitted, log>>
  BY DEF served
<1>4. BridgeTypes'
  BY <1>1, <1>2 DEF TypeOK, BridgeTypes
<1>5. session \notin {"none", "ended"}
  BY <1>1, NoCallFacts DEF Phases
<1>6. Phases'
  BY <1>1, <1>2, <1>5 DEF Phases
<1>7. Accounted'
  BY <1>1, <1>2, <1>3, AccountedStays
<1>8. Lines(log', ChainOf(work'), Calling', Numbers(outbox'), made')
  BY <1>2, <1>3, LineNow DEF SessionInv, Calling
<1>9. ServedTypes'
  BY <1>1, ServedStays
<1> QED BY <1>4, <1>6, <1>7, <1>8, <1>9, Together DEF BridgeKeeps

\* A step of the bridge that nobody waits for, while nothing is handled.
LEMMA BridgeMoves ==
  ASSUME SessionInv, UNCHANGED <<bounds, served>>,
         call.step # "taken" \/ ~link, BridgeKeeps(ChainOf(work))
  PROVE  SessionInv'
<1>1. TypeOK /\ UNCHANGED <<work, log>>
  BY DEF SessionInv, served
<1>2. ServedTypes' /\ Requests'
  BY <1>1, ServedStays, NobodyWaits
<1> QED BY <1>1, <1>2, Together

LEMMA ConnectKeeps ==
  ASSUME SessionInv, Connect PROVE SessionInv'
<1>1. TypeOK /\ Phases
  BY DEF SessionInv
<1>2. /\ call.step = "connect" /\ UNCHANGED <<bounds, served>>
      /\ log' = log /\ work' = work
  BY DEF Connect, served
<1>3. call.for \in {"open", "first", "retry", "last"}
  BY <1>1, <1>2, CallFacts DEF Phases, Purpose
<1>4. session \notin {"none", "ended"}
  BY <1>1, <1>3, NoCallFacts DEF Phases
<1>5. Lines(log, ChainOf(work), Calling, Numbers(outbox), made)
  BY LineNow DEF SessionInv
<1>6. CASE connected' = TRUE /\ link' = TRUE
           /\ call' = [call EXCEPT !.step = "hello"]
           /\ UNCHANGED <<session, authenticated, turn, failure, terminal,
                          outbox, made, base>>
  <2>1. call' = [call EXCEPT !.for = call.for, !.step = "hello"]
    BY <1>1, <1>6 DEF TypeOK, Call
  <2>2. Requests'
    BY <1>2, NobodyWaits
  <2> QED BY <1>2, <1>3, <1>4, <1>6, <2>1, <2>2, CallMoves DEF Purpose, CallStep
<1>7. CASE call.for = "open" /\ OpenFails
  BY <1>1, <1>2, <1>5, <1>7, OpenFailsKeeps, BridgeMoves
<1>8. CASE call.for = "retry" /\ LockedOut
  BY <1>1, <1>2, <1>5, <1>8, LockedOutKeeps, BridgeMoves
<1> QED BY <1>6, <1>7, <1>8 DEF Connect

LEMMA HelloKeeps ==
  ASSUME SessionInv, Hello PROVE SessionInv'
<1>1. TypeOK /\ Phases
  BY DEF SessionInv
<1>2. /\ call.step = "hello" /\ UNCHANGED <<bounds, served>>
      /\ UNCHANGED <<session, authenticated, turn, failure, terminal, outbox,
                     made, base>>
      /\ UNCHANGED <<connected, link>>
      /\ log' = log /\ work' = work
  BY DEF Hello, served
<1>3. call.for \in {"open", "first", "retry", "last"}
  BY <1>1, <1>2, CallFacts DEF Phases, Purpose
<1>4. call' = [call EXCEPT !.for = call.for, !.step = "sent"]
  BY <1>1 DEF TypeOK, Call, Hello
<1>5. Requests'
  BY <1>2, NobodyWaits
<1>6. /\ link' \in BOOLEAN /\ connected' \in BOOLEAN
      /\ link' => connected' /\ session \notin {"none", "ended"}
  BY <1>1, <1>2 DEF Phases, TypeOK
<1> QED BY <1>2, <1>3, <1>4, <1>5, <1>6, CallMoves DEF Purpose, CallStep

LEMMA LostKeeps ==
  ASSUME SessionInv, Lost PROVE SessionInv'
<1>1. TypeOK /\ Phases
  BY DEF SessionInv
<1>2. /\ ~link /\ UNCHANGED <<bounds, served>>
      /\ log' = log /\ work' = work
  BY DEF Lost, served
<1>3. Lines(log, ChainOf(work), Calling, Numbers(outbox), made)
  BY LineNow DEF SessionInv
<1>4. CASE call.for = "open" /\ OpenFails
  BY <1>1, <1>2, <1>3, <1>4, OpenFailsKeeps, BridgeMoves
<1>5. CASE /\ call.for = "first"
           /\ connected' = FALSE
           /\ call' = [call EXCEPT !.for = "retry", !.step = "connect"]
           /\ UNCHANGED <<session, authenticated, link, turn, failure, terminal,
                          outbox, made, base>>
  <2>1. Requests'
    BY <1>2, NobodyWaits
  <2>2. /\ link' \in BOOLEAN /\ connected' \in BOOLEAN /\ ~link'
    BY <1>1, <1>2, <1>5 DEF TypeOK
  <2> QED BY <1>2, <1>5, <2>1, <2>2, CallMoves DEF Purpose, CallStep
<1>6. CASE call.for = "retry" /\ LockedOut
  BY <1>1, <1>2, <1>3, <1>6, LockedOutKeeps, BridgeMoves
<1>7. CASE call.for = "last" /\ ShutDown
  BY <1>1, <1>2, <1>3, <1>7, ShutDownKeeps, BridgeMoves
<1> QED BY <1>4, <1>5, <1>6, <1>7 DEF Lost

\* A step that leaves the bridge alone, but for its connection.
LEMMA LinkKeeps ==
  ASSUME SessionInv, ServedTypes', Requests', Elements(log) \subseteq Elements(log'),
         UNCHANGED <<session, authenticated, connected, turn, failure, terminal,
                     outbox, call, made, base>>,
         link' = link \/ link' = FALSE,
         Lines(log', ChainOf(work'), Calling, Numbers(outbox), made)
  PROVE  SessionInv'
<1>1. TypeOK /\ Phases /\ Accounted
  BY DEF SessionInv
<1>2. BridgeTypes'
  BY <1>1 DEF TypeOK, BridgeTypes
<1>3. Phases'
  BY <1>1 DEF Phases
<1>4. Accounted'
  BY <1>1, AccountedStays
<1>5. Lines(log', ChainOf(work'), Calling', Numbers(outbox'), made')
  BY DEF Calling
<1> QED BY <1>2, <1>3, <1>4, <1>5, Together DEF BridgeKeeps

LEMMA DropKeeps ==
  ASSUME SessionInv, Drop PROVE SessionInv'
<1>1. /\ TypeOK /\ work \in Seq(Request) /\ drops + 1 \in Nat
  BY DEF SessionInv, TypeOK
<1>2. /\ Cut(work) \in Seq(Request) /\ DOMAIN Cut(work) = DOMAIN work
      /\ \A i \in DOMAIN work :
           /\ Cut(work)[i].live = FALSE
           /\ Cut(work)[i].report = work[i].report
           /\ Cut(work)[i].outcome = work[i].outcome
      /\ ChainOf(Cut(work)) = ChainOf(work)
  BY <1>1, CutRequests
<1>3. /\ link' = FALSE /\ work' = Cut(work) /\ log' = log /\ drops' = drops + 1
      /\ UNCHANGED <<session, authenticated, connected, turn, failure, terminal,
                     outbox, call, made, base, sessions, crashes, up, status,
                     submitted, unrecorded>>
  BY DEF Drop
<1>4. ServedTypes'
  BY <1>1, <1>2, <1>3 DEF TypeOK, ServedTypes
<1>5. Requests'
  BY <1>2, <1>3 DEF SessionInv, Requests, RequestAt
<1>6. Lines(log', ChainOf(work'), Calling, Numbers(outbox), made)
  BY <1>2, <1>3, LineNow DEF SessionInv
<1> QED BY <1>3, <1>4, <1>5, <1>6, LinkKeeps

LEMMA CrashKeeps ==
  ASSUME SessionInv, Crash PROVE SessionInv'
<1>1. TypeOK
  BY DEF SessionInv
<1>2. /\ link' = FALSE /\ work' = <<>> /\ log' = log /\ up' = FALSE
      /\ crashes' = crashes + 1
      /\ UNCHANGED <<session, authenticated, connected, turn, failure, terminal,
                     outbox, call, made, base, sessions, drops, status,
                     submitted, unrecorded>>
  BY DEF Crash
<1>3. crashes + 1 \in Nat /\ <<>> \in Seq(Request) /\ DOMAIN <<>> = {}
  BY <1>1 DEF TypeOK
<1>4. ServedTypes'
  BY <1>1, <1>2, <1>3 DEF TypeOK, ServedTypes
<1>5. Requests'
  BY <1>2, <1>3 DEF Requests
<1>6. Lines(log', ChainOf(work'), Calling, Numbers(outbox), made)
  <2>1. ChainOf(<<>>) = <<>>
    BY DEF ChainOf
  <2>2. Lines(log, <<>>, Calling, Numbers(outbox), made)
    BY LineNow, LineShorter DEF SessionInv
  <2> QED BY <1>2, <2>1, <2>2
<1> QED BY <1>2, <1>4, <1>5, <1>6, LinkKeeps

LEMMA RestartKeeps ==
  ASSUME SessionInv, Restart PROVE SessionInv'
<1>1. TypeOK
  BY DEF SessionInv
<1>2. /\ up' = TRUE
      /\ UNCHANGED <<work, status, submitted, log, unrecorded, sessions, drops,
                     crashes>>
      /\ UNCHANGED <<session, authenticated, connected, turn, failure, terminal,
                     outbox, call, made, base, link>>
  BY DEF Restart, bridge, bounds
<1>3. ServedTypes'
  BY <1>1, <1>2 DEF TypeOK, ServedTypes
<1>4. Requests'
  BY <1>2, SameRequests
<1>5. Lines(log', ChainOf(work'), Calling, Numbers(outbox), made)
  BY <1>2, LineNow DEF SessionInv
<1> QED BY <1>2, <1>3, <1>4, <1>5, LinkKeeps

LEMMA KillKeeps ==
  ASSUME SessionInv, Kill PROVE SessionInv'
<1>1. TypeOK /\ Phases /\ work \in Seq(Request)
  BY DEF SessionInv, TypeOK
<1>2. /\ session' = "ended"
      /\ authenticated' = FALSE /\ connected' = FALSE /\ link' = FALSE
      /\ turn' = "idle" /\ failure' = FALSE /\ terminal' = FALSE
      /\ outbox' = <<>> /\ call' = NoCall
      /\ UNCHANGED <<made, base, sessions, drops, crashes, up, status,
                     submitted, log, unrecorded>>
  BY DEF Kill, bounds
<1>3. /\ Cut(work) \in Seq(Request) /\ DOMAIN Cut(work) = DOMAIN work
      /\ \A i \in DOMAIN work :
           /\ Cut(work)[i].live = FALSE
           /\ Cut(work)[i].report = work[i].report
           /\ Cut(work)[i].outcome = work[i].outcome
      /\ ChainOf(Cut(work)) = ChainOf(work)
  BY <1>1, CutRequests
<1>4. Lines(log, ChainOf(work), Calling, Numbers(outbox), made)
  BY LineNow DEF SessionInv
<1>5. /\ work' \in Seq(Request) /\ Requests'
      /\ Lines(log, ChainOf(work'), {}, <<>>, made)
  <2>1. CASE work' = Cut(work)
    <3>1. Requests'
      BY <1>2, <1>3, <2>1 DEF SessionInv, Requests, RequestAt
    <3> QED BY <1>3, <1>4, <2>1, <3>1, LineShorter
  <2>2. CASE /\ call.step = "sent" /\ link
             /\ work' = Append(Cut(work), [report |-> call.report, live |-> FALSE,
                                           outcome |-> "none"])
    <3> DEFINE left == [report |-> call.report, live |-> FALSE,
                        outcome |-> "none"]
    <3>1. /\ left \in Request /\ left.report.n = call.report.n
          /\ left.live = FALSE /\ left.outcome = "none"
          /\ call.report.n \in Nat
      BY <1>1, CallFacts DEF Request
    <3> HIDE DEF left
    <3>2. work' = Append(Cut(work), left)
      BY <2>2 DEF left
    <3>3. /\ work' \in Seq(Request)
          /\ ChainOf(work') = Append(ChainOf(work), call.report.n)
      BY <1>3, <3>1, <3>2, ChainAppend
    <3>4. Calling = {call.report.n}
      BY <1>1, <2>2 DEF Phases, Calling
    <3>5. Lines(log, ChainOf(work'), {}, <<>>, made)
      <4>1. Lines(log, ChainOf(work), {call.report.n}, Numbers(outbox), made)
        BY <1>4, <3>4
      <4>2. Lines(log, ChainOf(work'), {call.report.n}, Numbers(outbox), made)
        BY <3>1, <3>3, <4>1, LineTaken
      <4> QED BY <4>2, LineShorter
    <3>6. Requests'
      <4>1. SUFFICES ASSUME NEW i \in DOMAIN work' PROVE RequestAt(i)'
        BY DEF Requests
      <4>2. /\ DOMAIN work' = 1..(Len(Cut(work)) + 1)
            /\ \A j \in DOMAIN Cut(work) : work'[j] = Cut(work)[j]
            /\ work'[Len(Cut(work)) + 1] = left
            /\ DOMAIN Cut(work) = 1..Len(Cut(work)) /\ Len(Cut(work)) \in Nat
        BY <1>3, <3>2
      <4>3. CASE i = Len(Cut(work)) + 1
        BY <3>1, <4>2, <4>3 DEF RequestAt
      <4>4. CASE i \in DOMAIN work
        BY <1>2, <1>3, <4>2, <4>4 DEF SessionInv, Requests, RequestAt
      <4> QED BY <1>3, <4>1, <4>2, <4>3, <4>4
    <3> QED BY <3>3, <3>5, <3>6
  <2> QED BY <2>1, <2>2 DEF Kill
<1>6. ServedTypes'
  BY <1>1, <1>2, <1>5 DEF TypeOK, ServedTypes
<1>7. BridgeTypes'
  <2>1. <<>> \in Seq(Report)
    OBVIOUS
  <2> QED BY <1>1, <1>2, <2>1, NoCallFacts DEF TypeOK, BridgeTypes, Session
<1>8. Phases' /\ Accounted'
  BY <1>2, NoCallFacts DEF Phases, Accounted
<1>9. Lines(log', ChainOf(work'), Calling', Numbers(outbox'), made')
  <2>1. Numbers(<<>>) = <<>> /\ Calling' = {}
    BY <1>2, NoCallFacts DEF Numbers, Calling
  <2> QED BY <1>2, <1>5, <2>1
<1> QED BY <1>5, <1>6, <1>7, <1>8, <1>9, Together DEF BridgeKeeps

-----------------------------------------------------------------------------
(* The steps of the controller.                                            *)

LEMMA TakeKeeps ==
  ASSUME SessionInv, Take PROVE SessionInv'
<1>1. TypeOK /\ Phases /\ Accounted /\ Requests /\ work \in Seq(Request)
  BY DEF SessionInv, TypeOK
<1> DEFINE new == [report |-> call.report, live |-> TRUE, outcome |-> "none"]
<1>2. /\ new \in Request /\ new.report = call.report
      /\ new.report.n = call.report.n /\ new.outcome = "none"
      /\ call.report.n \in Nat
  BY <1>1, CallFacts DEF Request
<1> HIDE DEF new
<1>3. /\ call.step = "sent" /\ link
      /\ call' = [call EXCEPT !.step = "taken"]
      /\ work' = Append(work, new)
      /\ UNCHANGED <<session, authenticated, connected, link, turn, failure,
                     terminal, outbox, made, base, up, status, submitted, log,
                     unrecorded, sessions, drops, crashes>>
  BY DEF Take, new, bounds
<1>4. /\ call' \in Call /\ call'.for = call.for /\ call'.step = "taken"
      /\ call'.report = call.report
  BY <1>1, <1>3 DEF TypeOK, Call, CallStep
<1>5. /\ work' \in Seq(Request)
      /\ ChainOf(work') = Append(ChainOf(work), call.report.n)
  BY <1>1, <1>2, <1>3, ChainAppend
<1>6. call.for # "none" /\ Calling = {call.report.n} /\ Calling' = Calling
  BY <1>1, <1>3, <1>4 DEF Phases, Calling
<1>7. ServedTypes' /\ BridgeTypes'
  BY <1>1, <1>3, <1>4, <1>5 DEF TypeOK, ServedTypes, BridgeTypes
<1>8. Phases'
  BY <1>1, <1>3, <1>4, <1>6, NoCallFacts DEF Phases
<1>9. Accounted'
  BY <1>1, <1>3, <1>4, AccountedStays
<1>10. Lines(log', ChainOf(work'), Calling', Numbers(outbox'), made')
  <2>1. Lines(log, ChainOf(work), {call.report.n}, Numbers(outbox), made)
    BY <1>6, LineNow DEF SessionInv
  <2> QED BY <1>2, <1>3, <1>5, <1>6, <2>1, LineTaken
<1>11. Requests'
  <2>1. SUFFICES ASSUME NEW i \in DOMAIN work' PROVE RequestAt(i)'
    BY DEF Requests
  <2>2. /\ DOMAIN work' = 1..(Len(work) + 1) /\ Len(work') = Len(work) + 1
        /\ \A j \in DOMAIN work : work'[j] = work[j]
        /\ work'[Len(work) + 1] = new
        /\ DOMAIN work = 1..Len(work) /\ Len(work) \in Nat
    BY <1>1, <1>2, <1>3
  <2>3. CASE i = Len(work) + 1
    BY <1>2, <1>3, <1>4, <2>2, <2>3 DEF RequestAt
  <2>4. CASE i \in DOMAIN work
    BY <1>1, <1>3, <2>2, <2>4 DEF Requests, RequestAt
  <2> QED BY <2>1, <2>2, <2>3, <2>4
<1> QED BY <1>7, <1>8, <1>9, <1>10, <1>11, Together DEF BridgeKeeps

\* What an agent becomes is again a status.
LEMMA StatusStays ==
  ASSUME status \in AgentStatus, NEW type \in ReportType
  PROVE  StatusAfter(type) \in AgentStatus
<1>1. CASE Unchanged(type) \/ type = "heartbeat"
  BY <1>1 DEF StatusAfter
<1>2. CASE ~Unchanged(type) /\ type # "heartbeat"
  <2>1. type \in MessageType \ SignalMessage
    BY <1>2 DEF ReportType, Unchanged
  <2>2. type \in {"session-started", "operation-started", "operation-completed",
                 "operation-failed", "agent-blocked", "agent-unblocked"}
    BY <2>1 DEF MessageType, SignalMessage
  <2> DEFINE t == MessageTransition(type)
  <2>3. t \in {"session-ready", "operation-started", "operation-finished",
               "agent-failed", "agent-blocked", "agent-unblocked"}
    BY <2>2 DEF MessageTransition
  <2> HIDE DEF t
  <2>4. AgentTo(t) \in AgentStatus
    BY <2>3 DEF AgentTo, AgentStatus
  <2> QED BY <1>2, <2>1, <2>4 DEF StatusAfter, ApplyAgentMessage, t
<1> QED BY <1>1, <1>2

\* What a commit makes of the agent whose report has the type, and of whether
\* an end is missing.
Committed(type, outcome) ==
  \/ /\ outcome = "accepted" /\ Accepted(type)
     /\ status' = StatusAfter(type)
     /\ unrecorded' = (unrecorded /\ status' = status)
  \/ /\ outcome = "refused" /\ ~Accepted(type)
     /\ UNCHANGED <<status, unrecorded>>
  \/ /\ outcome = "failed" /\ Accepted(type)
     /\ unrecorded' = (unrecorded \/ (status = "working" /\ type \in Ends))
     /\ UNCHANGED status

LEMMA CommitIs ==
  ASSUME TypeOK, Commit
  PROVE  /\ work \in Seq(Request) /\ work # <<>> /\ 1 \in DOMAIN work
         /\ work[1] \in Request /\ work[1].report.type \in ReportType
         /\ \E outcome \in {"accepted", "refused", "failed"} :
              /\ work' = Decided(work, outcome)
              /\ work'[1].outcome = outcome
              /\ Committed(work[1].report.type, outcome)
         /\ log' = Append(log, work[1].report.n)
         /\ UNCHANGED <<bridge, bounds, up, submitted>>
<1>1. work \in Seq(Request) /\ work # <<>>
  BY DEF TypeOK, Commit
<1>2. Head(work) = work[1] /\ work[1] \in Request /\ 1 \in DOMAIN work
  BY <1>1
<1>3. work[1].report \in Report
  BY <1>2 DEF Request
<1>4. work[1].report.type \in ReportType
  BY <1>3 DEF Report
<1>5. \E outcome \in {"accepted", "refused", "failed"} :
        work' = Decided(work, outcome) /\ Committed(work[1].report.type, outcome)
  BY <1>2 DEF Commit, Decided, Committed
<1>6. \A outcome : Decided(work, outcome)[1].outcome = outcome
  BY <1>1, <1>2 DEF Decided, Request
<1>7. log' = Append(log, work[1].report.n) /\ UNCHANGED <<bridge, bounds, up, submitted>>
  BY <1>2 DEF Commit
<1> QED BY <1>1, <1>2, <1>4, <1>5, <1>6, <1>7

LEMMA CommitKeeps ==
  ASSUME SessionInv, Commit PROVE SessionInv'
<1>1. TypeOK /\ Requests /\ log \in Seq(Nat)
  BY DEF SessionInv, TypeOK
<1>2. /\ work \in Seq(Request) /\ work # <<>> /\ 1 \in DOMAIN work
      /\ work[1].report.type \in ReportType
      /\ log' = Append(log, work[1].report.n)
      /\ UNCHANGED <<bridge, bounds, up, submitted>>
  BY <1>1, CommitIs
<1>3. PICK outcome \in {"accepted", "refused", "failed"} :
        work' = Decided(work, outcome) /\ Committed(work[1].report.type, outcome)
  BY <1>1, CommitIs
<1>4. status' \in AgentStatus /\ unrecorded' \in BOOLEAN
  BY <1>1, <1>2, <1>3, StatusStays DEF TypeOK, Committed
<1>5. ChainOf(work) # <<>> /\ Head(ChainOf(work)) = work[1].report.n
  BY <1>2, ChainTail
<1>6. /\ work' \in Seq(Request) /\ Len(work') = Len(work)
      /\ DOMAIN work' = DOMAIN work
      /\ \A i \in DOMAIN work :
           /\ work'[i].live = work[i].live
           /\ work'[i].report = work[i].report
           /\ i # 1 => work'[i].outcome = work[i].outcome
      /\ ChainOf(work') = ChainOf(work)
  BY <1>2, <1>3, OutcomeRequests
<1>7. Lines(log, ChainOf(work), Calling, Numbers(outbox), made)
  BY LineNow DEF SessionInv
<1>8. /\ Lines(log', ChainOf(work), Calling, Numbers(outbox), made)
      /\ Elements(log') = Elements(log) \cup {work[1].report.n}
  BY <1>2, <1>5, <1>7, LineHandled
<1>9. Requests'
  BY <1>1, <1>2, <1>6, <1>8 DEF Requests, RequestAt, bridge
<1>10. ServedTypes'
  <2>1. log' \in Seq(Nat)
    BY <1>8 DEF Lines
  <2> QED BY <1>1, <1>2, <1>4, <1>6, <2>1 DEF TypeOK, ServedTypes, bounds
<1>11. /\ Elements(log) \subseteq Elements(log')
       /\ Lines(log', ChainOf(work'), Calling, Numbers(outbox), made)
  BY <1>6, <1>8
<1> QED BY <1>2, <1>9, <1>10, <1>11, LinkKeeps DEF bridge

LEMMA FinishKeeps ==
  ASSUME SessionInv, Finish PROVE SessionInv'
<1>1. TypeOK /\ Phases /\ Accounted /\ Requests /\ work \in Seq(Request)
      /\ work # <<>>
  BY DEF SessionInv, TypeOK, Finish
<1>2. /\ Tail(work) \in Seq(Request) /\ Head(work) = work[1]
      /\ work[1] \in Request /\ ChainOf(work) # <<>>
      /\ ChainOf(Tail(work)) = Tail(ChainOf(work))
      /\ 1 \in DOMAIN work
  BY <1>1, ChainTail
<1>3. /\ work[1].outcome # "none" /\ work' = Tail(work)
      /\ UNCHANGED <<bounds, up, log, unrecorded>>
  BY <1>2 DEF Finish
<1>4. PICK result \in {"recorded", "refused"} :
        /\ IF Head(work).outcome = "accepted"
           THEN Lifecycle(Head(work).report.type, result)
           ELSE result = "refused" /\ UNCHANGED <<status, submitted>>
        /\ IF Head(work).live THEN Answered(result) ELSE UNCHANGED bridge
  BY DEF Finish
<1>5. status' \in AgentStatus /\ submitted' \in BOOLEAN
  BY <1>1, <1>4 DEF Lifecycle, AgentStatus, TypeOK
<1>6. ServedTypes'
  BY <1>1, <1>2, <1>3, <1>5 DEF TypeOK, ServedTypes, bounds
<1>7. Lines(log, ChainOf(work'), Calling, Numbers(outbox), made)
  BY <1>2, <1>3, LineNow, LineShorter DEF SessionInv
<1>8. work[1].report.n \in Elements(log)
  BY <1>1, <1>2, <1>3 DEF Requests, RequestAt
<1>9. /\ Len(work') = Len(work) - 1 /\ DOMAIN work' = 1..(Len(work) - 1)
      /\ \A i \in DOMAIN work' : work'[i] = work[i + 1] /\ i + 1 \in DOMAIN work
      /\ Len(work) \in Nat \ {0}
  BY <1>1, <1>3
<1>10. CASE work[1].live
  <2>1. /\ Len(work) = 1 /\ call.step = "taken" /\ work[1].report = call.report
    BY <1>1, <1>2, <1>10 DEF Requests, RequestAt
  <2>2. call.for # "none" /\ call.report.n \in Elements(log)
    BY <1>1, <1>8, <2>1 DEF Phases
  <2>3. BridgeKeeps(ChainOf(work'))
    BY <1>1, <1>2, <1>3, <1>4, <1>7, <1>10, <2>2, AnsweredKeeps
  <2>4. Requests'
    BY <1>9, <2>1 DEF Requests
  <2> QED BY <1>6, <2>3, <2>4, Together
<1>11. CASE ~work[1].live
  <2>1. UNCHANGED bridge
    BY <1>2, <1>4, <1>11
  <2>2. Requests'
    <3>1. SUFFICES ASSUME NEW i \in DOMAIN work' PROVE RequestAt(i)'
      BY DEF Requests
    <3>2. RequestAt(i + 1) /\ work'[i] = work[i + 1]
      BY <1>1, <1>9 DEF Requests
    <3> QED BY <1>3, <1>9, <2>1, <3>2 DEF RequestAt, bridge
  <2>3. /\ Elements(log) \subseteq Elements(log')
        /\ Lines(log', ChainOf(work'), Calling, Numbers(outbox), made)
    BY <1>3, <1>7
  <2> QED BY <1>6, <2>1, <2>2, <2>3, LinkKeeps DEF bridge
<1> QED BY <1>2, <1>10, <1>11 DEF Request

-----------------------------------------------------------------------------
LEMMA InitKeeps ==
  ASSUME Init PROVE SessionInv
<1>1. TypeOK
  <2>1. <<>> \in Seq(Report) /\ <<>> \in Seq(Request) /\ <<>> \in Seq(Nat)
    OBVIOUS
  <2> QED BY <2>1, NoCallFacts DEF Init, TypeOK, Session, AgentStatus
<1>2. Line
  <2>1. ChainOf(<<>>) = <<>> /\ Numbers(<<>>) = <<>> /\ Calling = {}
    BY NoCallFacts DEF Init, ChainOf, Numbers, Calling
  <2> QED BY <2>1, NothingWaits DEF Init, Line, LineAt, Before
<1>3. Requests
  BY DEF Init, Requests
<1>4. Phases /\ Accounted
  BY NoCallFacts DEF Init, Phases, Accounted
<1> QED BY <1>1, <1>2, <1>3, <1>4 DEF SessionInv

LEMMA StillKeeps ==
  ASSUME SessionInv, UNCHANGED vars PROVE SessionInv'
<1>1. ServedTypes'
  BY ServedStays DEF SessionInv, vars
<1>2. Requests'
  BY SameRequests DEF vars, bridge, served
<1>3. Lines(log', ChainOf(work'), Calling, Numbers(outbox), made)
  BY LineNow DEF SessionInv, vars, served
<1> QED BY <1>1, <1>2, <1>3, LinkKeeps DEF vars, bridge, served

(* The invariant holds of every child: types, the line of reports, who     *)
(* waits for an answer, and where the reports of a session are.            *)
THEOREM ChildInvariance == Spec => []SessionInv
<1>1. Init => SessionInv
  BY InitKeeps
<1>2. SessionInv /\ [Next]_vars => SessionInv'
  <2>1. SUFFICES ASSUME SessionInv, Next \/ UNCHANGED vars PROVE SessionInv'
    OBVIOUS
  <2>2. CASE Child
    BY <2>1, <2>2, OpenKeeps, LockdownKeeps, ConnectKeeps, HelloKeeps,
       LostKeeps, SendKeeps, PromptKeeps, TurnKeeps, QuitKeeps, GoodbyeKeeps,
       KillKeeps DEF Child
  <2>3. CASE Controller
    BY <2>1, <2>3, TakeKeeps, CommitKeeps, FinishKeeps, DropKeeps, CrashKeeps,
       RestartKeeps DEF Controller
  <2>4. CASE UNCHANGED vars
    BY <2>1, <2>4, StillKeeps
  <2> QED BY <2>1, <2>2, <2>3, <2>4 DEF Next
<1> QED BY <1>1, <1>2, PTL DEF Spec

(* The state of a child, its connection and its controller has its types.  *)
THEOREM ChildTypeCorrect == Spec => []TypeOK
<1>1. SessionInv => TypeOK
  BY DEF SessionInv
<1> QED BY <1>1, ChildInvariance, PTL

(* Reports are handled in the order in which they were made, however many  *)
(* were sent twice, lost or left behind by an earlier session.             *)
THEOREM ReportsStayInOrder == Spec => []ReportsInOrder
<1>1. SessionInv => ReportsInOrder
  BY DEF SessionInv, Line, LineAt, Ascending, ReportsInOrder
<1> QED BY <1>1, ChildInvariance, PTL

(* A child that is authenticated lost none of its session's reports,       *)
(* however many connections were closed and controllers died.              *)
THEOREM NoneIsLost == Spec => []NoReportLost
<1>1. ASSUME SessionInv PROVE NoReportLost
  <2>1. SUFFICES ASSUME authenticated, NEW n \in (base + 1)..made
                 PROVE  \/ \E i \in DOMAIN outbox : outbox[i].n = n
                        \/ call.report.n = n
                        \/ \E i \in DOMAIN log : log[i] = n
    BY DEF NoReportLost
  <2>2. \/ n \in Elements(Numbers(outbox)) \/ n = call.report.n
        \/ n \in Elements(log)
    BY <1>1, <2>1 DEF SessionInv, Accounted
  <2>3. ASSUME n \in Elements(Numbers(outbox))
        PROVE  \E i \in DOMAIN outbox : outbox[i].n = n
    BY <2>3 DEF Elements, Numbers
  <2>4. ASSUME n \in Elements(log) PROVE \E i \in DOMAIN log : log[i] = n
    BY <2>4 DEF Elements
  <2> QED BY <2>2, <2>3, <2>4
<1> QED BY <1>1, ChildInvariance, PTL

-----------------------------------------------------------------------------
(* A closed agent's session is over.                                       *)

Plain(q) ==
  \A i \in DOMAIN q : q[i].type \notin {"session-started", "session-shutdown"}

\* The first and the last message of a session are sent outside the queue.
CallKind ==
  /\ call.for = "open" => call.report.type = "session-started"
  /\ call.for \in {"first", "retry"} =>
       call.report.type \notin {"session-started", "session-shutdown"}

Over == ~authenticated /\ session # "open"

\* Only the first message is in hand; while a shutdown waits, no session is
\* open; and a start that was accepted found the agent not closed.
ClosingAt(i) ==
  /\ i # 1 => work[i].outcome = "none"
  /\ work[i].report.type = "session-shutdown" => Over
  /\ work[i].report.type = "session-started" /\ work[i].outcome = "accepted"
       => status # "closed"

OverInv ==
  /\ Plain(outbox) /\ CallKind
  /\ \A i \in DOMAIN work : ClosingAt(i)
  /\ status = "closed" => Over

LEMMA PlainAppend ==
  ASSUME NEW q \in Seq(Report), Plain(q), NEW r \in Report,
         r.type \notin {"session-started", "session-shutdown"}
  PROVE  Plain(Append(q, r))
<1>1. /\ DOMAIN Append(q, r) = 1..(Len(q) + 1)
      /\ \A i \in 1..Len(q) : Append(q, r)[i] = q[i]
      /\ Append(q, r)[Len(q) + 1] = r
      /\ DOMAIN q = 1..Len(q) /\ Len(q) \in Nat
  OBVIOUS
<1> QED BY <1>1 DEF Plain

LEMMA PlainTail ==
  ASSUME NEW q \in Seq(Report), Plain(q), q # <<>>
  PROVE  /\ Plain(Tail(q))
         /\ Head(q).type \notin {"session-started", "session-shutdown"}
<1>1. /\ DOMAIN Tail(q) = 1..(Len(q) - 1)
      /\ \A i \in 1..(Len(q) - 1) : Tail(q)[i] = q[i + 1]
      /\ Head(q) = q[1]
      /\ DOMAIN q = 1..Len(q) /\ Len(q) \in Nat \ {0}
  OBVIOUS
<1>2. \A i \in 1..(Len(q) - 1) : i + 1 \in DOMAIN q
  BY <1>1
<1>3. 1 \in DOMAIN q
  BY <1>1
<1> QED BY <1>1, <1>2, <1>3 DEF Plain

LEMMA NewIsPlain ==
  ASSUME TypeOK, NEW type \in ReportType \ {"session-started", "session-shutdown"},
         NEW by \in {"hook", "tool", "settle"}, NEW q \in Seq(Report), Plain(q)
  PROVE  Plain(Append(q, NewReport(type, by)))
<1> DEFINE new == NewReport(type, by)
<1>1. new \in Report
  BY NewReportIs DEF TypeOK
<1>2. new.type = type
  BY DEF NewReport
<1> HIDE DEF new
<1>3. Plain(Append(q, new))
  BY <1>1, <1>2, PlainAppend
<1> QED BY <1>3 DEF new

LEMMA ResolvedPlain ==
  ASSUME TypeOK, NEW report, NEW result, NEW rest \in Seq(Report), Plain(rest),
         Resolved(report, result, rest)
  PROVE  /\ Plain(outbox')
         /\ session' = "open" => session = "open"
<1>1. "heartbeat" \in ReportType \ {"session-started", "session-shutdown"}
  BY ReportTypes
<1>2. Plain(Append(rest, NewReport("heartbeat", "hook")))
  BY <1>1, NewIsPlain
<1>3. outbox' = rest \/ outbox' = Append(rest, NewReport("heartbeat", "hook"))
  BY DEF Resolved
<1> QED BY <1>2, <1>3 DEF Resolved

\* The controller does nothing and the child opens nothing.
LEMMA QuietStep ==
  ASSUME OverInv, UNCHANGED <<work, status>>, Plain(outbox'), CallKind',
         session' = "open" => session = "open", authenticated' => authenticated
  PROVE  OverInv'
<1>1. Over => Over'
  BY DEF Over
<1> QED BY <1>1 DEF OverInv, ClosingAt

LEMMA ReportsPlain ==
  ASSUME TypeOK, OverInv,
         NEW type \in ReportType \ {"session-started", "session-shutdown"},
         NEW by \in {"hook", "tool", "settle"}, Reports(type, by)
  PROVE  Plain(outbox')
<1>1. outbox' = Append(outbox, NewReport(type, by))
  BY DEF Reports
<1>2. outbox \in Seq(Report) /\ Plain(outbox)
  BY DEF TypeOK, OverInv
<1> QED BY <1>1, <1>2, NewIsPlain

LEMMA PlainTypes ==
  /\ {"operation-started", "operation-completed", "operation-failed",
      "heartbeat"} \subseteq ReportType \ {"session-started", "session-shutdown"}
  /\ Actions \subseteq ReportType \ {"session-started", "session-shutdown"}
  BY DEF ReportType, MessageType, ToolReport

\* The sub-steps that drop the request under way.
LEMMA DroppedQuietly ==
  ASSUME TypeOK, OverInv, OpenFails \/ ShutDown \/ LockedOut
  PROVE  /\ Plain(outbox') /\ CallKind'
         /\ session' = "open" => session = "open"
         /\ authenticated' => authenticated
<1>1. CallKind'
  BY NoCallFacts DEF OpenFails, ShutDown, LockedOut, CallKind
<1>2. CASE OpenFails \/ ShutDown
  BY <1>1, <1>2 DEF OpenFails, ShutDown, OverInv
<1>3. CASE LockedOut
  <2>1. Resolved(call.report, "failed", outbox) /\ authenticated' = FALSE
    BY <1>3 DEF LockedOut
  <2>2. outbox \in Seq(Report) /\ Plain(outbox)
    BY DEF TypeOK, OverInv
  <2>3. Plain(outbox') /\ (session' = "open" => session = "open")
    BY <2>1, <2>2, ResolvedPlain
  <2> QED BY <1>1, <2>1, <2>3
<1> QED BY <1>2, <1>3

LEMMA ChildIsQuiet ==
  ASSUME TypeOK, OverInv, Child, ~Kill
  PROVE  OverInv'
<1>1. Plain(outbox) /\ CallKind /\ outbox \in Seq(Report)
  BY DEF OverInv, TypeOK
<1>2. CASE Open
  <2>1. Plain(<<>>)
    BY DEF Plain
  <2>2. CallKind'
    BY <1>2 DEF Open, NewReport, CallKind
  <2> QED BY <1>2, <2>1, <2>2, QuietStep DEF Open, served
<1>3. CASE Lockdown \/ Quit
  BY <1>1, <1>3, QuietStep DEF Lockdown, Quit, served, CallKind
<1>4. CASE Hello \/ (Connect /\ up)
           \/ (Lost /\ call.for = "first" /\ call' = [call EXCEPT !.for = "retry",
                                                             !.step = "connect"]
               /\ outbox' = outbox /\ session' = session
               /\ authenticated' = authenticated)
  <2>1. /\ outbox' = outbox /\ session' = session
        /\ authenticated' = authenticated /\ UNCHANGED <<work, status>>
    BY <1>4 DEF Hello, Connect, Lost, served
  <2>2. CallKind'
    BY <1>1, <1>4 DEF Hello, Connect, CallKind, TypeOK, Call
  <2> QED BY <1>1, <2>1, <2>2, QuietStep
<1>5. CASE (Connect \/ Lost) /\ (OpenFails \/ ShutDown \/ LockedOut)
  <2>1. UNCHANGED <<work, status>>
    BY <1>5 DEF Connect, Lost, served
  <2> QED BY <1>5, <2>1, DroppedQuietly, QuietStep
<1>6. CASE Send
  <2>1. UNCHANGED <<work, status, authenticated>> /\ outbox # <<>>
    BY <1>6 DEF Send, served
  <2>2. /\ Plain(Tail(outbox)) /\ Tail(outbox) \in Seq(Report)
        /\ Head(outbox).type \notin {"session-started", "session-shutdown"}
    BY <1>1, <2>1, PlainTail
  <2>3. CASE authenticated
    <3>1. /\ call' = [for |-> "first", step |-> "sent", report |-> Head(outbox)]
          /\ outbox' = Tail(outbox) /\ session' = session
      BY <1>6, <2>3 DEF Send
    <3>2. CallKind'
      BY <2>2, <3>1 DEF CallKind
    <3> QED BY <2>1, <2>2, <3>1, <3>2, QuietStep
  <2>4. CASE ~authenticated
    <3>1. Resolved(Head(outbox), "dropped", Tail(outbox)) /\ call' = call
      BY <1>6, <2>4 DEF Send
    <3>2. Plain(outbox') /\ (session' = "open" => session = "open")
      BY <2>2, <3>1, ResolvedPlain
    <3>3. CallKind'
      BY <1>1, <3>1 DEF CallKind
    <3> QED BY <2>1, <3>2, <3>3, QuietStep
  <2> QED BY <2>3, <2>4 DEF TypeOK
<1>7. CASE Prompt \/ Progress \/ ToolEnds \/ Tool \/ Settle
  <2>1. /\ UNCHANGED <<work, status, authenticated, call>>
        /\ session' = "open" => session = "open"
    BY <1>7 DEF Prompt, Progress, ToolEnds, Tool, Settle, served
  <2>2. Plain(outbox')
    <3>1. CASE Prompt
      BY <1>1, <3>1, ReportsPlain, PlainTypes DEF Prompt
    <3>2. CASE Progress
      BY <3>2, ReportsPlain, PlainTypes DEF Progress
    <3>3. CASE ToolEnds
      BY <1>1, <3>3, ReportsPlain, PlainTypes DEF ToolEnds
    <3>4. CASE Tool
      BY <3>4, ReportsPlain, PlainTypes DEF Tool
    <3>5. CASE Settle
      BY <1>1, <3>5, ReportsPlain, PlainTypes DEF Settle
    <3> QED BY <1>7, <3>1, <3>2, <3>3, <3>4, <3>5
  <2>3. CallKind'
    BY <1>1, <2>1 DEF CallKind
  <2> QED BY <2>1, <2>2, <2>3, QuietStep
<1>8. CASE Goodbye
  <2>1. CallKind'
    BY <1>1, <1>8 DEF Goodbye, CallKind
  <2> QED BY <1>1, <1>8, <2>1, QuietStep DEF Goodbye, served
<1> QED
  <2>1. CASE Connect
    BY <1>4, <1>5, <2>1 DEF Connect
  <2>2. CASE Lost
    BY <1>4, <1>5, <2>2 DEF Lost
  <2> QED BY <1>2, <1>3, <1>4, <1>6, <1>7, <1>8, <2>1, <2>2 DEF Child

\* A connection closes, or a controller comes and goes.
LEMMA CutIsQuiet ==
  ASSUME TypeOK, OverInv, Drop \/ Crash \/ Restart
  PROVE  OverInv'
<1>1. /\ UNCHANGED <<session, authenticated, outbox, call, status>>
  BY DEF Drop, Crash, Restart, bridge
<1>2. Plain(outbox') /\ CallKind' /\ (status' = "closed" => Over')
      /\ (Over => Over')
  BY <1>1 DEF OverInv, CallKind, Over
<1>3. \A i \in DOMAIN work' : ClosingAt(i)'
  <2>1. CASE Drop
    <3>1. /\ work \in Seq(Request) /\ work' = Cut(work)
      BY <2>1 DEF TypeOK, Drop
    <3>2. /\ DOMAIN work' = DOMAIN work
          /\ \A i \in DOMAIN work :
               /\ work'[i].report = work[i].report
               /\ work'[i].outcome = work[i].outcome
      BY <3>1, CutRequests
    <3> QED BY <1>1, <1>2, <3>2 DEF OverInv, ClosingAt
  <2>2. CASE Crash
    BY <2>2 DEF Crash
  <2>3. CASE Restart
    BY <1>1, <1>2, <2>3 DEF Restart, OverInv, ClosingAt
  <2> QED BY <2>1, <2>2, <2>3
<1> QED BY <1>2, <1>3 DEF OverInv

LEMMA TakeClosing ==
  ASSUME SessionInv, OverInv, Take PROVE OverInv'
<1> DEFINE new == [report |-> call.report, live |-> TRUE, outcome |-> "none"]
<1>1. TypeOK /\ Phases /\ work \in Seq(Request)
  BY DEF SessionInv, TypeOK
<1>2. /\ new \in Request /\ new.report = call.report /\ new.outcome = "none"
  BY <1>1, CallFacts DEF Request
<1> HIDE DEF new
<1>3. /\ work' = Append(work, new) /\ call' = [call EXCEPT !.step = "taken"]
      /\ call.step = "sent"
      /\ UNCHANGED <<session, authenticated, outbox, status>>
  BY DEF Take, new
<1>4. Plain(outbox') /\ CallKind' /\ (status' = "closed" => Over')
      /\ (Over => Over')
  BY <1>1, <1>3 DEF OverInv, CallKind, Over, TypeOK, Call
<1>5. call.report.type = "session-shutdown" => Over
  <2>1. call.for \in {"open", "first", "retry", "last"}
    BY <1>1, <1>3, CallFacts DEF Phases, Purpose
  <2> QED BY <1>1, <2>1 DEF OverInv, CallKind, Phases, Over
<1>6. ASSUME NEW i \in DOMAIN work' PROVE ClosingAt(i)'
  <2>1. /\ DOMAIN work' = 1..(Len(work) + 1)
        /\ \A j \in DOMAIN work : work'[j] = work[j]
        /\ work'[Len(work) + 1] = new
        /\ DOMAIN work = 1..Len(work) /\ Len(work) \in Nat
    BY <1>1, <1>2, <1>3
  <2>2. CASE i = Len(work) + 1
    BY <1>2, <1>4, <1>5, <2>1, <2>2 DEF ClosingAt
  <2>3. CASE i \in DOMAIN work
    BY <1>3, <1>4, <2>1, <2>3 DEF OverInv, ClosingAt
  <2> QED BY <1>6, <2>1, <2>2, <2>3
<1> QED BY <1>4, <1>6 DEF OverInv

LEMMA KillClosing ==
  ASSUME SessionInv, OverInv, Kill PROVE OverInv'
<1> DEFINE left == [report |-> call.report, live |-> FALSE, outcome |-> "none"]
<1>1. TypeOK /\ work \in Seq(Request)
  BY DEF SessionInv, TypeOK
<1>2. /\ left \in Request /\ left.report = call.report /\ left.outcome = "none"
  BY <1>1, CallFacts DEF Request
<1> HIDE DEF left
<1>3. /\ session' = "ended" /\ authenticated' = FALSE
      /\ outbox' = <<>> /\ call' = NoCall /\ status' = status
      /\ work' = Cut(work) \/ work' = Append(Cut(work), left)
  BY DEF Kill, left
<1>4. Plain(outbox') /\ CallKind' /\ Over'
  BY <1>3, NoCallFacts DEF Plain, CallKind, Over
<1>5. /\ Cut(work) \in Seq(Request) /\ Len(Cut(work)) = Len(work)
      /\ DOMAIN Cut(work) = DOMAIN work
      /\ \A i \in DOMAIN work :
           /\ Cut(work)[i].report = work[i].report
           /\ Cut(work)[i].outcome = work[i].outcome
      /\ DOMAIN work = 1..Len(work) /\ Len(work) \in Nat
  <2>1. DOMAIN work = 1..Len(work) /\ Len(work) \in Nat
    BY <1>1
  <2> QED BY <1>1, <2>1, CutRequests
<1>6. ASSUME NEW i \in DOMAIN work' PROVE ClosingAt(i)'
  <2>1. CASE work' = Cut(work)
    BY <1>3, <1>4, <1>5, <1>6, <2>1 DEF OverInv, ClosingAt
  <2>2. CASE work' = Append(Cut(work), left)
    <3>1. /\ DOMAIN work' = 1..(Len(work) + 1)
          /\ \A j \in DOMAIN work : work'[j] = Cut(work)[j]
          /\ work'[Len(work) + 1] = left
      BY <1>2, <1>5, <2>2
    <3>2. CASE i = Len(work) + 1
      BY <1>2, <1>4, <3>1, <3>2 DEF ClosingAt
    <3>3. CASE i \in DOMAIN work
      BY <1>3, <1>4, <1>5, <3>1, <3>3 DEF OverInv, ClosingAt
    <3> QED BY <1>5, <1>6, <3>1, <3>2, <3>3
  <2> QED BY <1>3, <2>1, <2>2
<1> QED BY <1>4, <1>6 DEF OverInv

\* No message of a child closes its agent: only the lifecycle does.
LEMMA NotByMessage ==
  ASSUME NEW type \in ReportType, Accepted(type), ~Unchanged(type),
         type # "heartbeat"
  PROVE  /\ ApplyAgentMessage(status, type) # "closed"
         /\ status # "closed"
<1>1. type \in MessageType \ SignalMessage
  BY DEF ReportType, Unchanged
<1>2. type \in {"session-started", "operation-started", "operation-completed",
               "operation-failed", "agent-blocked", "agent-unblocked"}
  BY <1>1 DEF MessageType, SignalMessage
<1> DEFINE t == MessageTransition(type)
<1>3. t \in {"session-ready", "operation-started", "operation-finished",
             "agent-failed", "agent-blocked", "agent-unblocked"}
  BY <1>2 DEF MessageTransition
<1>4. MessageAccepted(status, type)
  BY DEF Accepted
<1>5. (type = "operation-completed" /\ status = "blocked") \/ status \in AgentFrom(t)
  BY <1>1, <1>4 DEF MessageAccepted
<1> HIDE DEF t
<1>6. AgentTo(t) # "closed"
  BY <1>3 DEF AgentTo
<1>7. "closed" \notin AgentFrom(t)
  BY <1>3 DEF AgentFrom
<1> QED BY <1>1, <1>5, <1>6, <1>7 DEF ApplyAgentMessage, t

LEMMA CommitClosing ==
  ASSUME SessionInv, OverInv, Commit PROVE OverInv'
<1> DEFINE type == work[1].report.type
<1>1. TypeOK
  BY DEF SessionInv
<1>2. /\ work \in Seq(Request) /\ work # <<>> /\ 1 \in DOMAIN work
      /\ type \in ReportType
      /\ UNCHANGED <<session, authenticated, outbox, call>>
  BY <1>1, CommitIs DEF bridge
<1>3. PICK outcome \in {"accepted", "refused", "failed"} :
        /\ work' = Decided(work, outcome) /\ work'[1].outcome = outcome
        /\ Committed(type, outcome)
  BY <1>1, CommitIs
<1>4. status' = "closed" => status = "closed"
  BY <1>2, <1>3, NotByMessage DEF Committed, StatusAfter
<1>5. outcome = "accepted" /\ type = "session-started" => status' # "closed"
  <2>1. SUFFICES ASSUME outcome = "accepted", type = "session-started"
                 PROVE  status' # "closed"
    OBVIOUS
  <2>2. Accepted(type) /\ status' = StatusAfter(type)
    BY <1>3, <2>1 DEF Committed
  <2>3. CASE Unchanged(type)
    BY <2>1, <2>2, <2>3 DEF StatusAfter, Unchanged, SignalMessage
  <2>4. CASE ~Unchanged(type)
    BY <1>2, <2>1, <2>2, <2>4, NotByMessage DEF StatusAfter
  <2> QED BY <2>3, <2>4
<1>6. /\ DOMAIN work' = DOMAIN work
      /\ \A i \in DOMAIN work :
           /\ work'[i].report = work[i].report
           /\ i # 1 => work'[i].outcome = work[i].outcome
  BY <1>2, <1>3, OutcomeRequests
<1> HIDE DEF type
<1>7. (Over => Over') /\ Plain(outbox') /\ CallKind'
      /\ (status' = "closed" => Over')
  BY <1>2, <1>4 DEF OverInv, Over, CallKind
<1>8. ASSUME NEW i \in DOMAIN work' PROVE ClosingAt(i)'
  <2>1. CASE i = 1
    BY <1>2, <1>3, <1>5, <1>6, <1>7, <2>1 DEF OverInv, ClosingAt, type
  <2>2. CASE i # 1
    BY <1>6, <1>7, <1>8, <2>2 DEF OverInv, ClosingAt
  <2> QED BY <2>1, <2>2
<1> QED BY <1>7, <1>8 DEF OverInv

LEMMA FinishClosing ==
  ASSUME SessionInv, OverInv, Finish PROVE OverInv'
<1>1. TypeOK /\ Phases /\ Requests /\ work \in Seq(Request) /\ work # <<>>
  BY DEF SessionInv, TypeOK, Finish
<1>2. /\ Head(work) = work[1] /\ work[1] \in Request /\ 1 \in DOMAIN work
      /\ work[1].outcome # "none" /\ work' = Tail(work)
      /\ Len(work) \in Nat \ {0} /\ DOMAIN work = 1..Len(work)
      /\ DOMAIN work' = 1..(Len(work) - 1)
      /\ \A i \in DOMAIN work' : work'[i] = work[i + 1] /\ i + 1 \in DOMAIN work
  BY <1>1 DEF Finish
<1>3. PICK result \in {"recorded", "refused"} :
        /\ IF Head(work).outcome = "accepted"
           THEN Lifecycle(Head(work).report.type, result)
           ELSE result = "refused" /\ UNCHANGED <<status, submitted>>
        /\ IF Head(work).live THEN Answered(result) ELSE UNCHANGED bridge
  BY DEF Finish
<1>4. /\ work[1].report.type = "session-shutdown" => Over
      /\ (work[1].report.type = "session-started"
            /\ work[1].outcome = "accepted" => status # "closed")
  BY <1>2 DEF OverInv, ClosingAt
<1>5. status' = "closed" =>
        status = "closed" \/ work[1].report.type = "session-shutdown"
  BY <1>2, <1>3 DEF Lifecycle
<1>6. ASSUME NEW i \in DOMAIN work'
      PROVE  /\ work'[i].outcome = "none"
             /\ work'[i].report.type = "session-shutdown" => Over
  BY <1>2, <1>6 DEF OverInv, ClosingAt
<1>7. CASE ~work[1].live
  <2>1. UNCHANGED bridge
    BY <1>2, <1>3, <1>7
  <2>2. (Over => Over') /\ Plain(outbox') /\ CallKind'
    BY <2>1 DEF bridge, Over, OverInv, CallKind
  <2>3. status' = "closed" => Over'
    BY <1>4, <1>5, <2>2 DEF OverInv
  <2>4. \A i \in DOMAIN work' : ClosingAt(i)'
    BY <1>6, <2>2 DEF ClosingAt
  <2> QED BY <2>2, <2>3, <2>4 DEF OverInv
<1>8. CASE work[1].live
  <2>1. /\ Len(work) = 1 /\ work[1].report = call.report /\ DOMAIN work' = {}
        /\ Answered(result) /\ call.step = "taken"
    BY <1>1, <1>2, <1>3, <1>8 DEF Requests, RequestAt
  <2>2. CASE call.for = "open" /\ result = "recorded"
    <3>1. call' = NoCall /\ outbox' = outbox
      BY <2>1, <2>2 DEF Answered
    <3>2. CallKind' /\ Plain(outbox')
      BY <3>1, NoCallFacts DEF CallKind, OverInv
    <3>3. /\ work[1].report.type = "session-started"
          /\ work[1].outcome = "accepted"
      BY <1>2, <1>3, <2>1, <2>2 DEF OverInv, CallKind, Request
    <3>4. status' # "closed"
      BY <1>4, <1>5, <3>3
    <3> QED BY <2>1, <3>2, <3>4 DEF OverInv
  <2>3. CASE ~(call.for = "open" /\ result = "recorded")
    <3>1. /\ Plain(outbox') /\ CallKind'
          /\ session' = "open" => session = "open"
          /\ authenticated' => authenticated
      <4>1. CASE OpenFails \/ ShutDown \/ LockedOut
        BY <1>1, <4>1, DroppedQuietly
      <4>2. CASE /\ call' = NoCall
                 /\ Resolved(call.report, result, outbox)
                 /\ UNCHANGED <<authenticated, connected, link, turn, base>>
        <5>1. outbox \in Seq(Report) /\ Plain(outbox)
          BY <1>1 DEF TypeOK, OverInv
        <5>2. CallKind'
          BY <4>2, NoCallFacts DEF CallKind
        <5> QED BY <1>1, <4>2, <5>1, <5>2, ResolvedPlain
      <4> QED BY <2>1, <2>3, <4>1, <4>2 DEF Answered
    <3>2. status' = "closed" => Over'
      BY <1>4, <1>5, <3>1 DEF OverInv, Over
    <3> QED BY <2>1, <3>1, <3>2 DEF OverInv
  <2> QED BY <2>2, <2>3
<1> QED BY <1>2, <1>7, <1>8 DEF Request

(* While a shutdown waits or an agent is closed, its session is over, and  *)
(* of the messages in the executor's chain only the first is in hand.      *)
THEOREM OverInvariance == Spec => []OverInv
<1>1. Init => OverInv
  <2>1. ASSUME Init PROVE OverInv
    <3>1. /\ outbox = <<>> /\ work = <<>> /\ call = NoCall /\ status = "launching"
      BY <2>1 DEF Init
    <3> QED BY <3>1, NoCallFacts DEF OverInv, Plain, CallKind
  <2> QED BY <2>1
<1>2. SessionInv /\ OverInv /\ [Next]_vars => OverInv'
  <2>1. SUFFICES ASSUME SessionInv, OverInv, Next \/ UNCHANGED vars
                 PROVE  OverInv'
    OBVIOUS
  <2>2. TypeOK
    BY <2>1 DEF SessionInv
  <2>3. CASE Child /\ ~Kill
    BY <2>1, <2>2, <2>3, ChildIsQuiet
  <2>4. CASE Kill
    BY <2>1, <2>4, KillClosing
  <2>5. CASE Controller
    BY <2>1, <2>2, <2>5, TakeClosing, CommitClosing, FinishClosing, CutIsQuiet
       DEF Controller
  <2>6. CASE UNCHANGED vars
    <3>1. Plain(outbox') /\ CallKind'
      BY <2>1, <2>6 DEF OverInv, CallKind, vars, bridge
    <3> QED BY <2>1, <2>6, <3>1, QuietStep DEF vars, bridge, served
  <2> QED BY <2>1, <2>3, <2>4, <2>5, <2>6 DEF Next
<1> QED BY <1>1, <1>2, ChildInvariance, PTL DEF Spec

(* Once the controller has closed an agent, no session of it is let in:    *)
(* whatever is left of an earlier session, and whatever a restored one     *)
(* asks, an authenticated or open session has an agent that is not closed. *)
THEOREM ClosedStaysOver == Spec => []ClosedIsOver
<1>1. OverInv => ClosedIsOver
  BY DEF OverInv, Over, ClosedIsOver
<1> QED BY <1>1, OverInvariance, PTL

-----------------------------------------------------------------------------
(* A turn that ended is seen to have ended.                                *)

NoStartIn(q) == \A i \in DOMAIN q : q[i].type # "operation-started"

EndIn(q) == \E i \in DOMAIN q : q[i].type \in Ends

NoToolIn(q) == \A i \in DOMAIN q : q[i].by # "tool"

\* Every start that waits is followed by an end that waits.
Ended(q) ==
  \A i \in DOMAIN q : q[i].type = "operation-started" =>
    (\E j \in DOMAIN q : i < j /\ q[j].type \in Ends)

\* No turn starts before the tools of the last one have returned.
ToolsLast(q) ==
  \A i, j \in DOMAIN q :
    (i < j /\ q[i].by = "tool") => q[j].type # "operation-started"

\* No hook and no tool reports this.
NoneUnblocks(q) == \A i \in DOMAIN q : q[i].type # "agent-unblocked"

\* Reports made by the child.
QueueInv ==
  /\ session = "opening" => outbox = <<>>
  /\ turn = "idle" => ToolsReturned
  /\ ToolsLast(outbox)
  /\ call.report.by = "tool" => NoStartIn(outbox)
  /\ NoneUnblocks(outbox) /\ call.report.type # "agent-unblocked"

\* Of an authenticated child only the request under way is in the chain, once
\* or twice.
OwnRequest(i) == work[i].report = call.report /\ call.for # "none"

EndCommitted(i) ==
  (work[i].outcome # "none" /\ work[i].report.type \in Ends)
    => status # "working" \/ unrecorded

ChainInv ==
  /\ \A i \in DOMAIN work :
       (work[i].report.type = "session-started" /\ work[i].outcome = "accepted")
         => status = "idle"
  /\ authenticated => \A i \in DOMAIN work : OwnRequest(i) /\ EndCommitted(i)

\* A child at rest has reported the end of every operation.
AtRest ==
  /\ Ended(outbox)
  /\ call.report.type = "operation-started" => EndIn(outbox)
  /\ status = "working" =>
       call.report.type \in Ends \/ EndIn(outbox) \/ unrecorded

\* A turn whose end a tool has reported has no end to report.
EndReported ==
  /\ status # "working" \/ unrecorded
  /\ call.report.type # "operation-started" /\ NoStartIn(outbox)

TurnInv ==
  authenticated => /\ turn = "idle" => AtRest
                   /\ terminal => EndReported

RestInv == QueueInv /\ ChainInv /\ TurnInv

LEMMA ReportJoins ==
  ASSUME NEW q \in Seq(Report), NEW r \in Report
  PROVE  LET s == Append(q, r) IN
         /\ r.type \in Ends => EndIn(s) /\ Ended(s)
         /\ EndIn(q) => EndIn(s)
         /\ NoToolIn(q) => ToolsLast(s)
         /\ NoToolIn(q) /\ r.by # "tool" => NoToolIn(s)
         /\ NoneUnblocks(q) /\ r.type # "agent-unblocked" => NoneUnblocks(s)
         /\ r.type # "operation-started" =>
              /\ NoStartIn(q) => NoStartIn(s)
              /\ Ended(q) => Ended(s)
              /\ ToolsLast(q) => ToolsLast(s)
<1> DEFINE s == Append(q, r)
<1>1. /\ DOMAIN s = 1..(Len(q) + 1) /\ DOMAIN q = 1..Len(q)
      /\ \A i \in 1..Len(q) : s[i] = q[i]
      /\ s[Len(q) + 1] = r
      /\ Len(q) \in Nat
  OBVIOUS
<1>2. "operation-started" \notin Ends
  BY DEF Ends
<1> HIDE DEF s
<1>3. /\ r.type \in Ends => EndIn(s)
      /\ EndIn(q) => EndIn(s)
  BY <1>1 DEF EndIn
<1>4. ASSUME r.type \in Ends PROVE Ended(s)
  <2>1. SUFFICES ASSUME NEW i \in DOMAIN s, s[i].type = "operation-started"
                 PROVE  \E j \in DOMAIN s : i < j /\ s[j].type \in Ends
    BY DEF Ended
  <2>2. i # Len(q) + 1 /\ i < Len(q) + 1
    BY <1>1, <1>2, <1>4, <2>1
  <2> QED BY <1>1, <1>4, <2>2
<1>5. /\ NoToolIn(q) => ToolsLast(s)
      /\ NoToolIn(q) /\ r.by # "tool" => NoToolIn(s)
  BY <1>1 DEF NoToolIn, ToolsLast
<1>6. NoneUnblocks(q) /\ r.type # "agent-unblocked" => NoneUnblocks(s)
  BY <1>1 DEF NoneUnblocks
<1>7. ASSUME r.type # "operation-started"
      PROVE  /\ NoStartIn(q) => NoStartIn(s)
             /\ ToolsLast(q) => ToolsLast(s)
  BY <1>1, <1>7 DEF NoStartIn, ToolsLast
<1>8. ASSUME r.type # "operation-started", Ended(q) PROVE Ended(s)
  <2>1. SUFFICES ASSUME NEW i \in DOMAIN s, s[i].type = "operation-started"
                 PROVE  \E j \in DOMAIN s : i < j /\ s[j].type \in Ends
    BY DEF Ended
  <2>2. i \in DOMAIN q /\ q[i].type = "operation-started"
    BY <1>1, <1>8, <2>1
  <2>3. PICK j \in DOMAIN q : i < j /\ q[j].type \in Ends
    BY <1>8, <2>2 DEF Ended
  <2> QED BY <1>1, <2>3
<1> QED BY <1>3, <1>4, <1>5, <1>6, <1>7, <1>8 DEF s

LEMMA ReportLeaves ==
  ASSUME NEW q \in Seq(Report), q # <<>>
  PROVE  LET s == Tail(q)
             r == Head(q)
         IN  /\ NoStartIn(q) => NoStartIn(s) /\ r.type # "operation-started"
             /\ NoToolIn(q) => NoToolIn(s) /\ r.by # "tool"
             /\ NoneUnblocks(q) => NoneUnblocks(s) /\ r.type # "agent-unblocked"
             /\ EndIn(q) => r.type \in Ends \/ EndIn(s)
             /\ ToolsLast(q) =>
                  ToolsLast(s) /\ (r.by = "tool" => NoStartIn(s))
             /\ Ended(q) =>
                  Ended(s) /\ (r.type = "operation-started" => EndIn(s))
<1> DEFINE s == Tail(q)
           r == Head(q)
<1>1. /\ DOMAIN s = 1..(Len(q) - 1) /\ DOMAIN q = 1..Len(q)
      /\ \A i \in 1..(Len(q) - 1) : s[i] = q[i + 1]
      /\ r = q[1]
      /\ Len(q) \in Nat \ {0}
  OBVIOUS
<1> HIDE DEF s, r
<1>2. /\ \A i \in DOMAIN s : i + 1 \in DOMAIN q /\ s[i] = q[i + 1]
      /\ 1 \in DOMAIN q
  BY <1>1
<1>3. \A i \in DOMAIN q : i # 1 => i - 1 \in DOMAIN s /\ s[i - 1] = q[i]
  <2>1. SUFFICES ASSUME NEW i \in DOMAIN q, i # 1
                 PROVE  i - 1 \in DOMAIN s /\ s[i - 1] = q[i]
    OBVIOUS
  <2>2. i - 1 \in 1..(Len(q) - 1) /\ (i - 1) + 1 = i
    BY <1>1, <2>1
  <2> QED BY <1>1, <2>2
<1>4. /\ NoStartIn(q) => NoStartIn(s) /\ r.type # "operation-started"
      /\ NoToolIn(q) => NoToolIn(s) /\ r.by # "tool"
      /\ NoneUnblocks(q) => NoneUnblocks(s) /\ r.type # "agent-unblocked"
  BY <1>1, <1>2 DEF NoStartIn, NoToolIn, NoneUnblocks
<1>5. EndIn(q) => r.type \in Ends \/ EndIn(s)
  BY <1>1, <1>3 DEF EndIn
<1>6. ASSUME ToolsLast(q)
      PROVE  ToolsLast(s) /\ (r.by = "tool" => NoStartIn(s))
  <2>1. \A i, j \in DOMAIN s : i < j => i + 1 < j + 1
    BY <1>1
  <2>2. \A j \in DOMAIN s : 1 < j + 1
    BY <1>1
  <2> QED BY <1>1, <1>2, <1>6, <2>1, <2>2 DEF ToolsLast, NoStartIn
<1>7. ASSUME Ended(q)
      PROVE  Ended(s) /\ (r.type = "operation-started" => EndIn(s))
  <2>1. ASSUME NEW i \in DOMAIN s, s[i].type = "operation-started"
        PROVE  \E j \in DOMAIN s : i < j /\ s[j].type \in Ends
    <3>1. PICK j \in DOMAIN q : i + 1 < j /\ q[j].type \in Ends
      BY <1>2, <1>7, <2>1 DEF Ended
    <3>2. j # 1 /\ i < j - 1
      BY <1>1, <2>1, <3>1
    <3> QED BY <1>3, <3>1, <3>2
  <2>2. ASSUME r.type = "operation-started" PROVE EndIn(s)
    <3>1. PICK j \in DOMAIN q : 1 < j /\ q[j].type \in Ends
      BY <1>1, <1>2, <1>7, <2>2 DEF Ended
    <3> QED BY <1>1, <1>3, <3>1 DEF EndIn
  <2> QED BY <2>1, <2>2 DEF Ended
<1> QED BY <1>4, <1>5, <1>6, <1>7 DEF s, r

LEMMA NothingInIt ==
  /\ NoStartIn(<<>>) /\ NoToolIn(<<>>) /\ NoneUnblocks(<<>>)
  /\ ToolsLast(<<>>) /\ Ended(<<>>) /\ ~EndIn(<<>>)
  BY DEF NoStartIn, NoToolIn, NoneUnblocks, ToolsLast, Ended, EndIn

LEMMA NoCallReport ==
  /\ NoCall.for = "none"
  /\ NoCall.report.by = "hook" /\ NoCall.report.type = "heartbeat"
  /\ "heartbeat" \notin Ends
  BY DEF NoCall, Ends

\* What a message makes of the status of its agent.
LEMMA StatusBecomes ==
  ASSUME NEW type \in ReportType, type # "agent-unblocked"
  PROVE  /\ StatusAfter(type) = "working" =>
              status = "working" \/ type = "operation-started"
         /\ type \in Ends => StatusAfter(type) # "working"
         /\ type \in Ends /\ ~Accepted(type) => status # "working"
         /\ type = "session-started" => StatusAfter(type) = "idle"
<1>1. CASE type \in SignalMessage \cup {"heartbeat"}
  BY <1>1 DEF SignalMessage, Unchanged, Ends, StatusAfter
<1>2. CASE type = "session-started"
  <2>1. ApplyAgentMessage(status, type) = "idle"
    BY <1>2 DEF ApplyAgentMessage, SignalMessage, MessageTransition, AgentTo
  <2>2. Unchanged(type) => status = "idle"
    BY <1>2 DEF Unchanged, SignalMessage
  <2> QED BY <1>2, <2>1, <2>2 DEF Ends, StatusAfter
<1>3. CASE type = "operation-started"
  BY <1>3 DEF Ends
<1>4. CASE type \in Ends
  <2>1. ~Accepted(type) => status # "working"
    BY <1>4 DEF Ends, Accepted, MessageAccepted, MessageTransition,
                AgentFrom, AgentStatus, SignalMessage
  <2>2. Unchanged(type) => status # "working"
    BY <1>4 DEF Ends, Unchanged, SignalMessage
  <2>3. ApplyAgentMessage(status, type) # "working" /\ type # "heartbeat"
    BY <1>4 DEF Ends, ApplyAgentMessage, SignalMessage, MessageTransition,
                AgentTo
  <2> QED BY <1>4, <2>1, <2>2, <2>3 DEF Ends, StatusAfter
<1> QED BY <1>1, <1>2, <1>3, <1>4 DEF ReportType, MessageType, SignalMessage,
                                      Ends

\* The queue is as q, or that and a report of progress.
KeepsQueue(q) ==
  /\ NoStartIn(q) => NoStartIn(outbox')
  /\ NoToolIn(q) => NoToolIn(outbox')
  /\ NoneUnblocks(q) => NoneUnblocks(outbox')
  /\ EndIn(q) => EndIn(outbox')
  /\ ToolsLast(q) => ToolsLast(outbox')
  /\ Ended(q) => Ended(outbox')

LEMMA ReportedIs ==
  ASSUME TypeOK, NEW type \in ReportType, NEW by \in {"hook", "tool", "settle"}
  PROVE  /\ NewReport(type, by) \in Report
         /\ NewReport(type, by).type = type /\ NewReport(type, by).by = by
  BY DEF NewReport, Report, TypeOK

LEMMA ProgressQueue ==
  ASSUME TypeOK, NEW q \in Seq(Report),
         outbox' = q \/ outbox' = Append(q, NewReport("heartbeat", "hook"))
  PROVE  KeepsQueue(q)
<1>1. "heartbeat" \in ReportType
  BY ReportTypes
<1> DEFINE new == NewReport("heartbeat", "hook")
<1>2. new \in Report /\ new.type = "heartbeat" /\ new.by = "hook"
  BY <1>1, ReportedIs
<1> HIDE DEF new
<1>3. CASE outbox' = q
  BY <1>3 DEF KeepsQueue
<1>4. CASE outbox' = Append(q, new)
  BY <1>2, <1>4, ReportJoins DEF KeepsQueue
<1> QED BY <1>3, <1>4 DEF new

LEMMA ResolvedQueue ==
  ASSUME TypeOK, NEW report, NEW result, NEW rest \in Seq(Report),
         Resolved(report, result, rest)
  PROVE  /\ KeepsQueue(rest)
         /\ session' = "opening" => session = "opening"
         /\ terminal' =>
              \/ terminal
              \/ report.by = "tool" /\ report.type \in Ends
  BY ProgressQueue DEF Resolved, Ends

\* The sub-steps after which the child is not authenticated.
Dropped ==
  \/ call.for = "open" /\ OpenFails
  \/ call.for = "last" /\ ShutDown
  \/ call.for = "retry" /\ LockedOut

LEMMA DroppedRest ==
  ASSUME TypeOK, Phases, QueueInv, Dropped
  PROVE  QueueInv' /\ ~authenticated'
<1>1. outbox \in Seq(Report) /\ (turn = "idle" => NoToolIn(outbox))
  BY DEF TypeOK, QueueInv, ToolsReturned, NoToolIn
<1>2. KeepsQueue(outbox) /\ (session' = "opening" => outbox' = <<>>)
      /\ turn' = turn /\ call' = NoCall /\ ~authenticated'
  <2>1. CASE call.for = "open" /\ OpenFails
    BY <1>1, <2>1, ProgressQueue DEF OpenFails, Phases
  <2>2. CASE call.for = "last" /\ ShutDown
    BY <1>1, <2>2, ProgressQueue DEF ShutDown, Phases
  <2>3. CASE call.for = "retry" /\ LockedOut
    <3>1. Resolved(call.report, "failed", outbox) /\ session # "opening"
      BY <2>3 DEF LockedOut, Phases
    <3> QED BY <1>1, <2>3, <3>1, ResolvedQueue DEF LockedOut
  <2> QED BY <2>1, <2>2, <2>3 DEF Dropped
<1> QED BY <1>1, <1>2, NoCallReport
       DEF QueueInv, KeepsQueue, ToolsReturned, NoToolIn

\* The controller does nothing.
LEMMA QuietRest ==
  ASSUME ChainInv, UNCHANGED <<work, status, unrecorded>>, QueueInv',
         ~authenticated'
  PROVE  RestInv'
  BY DEF ChainInv, RestInv, TurnInv

LEMMA ChainStays ==
  ASSUME ChainInv, UNCHANGED <<work, status, unrecorded>>,
         authenticated' => authenticated,
         call'.report = call.report, call.for # "none" => call'.for # "none"
  PROVE  ChainInv'
  BY DEF ChainInv, OwnRequest, EndCommitted

\* The steps that make, send and give up reports.
LEMMA OpenRests ==
  ASSUME SessionInv, RestInv, Open \/ Lockdown \/ Quit \/ Goodbye
  PROVE  RestInv'
<1>1. TypeOK /\ Phases /\ QueueInv /\ ChainInv /\ TurnInv
  BY DEF SessionInv, RestInv
<1>2. CASE Open
  <2>1. QueueInv'
    BY <1>2, NothingInIt DEF Open, NewReport, QueueInv, ToolsReturned
  <2> QED BY <1>1, <1>2, <2>1, QuietRest DEF Open, served
<1>3. CASE Lockdown
  <2>1. QueueInv'
    BY <1>1, <1>3 DEF Lockdown, QueueInv, ToolsReturned
  <2> QED BY <1>1, <1>3, <2>1, QuietRest DEF Lockdown, Phases, served
<1>4. CASE Quit
  <2>1. QueueInv' /\ ChainInv'
    BY <1>1, <1>4, ChainStays DEF Quit, QueueInv, ToolsReturned, served
  <2>2. TurnInv'
    BY <1>1, <1>4 DEF Quit, TurnInv, AtRest, EndReported, served
  <2> QED BY <2>1, <2>2 DEF RestInv
<1>5. CASE Goodbye
  <2>1. call' = NoCall \/ call'.report = NewReport("session-shutdown", "hook")
    BY <1>5 DEF Goodbye
  <2>2. call'.report.by = "hook" /\ call'.report.type # "agent-unblocked"
    BY <2>1, NoCallReport DEF NewReport
  <2>3. outbox' = <<>> /\ ~authenticated'
        /\ UNCHANGED <<work, status, unrecorded>>
    BY <1>5 DEF Goodbye, served
  <2>4. QueueInv'
    BY <2>2, <2>3, NothingInIt DEF QueueInv, ToolsReturned
  <2> QED BY <1>1, <2>3, <2>4, QuietRest
<1> QED BY <1>2, <1>3, <1>4, <1>5

LEMMA CallRests ==
  ASSUME SessionInv, RestInv, Connect \/ Hello \/ Lost
  PROVE  RestInv'
<1>1. TypeOK /\ Phases /\ QueueInv /\ ChainInv /\ TurnInv /\ call \in Call
  BY DEF SessionInv, RestInv, TypeOK
<1>2. UNCHANGED <<work, status, unrecorded>>
  BY DEF Connect, Hello, Lost, served
<1>3. CASE Dropped
  BY <1>1, <1>2, <1>3, DroppedRest, QuietRest
<1>4. CASE /\ UNCHANGED <<session, authenticated, turn, terminal, outbox>>
           /\ call'.report = call.report
           /\ call.for # "none" => call'.for # "none"
  <2>1. QueueInv'
    BY <1>1, <1>4 DEF QueueInv, ToolsReturned
  <2>2. ChainInv'
    BY <1>1, <1>2, <1>4, ChainStays
  <2>3. TurnInv'
    BY <1>1, <1>2, <1>4 DEF TurnInv, AtRest, EndReported
  <2> QED BY <2>1, <2>2, <2>3 DEF RestInv
<1>5. CASE Connect
  BY <1>1, <1>3, <1>4, <1>5 DEF Connect, Dropped, Call
<1>6. CASE Hello
  BY <1>1, <1>4, <1>6 DEF Hello, Call
<1>7. CASE Lost
  BY <1>1, <1>3, <1>4, <1>7 DEF Lost, Dropped, Call
<1> QED BY <1>5, <1>6, <1>7

LEMMA SendRests ==
  ASSUME SessionInv, RestInv, Send
  PROVE  RestInv'
<1> DEFINE head == Head(outbox)
           rest == Tail(outbox)
<1>1. /\ TypeOK /\ QueueInv /\ ChainInv /\ TurnInv
      /\ outbox \in Seq(Report) /\ outbox # <<>>
  BY DEF SessionInv, RestInv, TypeOK, Send
<1>2. rest \in Seq(Report)
  BY <1>1
<1>3. /\ call = NoCall /\ session \in {"open", "closing", "shutting"}
      /\ UNCHANGED <<authenticated, turn, work, status, unrecorded>>
  BY DEF Send, served
<1>4. /\ NoStartIn(outbox) => NoStartIn(rest) /\ head.type # "operation-started"
      /\ NoToolIn(outbox) => NoToolIn(rest) /\ head.by # "tool"
      /\ NoneUnblocks(outbox) =>
           NoneUnblocks(rest) /\ head.type # "agent-unblocked"
      /\ EndIn(outbox) => head.type \in Ends \/ EndIn(rest)
      /\ ToolsLast(outbox) =>
           ToolsLast(rest) /\ (head.by = "tool" => NoStartIn(rest))
      /\ Ended(outbox) =>
           Ended(rest) /\ (head.type = "operation-started" => EndIn(rest))
  BY <1>1, ReportLeaves
<1>5. turn = "idle" => NoToolIn(outbox)
  BY <1>1 DEF QueueInv, ToolsReturned, NoToolIn
<1>6. CASE authenticated
  <2>1. /\ call'.report = head /\ call'.for = "first" /\ outbox' = rest
        /\ UNCHANGED <<session, terminal>>
    BY <1>6 DEF Send
  <2> HIDE DEF head, rest
  <2>2. QueueInv'
    <3>1. session' # "opening"
      BY <1>3, <2>1
    <3>2. turn' = "idle" => ToolsReturned'
      BY <1>3, <1>4, <1>5, <2>1 DEF ToolsReturned, NoToolIn
    <3> QED BY <1>1, <1>4, <2>1, <3>1, <3>2 DEF QueueInv
  <2>3. work = <<>> \/ DOMAIN work = {}
    BY <1>1, <1>3, <1>6, NoCallReport DEF ChainInv, OwnRequest
  <2>4. ChainInv'
    BY <1>3, <2>3 DEF ChainInv
  <2>5. TurnInv'
    <3>1. ASSUME turn = "idle" PROVE AtRest'
      <4>1. AtRest /\ call.report.type \notin Ends
        BY <1>1, <1>3, <1>6, <3>1, NoCallReport DEF TurnInv
      <4> QED BY <1>3, <1>4, <2>1, <4>1 DEF AtRest
    <3>2. ASSUME terminal PROVE EndReported'
      BY <1>1, <1>3, <1>4, <1>6, <2>1, <3>2 DEF TurnInv, EndReported
    <3> QED BY <1>3, <2>1, <3>1, <3>2 DEF TurnInv
  <2> QED BY <2>2, <2>4, <2>5 DEF RestInv
<1>7. CASE ~authenticated
  <2>1. Resolved(head, "dropped", rest) /\ call' = call
    BY <1>7 DEF Send
  <2> HIDE DEF head, rest
  <2>2. KeepsQueue(rest) /\ (session' = "opening" => session = "opening")
    BY <1>1, <1>2, <2>1, ResolvedQueue
  <2>3. QueueInv'
    <3>1. turn' = "idle" => ToolsReturned'
      BY <1>3, <1>4, <1>5, <2>1, <2>2, NoCallReport
         DEF ToolsReturned, NoToolIn, KeepsQueue
    <3> QED BY <1>1, <1>3, <1>4, <2>1, <2>2, <3>1, NoCallReport
            DEF QueueInv, KeepsQueue
  <2> QED BY <1>1, <1>3, <1>7, <2>3, QuietRest
<1> QED BY <1>6, <1>7

\* The steps of a turn.
LEMMA TurnRests ==
  ASSUME SessionInv, RestInv, Prompt \/ Progress \/ ToolEnds \/ Tool \/ Settle
  PROVE  RestInv'
<1>1. /\ TypeOK /\ Phases /\ QueueInv /\ ChainInv /\ TurnInv
      /\ outbox \in Seq(Report)
  BY DEF SessionInv, RestInv, TypeOK
<1>2. /\ UNCHANGED <<authenticated, call, work, status, unrecorded>>
      /\ session \in {"open", "closing"} /\ session' # "opening"
  BY <1>1 DEF Prompt, Progress, ToolEnds, Tool, Settle, served, Phases
<1>3. ChainInv'
  BY <1>1, <1>2, ChainStays
<1>4. turn = "idle" => NoToolIn(outbox) /\ call.report.by # "tool"
  BY <1>1 DEF QueueInv, ToolsReturned, NoToolIn
<1>5. CASE Prompt /\ authenticated
  <2> DEFINE new == NewReport("operation-started", "hook")
  <2>1. /\ outbox' = Append(outbox, new) /\ turn = "idle"
        /\ turn' = "running" /\ terminal' = FALSE
    BY <1>5 DEF Prompt, Reports
  <2>2. new \in Report /\ new.type # "agent-unblocked"
    BY <1>1, ReportedIs, ReportTypes
  <2> HIDE DEF new
  <2>3. ToolsLast(outbox') /\ NoneUnblocks(outbox')
    BY <1>1, <1>4, <2>1, <2>2, ReportJoins DEF QueueInv
  <2>4. QueueInv'
    BY <1>1, <1>2, <1>4, <2>1, <2>3 DEF QueueInv
  <2>5. TurnInv'
    BY <2>1 DEF TurnInv
  <2> QED BY <1>3, <2>4, <2>5 DEF RestInv
<1>6. CASE Prompt /\ ~authenticated
  <2>1. QueueInv' /\ ~authenticated'
    BY <1>1, <1>2, <1>6 DEF Prompt, QueueInv, ToolsReturned
  <2> QED BY <1>1, <1>2, <2>1, QuietRest
<1>7. CASE Progress \/ ToolEnds
  <2>1. /\ turn' = "running" /\ terminal' = terminal
        /\ outbox' = outbox
           \/ outbox' = Append(outbox, NewReport("heartbeat", "hook"))
    BY <1>7 DEF Progress, ToolEnds, Reports
  <2>2. KeepsQueue(outbox)
    BY <1>1, <2>1, ProgressQueue
  <2>3. QueueInv'
    BY <1>1, <1>2, <2>1, <2>2 DEF QueueInv, KeepsQueue
  <2>4. TurnInv'
    BY <1>1, <1>2, <2>1, <2>2 DEF TurnInv, EndReported, KeepsQueue
  <2> QED BY <1>3, <2>3, <2>4 DEF RestInv
<1>8. CASE Tool
  <2>1. PICK type \in Actions : Reports(type, "tool")
    BY <1>8 DEF Tool
  <2> DEFINE new == NewReport(type, "tool")
  <2>2. /\ outbox' = Append(outbox, new)
        /\ turn' = "running" /\ terminal' = terminal
    BY <1>8, <2>1 DEF Tool, Reports
  <2>3. /\ new \in Report /\ new.type # "agent-unblocked"
        /\ new.type # "operation-started"
    <3>1. type \in ToolReport /\ type \in ReportType
      BY ReportTypes, ActionsAssumption
    <3> QED BY <1>1, <3>1, ReportedIs DEF ToolReport
  <2> HIDE DEF new
  <2>4. /\ NoStartIn(outbox) => NoStartIn(outbox')
        /\ ToolsLast(outbox) => ToolsLast(outbox')
        /\ NoneUnblocks(outbox) => NoneUnblocks(outbox')
    BY <1>1, <2>2, <2>3, ReportJoins
  <2>5. QueueInv'
    BY <1>1, <1>2, <2>2, <2>4 DEF QueueInv
  <2>6. TurnInv'
    BY <1>1, <1>2, <2>2, <2>4 DEF TurnInv, EndReported
  <2> QED BY <1>3, <2>5, <2>6 DEF RestInv
<1>9. CASE Settle
  <2>1. /\ turn' = "idle" /\ NoToolIn(outbox) /\ call.report.by # "tool"
    BY <1>9 DEF Settle, ToolsReturned, NoToolIn
  <2>2. CASE terminal
    <3>1. outbox' = outbox /\ terminal' = FALSE
      BY <1>9, <2>2 DEF Settle
    <3>2. QueueInv'
      BY <1>1, <1>2, <2>1, <3>1 DEF QueueInv, ToolsReturned, NoToolIn
    <3>3. ASSUME authenticated PROVE AtRest'
      <4>1. EndReported
        BY <1>1, <2>2, <3>3 DEF TurnInv
      <4> QED BY <1>2, <3>1, <4>1 DEF EndReported, AtRest, Ended, NoStartIn
    <3>4. TurnInv'
      BY <1>2, <3>1, <3>3 DEF TurnInv
    <3> QED BY <1>3, <3>2, <3>4 DEF RestInv
  <2>3. CASE ~terminal
    <3>1. PICK type \in {"operation-failed", "operation-completed"} :
            Reports(type, "settle") /\ ~terminal'
      BY <1>9, <2>3 DEF Settle
    <3> DEFINE new == NewReport(type, "settle")
    <3>2. outbox' = Append(outbox, new)
      BY <3>1 DEF Reports
    <3>3. /\ new \in Report /\ new.type \in Ends /\ new.by # "tool"
          /\ new.type # "agent-unblocked"
      BY <1>1, ReportedIs, ReportTypes DEF Ends
    <3> HIDE DEF new
    <3>4. /\ ToolsLast(outbox') /\ NoToolIn(outbox')
          /\ EndIn(outbox') /\ Ended(outbox')
          /\ NoneUnblocks(outbox) => NoneUnblocks(outbox')
      BY <1>1, <2>1, <3>2, <3>3, ReportJoins
    <3>5. QueueInv'
      BY <1>1, <1>2, <2>1, <3>4 DEF QueueInv, ToolsReturned, NoToolIn
    <3>6. TurnInv'
      BY <3>1, <3>4 DEF TurnInv, AtRest
    <3> QED BY <1>3, <3>5, <3>6 DEF RestInv
  <2> QED BY <2>2, <2>3
<1> QED BY <1>5, <1>6, <1>7, <1>8, <1>9

\* The connection closes, or the controller or the child dies.
LEMMA CutRests ==
  ASSUME SessionInv, RestInv, Drop \/ Crash \/ Restart \/ Kill
  PROVE  RestInv'
<1>1. TypeOK /\ QueueInv /\ ChainInv /\ TurnInv /\ work \in Seq(Request)
  BY DEF SessionInv, RestInv, TypeOK
<1>2. /\ DOMAIN Cut(work) = DOMAIN work
      /\ \A i \in DOMAIN work : /\ Cut(work)[i].report = work[i].report
                                /\ Cut(work)[i].outcome = work[i].outcome
  BY <1>1, CutRequests
<1>3. UNCHANGED <<status, unrecorded>>
  BY DEF Drop, Crash, Restart, Kill
<1>4. CASE Drop \/ Crash \/ Restart
  <2>1. UNCHANGED <<session, authenticated, turn, terminal, outbox, call>>
    BY <1>4 DEF Drop, Crash, Restart, bridge
  <2>2. QueueInv' /\ TurnInv'
    BY <1>1, <1>3, <2>1
       DEF QueueInv, ToolsReturned, TurnInv, AtRest, EndReported
  <2>3. work' = Cut(work) \/ work' = <<>> \/ work' = work
    BY <1>4 DEF Drop, Crash, Restart
  <2>4. ChainInv'
    BY <1>1, <1>2, <1>3, <2>1, <2>3 DEF ChainInv, OwnRequest, EndCommitted
  <2> QED BY <2>2, <2>4 DEF RestInv
<1>5. CASE Kill
  <2> DEFINE left == [report |-> call.report, live |-> FALSE,
                      outcome |-> "none"]
  <2>1. /\ session' = "ended" /\ ~authenticated'
        /\ outbox' = <<>> /\ call' = NoCall
        /\ work' = Cut(work) \/ work' = Append(Cut(work), left)
    BY <1>5 DEF Kill
  <2>2. left \in Request /\ left.outcome = "none"
    BY <1>1, CallFacts DEF Request
  <2> HIDE DEF left
  <2>3. QueueInv'
    BY <2>1, NoCallReport, NothingInIt DEF QueueInv, ToolsReturned
  <2>4. \A i \in DOMAIN work' :
          \/ work'[i].outcome = "none"
          \/ i \in DOMAIN work /\ work'[i] = Cut(work)[i]
    <3>1. CASE work' = Cut(work)
      BY <1>2, <3>1
    <3>2. CASE work' = Append(Cut(work), left)
      <4>1. Cut(work) \in Seq(Request)
        BY <1>1, CutRequests
      <4>2. /\ DOMAIN work' = 1..(Len(Cut(work)) + 1)
            /\ DOMAIN Cut(work) = 1..Len(Cut(work))
            /\ \A j \in 1..Len(Cut(work)) : work'[j] = Cut(work)[j]
            /\ work'[Len(Cut(work)) + 1] = left
            /\ Len(Cut(work)) \in Nat
        BY <2>2, <3>2, <4>1
      <4> QED BY <1>2, <2>2, <4>2
    <3> QED BY <2>1, <3>1, <3>2
  <2>5. ChainInv'
    BY <1>1, <1>2, <1>3, <2>1, <2>4 DEF ChainInv
  <2> QED BY <2>1, <2>3, <2>5 DEF RestInv, TurnInv
<1> QED BY <1>4, <1>5

LEMMA TakeRests ==
  ASSUME SessionInv, RestInv, Take
  PROVE  RestInv'
<1> DEFINE new == [report |-> call.report, live |-> TRUE, outcome |-> "none"]
<1>1. /\ TypeOK /\ Phases /\ QueueInv /\ ChainInv /\ TurnInv
      /\ work \in Seq(Request) /\ call \in Call
  BY DEF SessionInv, RestInv, TypeOK
<1>2. new \in Request /\ new.report = call.report /\ new.outcome = "none"
  BY <1>1, CallFacts DEF Request
<1> HIDE DEF new
<1>3. /\ work' = Append(work, new) /\ call' = [call EXCEPT !.step = "taken"]
      /\ call.step = "sent"
      /\ UNCHANGED <<session, authenticated, turn, terminal, outbox, status,
                     unrecorded>>
  BY DEF Take, new
<1>4. /\ call'.report = call.report /\ call'.for = call.for
      /\ call.for # "none"
  BY <1>1, <1>3 DEF Call, Phases
<1>5. QueueInv' /\ TurnInv'
  BY <1>1, <1>3, <1>4
     DEF QueueInv, ToolsReturned, TurnInv, AtRest, EndReported
<1>6. \A i \in DOMAIN work' :
        work'[i] = new \/ (i \in DOMAIN work /\ work'[i] = work[i])
  <2>1. /\ DOMAIN work' = 1..(Len(work) + 1) /\ DOMAIN work = 1..Len(work)
        /\ \A j \in 1..Len(work) : work'[j] = work[j]
        /\ work'[Len(work) + 1] = new
        /\ Len(work) \in Nat
    BY <1>1, <1>2, <1>3
  <2> QED BY <2>1
<1>7. ChainInv'
  BY <1>1, <1>2, <1>3, <1>4, <1>6 DEF ChainInv, OwnRequest, EndCommitted
<1> QED BY <1>5, <1>7 DEF RestInv

LEMMA CommitRests ==
  ASSUME SessionInv, OverInv, RestInv, Commit
  PROVE  RestInv'
<1> DEFINE type == work[1].report.type
<1>1. TypeOK /\ QueueInv /\ ChainInv /\ TurnInv
  BY DEF SessionInv, RestInv
<1>2. /\ work \in Seq(Request) /\ work # <<>> /\ 1 \in DOMAIN work
      /\ type \in ReportType
      /\ UNCHANGED <<session, authenticated, turn, terminal, outbox, call>>
  BY <1>1, CommitIs DEF bridge
<1>3. PICK outcome \in {"accepted", "refused", "failed"} :
        /\ work' = Decided(work, outcome) /\ work'[1].outcome = outcome
        /\ Committed(type, outcome)
  BY <1>1, CommitIs
<1>4. QueueInv'
  BY <1>1, <1>2 DEF QueueInv, ToolsReturned
<1>5. authenticated => type = call.report.type /\ type # "agent-unblocked"
  BY <1>1, <1>2 DEF ChainInv, OwnRequest, QueueInv
<1>6. type = "session-started" /\ outcome = "accepted" => status' = "idle"
  BY <1>2, <1>3, StatusBecomes DEF Committed
<1>7. authenticated =>
        /\ status' = "working" =>
             \/ type = "operation-started"
             \/ status = "working" /\ (unrecorded => unrecorded')
        /\ type \in Ends => status' # "working" \/ unrecorded'
  BY <1>2, <1>3, <1>5, StatusBecomes DEF Committed
<1> HIDE DEF type
<1>8. /\ DOMAIN work' = DOMAIN work
      /\ \A i \in DOMAIN work :
           /\ work'[i].report = work[i].report
           /\ i # 1 => work'[i].outcome = "none"
  <2>1. \A i \in DOMAIN work : i # 1 => work[i].outcome = "none"
    BY DEF OverInv, ClosingAt
  <2> QED BY <1>2, <1>3, <2>1, OutcomeRequests
<1>9. ChainInv'
  <2>1. \A i \in DOMAIN work' :
          (work'[i].report.type = "session-started"
             /\ work'[i].outcome = "accepted") => status' = "idle"
    BY <1>3, <1>6, <1>8 DEF type
  <2>2. ASSUME authenticated, NEW i \in DOMAIN work'
        PROVE  OwnRequest(i)' /\ EndCommitted(i)'
    BY <1>1, <1>2, <1>7, <1>8, <2>2 DEF ChainInv, OwnRequest, EndCommitted, type
  <2> QED BY <1>2, <2>1, <2>2 DEF ChainInv
<1>10. ASSUME authenticated, turn = "idle" PROVE AtRest'
  <2>1. AtRest
    BY <1>1, <1>10 DEF TurnInv
  <2> QED BY <1>2, <1>5, <1>7, <1>10, <2>1 DEF AtRest
<1>11. ASSUME authenticated, terminal PROVE EndReported'
  <2>1. EndReported
    BY <1>1, <1>11 DEF TurnInv
  <2> QED BY <1>2, <1>5, <1>7, <1>11, <2>1 DEF EndReported
<1> QED BY <1>2, <1>4, <1>9, <1>10, <1>11 DEF RestInv, TurnInv

LEMMA FinishRests ==
  ASSUME SessionInv, OverInv, RestInv, Finish
  PROVE  RestInv'
<1>1. /\ TypeOK /\ Phases /\ Requests /\ QueueInv /\ ChainInv /\ TurnInv
      /\ work \in Seq(Request) /\ work # <<>> /\ outbox \in Seq(Report)
  BY DEF SessionInv, RestInv, TypeOK, Finish
<1>2. /\ Head(work) = work[1] /\ work[1] \in Request /\ 1 \in DOMAIN work
      /\ work[1].outcome # "none" /\ work' = Tail(work)
      /\ Len(work) \in Nat \ {0} /\ DOMAIN work = 1..Len(work)
      /\ DOMAIN work' = 1..(Len(work) - 1)
      /\ \A i \in DOMAIN work' : work'[i] = work[i + 1] /\ i + 1 \in DOMAIN work
  BY <1>1 DEF Finish
<1>3. PICK result \in {"recorded", "refused"} :
        /\ IF Head(work).outcome = "accepted"
           THEN Lifecycle(Head(work).report.type, result)
           ELSE result = "refused" /\ UNCHANGED <<status, submitted>>
        /\ IF Head(work).live THEN Answered(result) ELSE UNCHANGED bridge
  BY DEF Finish
<1>4. (status' = status \/ status' = "closed") /\ unrecorded' = unrecorded
  BY <1>3 DEF Lifecycle, Finish
<1>5. \A i \in DOMAIN work' : work'[i].outcome = "none"
  BY <1>2 DEF OverInv, ClosingAt
<1>6. CASE ~work[1].live
  <2>1. UNCHANGED bridge
    BY <1>2, <1>3, <1>6
  <2>2. QueueInv' /\ TurnInv'
    BY <1>1, <1>4, <2>1
       DEF QueueInv, ToolsReturned, TurnInv, AtRest, EndReported, bridge
  <2>3. ChainInv'
    BY <1>1, <1>2, <1>5, <2>1 DEF ChainInv, OwnRequest, EndCommitted, bridge
  <2> QED BY <2>2, <2>3 DEF RestInv
<1>7. CASE work[1].live
  <2>1. /\ work[1].report = call.report /\ DOMAIN work' = {}
        /\ Answered(result)
    BY <1>1, <1>2, <1>3, <1>7 DEF Requests, RequestAt
  <2>2. ChainInv'
    BY <2>1 DEF ChainInv
  <2>3. CASE Dropped
    BY <1>1, <2>2, <2>3, DroppedRest DEF RestInv, TurnInv
  <2>4. CASE call.for = "open" /\ result = "recorded"
    <3>1. /\ session' = "open" /\ call' = NoCall
          /\ UNCHANGED <<turn, outbox>>
      BY <2>1, <2>4 DEF Answered
    <3>2. outbox = <<>>
      BY <1>1, <2>4 DEF Phases, QueueInv
    <3>3. status' # "working"
      <4>1. /\ work[1].report.type = "session-started"
            /\ work[1].outcome = "accepted"
        BY <1>2, <1>3, <2>1, <2>4 DEF OverInv, CallKind, Request
      <4> QED BY <1>1, <1>2, <1>4, <4>1 DEF ChainInv
    <3>4. QueueInv'
      BY <3>1, <3>2, NoCallReport, NothingInIt DEF QueueInv, ToolsReturned
    <3>5. AtRest' /\ EndReported'
      BY <3>1, <3>2, <3>3, NoCallReport, NothingInIt DEF AtRest, EndReported
    <3> QED BY <2>2, <3>4, <3>5 DEF RestInv, TurnInv
  <2>5. CASE /\ call.for \in {"first", "retry"} /\ call' = NoCall
             /\ Resolved(call.report, result, outbox)
             /\ UNCHANGED <<authenticated, connected, link, turn, base>>
    <3>1. /\ KeepsQueue(outbox)
          /\ session' # "opening"
          /\ terminal' => \/ terminal
                          \/ /\ call.report.by = "tool"
                             /\ call.report.type \in Ends
      BY <1>1, <2>5, ResolvedQueue DEF Phases
    <3>2. QueueInv'
      BY <1>1, <2>5, <3>1, NoCallReport
         DEF QueueInv, ToolsReturned, NoToolIn, KeepsQueue
    <3>3. authenticated /\ call.report.type \in Ends =>
            status # "working" \/ unrecorded
      BY <1>1, <1>2, <2>1 DEF ChainInv, EndCommitted
    <3>4. ASSUME authenticated, turn = "idle" PROVE AtRest'
      <4>1. AtRest
        BY <1>1, <3>4 DEF TurnInv
      <4> QED BY <1>4, <2>5, <3>1, <3>3, <3>4, <4>1, NoCallReport
              DEF AtRest, KeepsQueue
    <3>5. ASSUME authenticated, terminal' PROVE EndReported'
      <4>1. NoStartIn(outbox) /\ (status # "working" \/ unrecorded)
        BY <1>1, <3>1, <3>3, <3>5 DEF TurnInv, EndReported, QueueInv
      <4> QED BY <1>4, <2>5, <3>1, <4>1, NoCallReport
              DEF EndReported, KeepsQueue
    <3> QED BY <2>2, <2>5, <3>2, <3>4, <3>5 DEF RestInv, TurnInv
  <2> QED BY <2>1, <2>3, <2>4, <2>5 DEF Answered, Dropped
<1> QED BY <1>2, <1>6, <1>7 DEF Request

(* An authenticated child that is at rest is not held to be working: the   *)
(* controller has recorded the end of every operation it saw start,        *)
(* however the turn ended and whatever was sent twice, refused or cut off, *)
(* unless it was the end itself whose commit failed.                       *)
THEOREM EndIsSeen == Spec => []RestIsSeen
<1>1. Init => RestInv
  <2>1. ASSUME Init PROVE RestInv
    <3>1. /\ session = "none" /\ outbox = <<>> /\ call = NoCall /\ work = <<>>
          /\ ~authenticated
      BY <2>1 DEF Init
    <3> QED BY <3>1, NothingInIt, NoCallReport
            DEF RestInv, QueueInv, ToolsReturned, ChainInv, TurnInv
  <2> QED BY <2>1
<1>2. SessionInv /\ OverInv /\ RestInv /\ [Next]_vars => RestInv'
  <2>1. SUFFICES ASSUME SessionInv, OverInv, RestInv, Next \/ UNCHANGED vars
                 PROVE  RestInv'
    OBVIOUS
  <2>2. CASE Child
    BY <2>1, <2>2, OpenRests, CallRests, SendRests, TurnRests, CutRests DEF Child
  <2>3. CASE Controller
    BY <2>1, <2>3, TakeRests, CommitRests, FinishRests, CutRests DEF Controller
  <2>4. CASE UNCHANGED vars
    BY <2>1, <2>4
       DEF vars, bridge, served, RestInv, QueueInv, ToolsReturned, ChainInv,
           OwnRequest, EndCommitted, TurnInv, AtRest, EndReported
  <2> QED BY <2>1, <2>2, <2>3, <2>4 DEF Next
<1>3. RestInv => RestIsSeen
  BY NothingInIt, NoCallReport DEF RestInv, TurnInv, AtRest, RestIsSeen
<1> QED BY <1>1, <1>2, <1>3, ChildInvariance, OverInvariance, PTL DEF Spec
=============================================================================
