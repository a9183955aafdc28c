---------------------------- MODULE ServerProofs ----------------------------
(***************************************************************************)
(* Proofs about modules Startup and Api.                                   *)
(***************************************************************************)
EXTENDS Api, FiniteSetTheorems, SequenceTheorems, TLAPS

-----------------------------------------------------------------------------
(***************************************************************************)
(* The inductive invariant of start-up.                                    *)
(***************************************************************************)

(* What script 4 has, and has not, after its first k statements.           *)
Built(k) ==
  {"attestations"} \cup (IF k \in 2..4 THEN {"intents_new"}
                         ELSE IF k \in 6..8 THEN {"decisions_new"} ELSE {})
Dropped(k) ==
  IF k = 4 THEN {"intents"} ELSE IF k = 8 THEN {"decisions"} ELSE {}

(* The tables there are when the scripts before m have run, and the first  *)
(* k statements of script m.                                               *)
Halfway(m, k) ==
  IF k = 0 THEN Schema(1..(m - 1))
  ELSE IF m = 4 THEN (Schema(1..3) \ Dropped(k)) \cup Built(k)
  ELSE Schema(1..(m - 1)) \cup {Script[m][i].table : i \in 1..k}

(* Opener o has run statements of script m, and not yet recorded it.       *)
Inside(o, m) == At(o, "up") /\ Current(o) = m /\ opener[o].next > 1

(* The scripts are recorded in order, and the tables are those of a place  *)
(* in the script that comes next.  Whoever is inside a script is at that   *)
(* place: but for one late opener that created "intents" anew while        *)
(* script 4 had dropped it, and the one that then cannot rename the copy.  *)
AtPlace(o, m, v) ==
  m = v + 1 /\ DOMAIN tables = Halfway(m, opener[o].next - 1)
Stuck(o, m, v) ==
  v = 3 /\ m = 4 /\ opener[o].next = 5 /\ DOMAIN tables = Halfway(4, 3)
Late(o, m, v) ==
  /\ v = 3 /\ m = 2 /\ opener[o].next = 2 /\ DOMAIN tables = Halfway(4, 3)
  /\ \A q \in Openers : Inside(q, 4) => opener[q].next = 5

SchemaAt(v, k) ==
  /\ applied = 1..v
  /\ v = 5 => k = 0
  /\ v < 5 => k <= Len(Script[v + 1])
  /\ DOMAIN tables = Halfway(v + 1, k)
  /\ \A o \in Openers, m \in Migrations :
       Inside(o, m) => AtPlace(o, m, v) \/ Stuck(o, m, v) \/ Late(o, m, v)

SchemaInv == \E v \in 0..5, k \in 0..9 : SchemaAt(v, k)

(* Only one opener gets past the first statement of a script.              *)
Alone ==
  \A o, q \in Openers : \A m \in Migrations : Inside(o, m) /\ Inside(q, m) => o = q

(* What an opener has behind it is recorded; rules are there once it has   *)
(* looked.                                                                 *)
OpenerOK(o) ==
  /\ At(o, "up") =>
       /\ opener[o].todo # {} /\ Migrations \ opener[o].todo \subseteq applied
       /\ opener[o].next <= Len(Script[Current(o)]) + 1
  /\ opener[o].pc \in {"count", "seed", "open"} => applied = Migrations
  /\ At(o, "open") => tables["policy_rules"] # {}

OpenerInv == \A o \in Openers : OpenerOK(o)

(* Who is about to drop a table has its rows in the copy.                  *)
Copied ==
  \A o \in Openers : \A t \in Proposal : More(o) /\ Upcoming(o) = Drop(t) =>
    \A r \in Rows : <<t, r, FALSE>> \in stored => Holds(New(t), r)

StartupInv ==
  /\ StartupTypeOK
  /\ SchemaInv /\ Alone /\ OpenerInv /\ Copied /\ RowsKept

-----------------------------------------------------------------------------
(***************************************************************************)
(* The inductive invariant of the server.                                  *)
(***************************************************************************)

ThreadState ==
  [pc : {"idle", "client", "constructing", "dispatcher", "new_dispatcher",
         "subscribe", "lookup", "register", "propose", "publish", "post", "answer"},
   request : {"none", "propose", "register"}, url : Urls \cup {None},
   client : Nat, dispatcher : Nat, at : (Nat \ {0}) \X (Nat \ {0}), tries : 0..(ATTEMPTS - 1),
   due : SUBSET AllUrls, failures : [AllUrls -> Nat], settled : SUBSET AllUrls]

ServerTyped ==
  /\ thread \in [Threads -> ThreadState]
  /\ subscribers \in Seq(Seq(Nat)) /\ urls \in Seq(Seq(AllUrls))
  /\ client \in 0..Len(subscribers) /\ dispatcher \in 0..Len(urls)
  /\ answered \subseteq Urls
  /\ events \in Nat

(* Every bus calls dispatchers that exist; the first of them has the       *)
(* configured URLs, if there are any.                                      *)
Lists(d, u) == \E j \in 1..Len(urls[d]) : urls[d][j] = u
Buses ==
  \A c \in 1..Len(subscribers) :
    /\ \A i \in 1..Len(subscribers[c]) : subscribers[c][i] \in 1..Len(urls)
    /\ \A u \in Range(ConfigUrls) :
         Len(subscribers[c]) > 0 /\ Lists(subscribers[c][1], u)

(* What a thread has got hold of by the time it needs it.                  *)
Equipped(t) ==
  LET self == thread[t] IN
  /\ self.pc = "constructing" <=> opener[t].pc # "closed"
  /\ opener[t].pc # "absent"
  /\ self.client <= Len(subscribers) /\ self.dispatcher <= Len(urls)
  /\ self.request = "register" => self.url \in Urls
  /\ self.pc \in {"dispatcher", "new_dispatcher", "subscribe", "lookup", "register"}
       => self.request = "register"
  /\ self.pc \in {"client", "constructing"} /\ self.request # "propose"
       => self.request = "register" /\ dispatcher # 0
  /\ self.pc \in {"subscribe", "lookup", "register"} => dispatcher # 0
  /\ self.pc \in {"subscribe", "propose", "publish", "post", "answer"} => self.client # 0
  /\ self.pc = "register" => self.dispatcher # 0
  /\ self.pc \notin {"publish", "post", "answer"} => self.at = <<1, 1>>
  /\ self.pc # "post" => self.tries = 0

(* A URL that the event of t is due to was served, or lies ahead of it.    *)
Served(t, u) == u \in thread[t].settled \/ thread[t].failures[u] >= ATTEMPTS
Ahead(t, u) ==
  \E i \in 1..Len(Bus(t)) :
    /\ i >= thread[t].at[1]
    /\ \E j \in 1..Len(urls[Bus(t)[i]]) :
         /\ urls[Bus(t)[i]][j] = u
         /\ i = thread[t].at[1] => j >= thread[t].at[2]

Delivering(t) ==
  LET wanted == thread[t].due \cup Range(ConfigUrls) IN
  /\ thread[t].pc \in {"publish", "post"} =>
       \A u \in wanted : Served(t, u) \/ Ahead(t, u)
  /\ In(t, "post") => /\ HasSubscriber(t) /\ HasUrl(t)
                      /\ thread[t].failures[Url(t)] >= thread[t].tries
  /\ In(t, "answer") => \A u \in wanted : Served(t, u)

ServerInv ==
  /\ StartupInv
  /\ ServerTyped /\ Buses
  /\ \A t \in Threads : Equipped(t) /\ Delivering(t)

-----------------------------------------------------------------------------
(***************************************************************************)
(* The scripts.                                                            *)
(***************************************************************************)

LEMMA Tuple5 ==
  ASSUME NEW a, NEW b, NEW c, NEW d, NEW e
  PROVE  <<a>> \o <<b, c, d, e>> = <<a, b, c, d, e>>
<1> DEFINE s == <<a>>
           t == <<b, c, d, e>>
           u == <<a, b, c, d, e>>
           S == {a, b, c, d, e}
<1>1. s \in Seq(S) /\ t \in Seq(S) /\ u \in Seq(S)
  <2>1. a \in S /\ b \in S /\ c \in S /\ d \in S /\ e \in S
    OBVIOUS
  <2> HIDE DEF S
  <2> QED
    BY <2>1
<1>2. Len(s) = 1 /\ Len(t) = 4 /\ Len(u) = 5
  OBVIOUS
<1>3. \A i \in 1..5 : u[i] = IF i <= 1 THEN s[i] ELSE t[i - 1]
  OBVIOUS
<1>4. s \o t = u
  <2> HIDE DEF s, t, u
  <2>1. Len(s \o t) = Len(s) + Len(t)
    BY <1>1, ConcatProperties
  <2>2. /\ s \o t \in Seq(S)
        /\ \A i \in 1..(Len(s) + Len(t)) :
             (s \o t)[i] = IF i <= Len(s) THEN s[i] ELSE t[i - Len(s)]
    BY <1>1, ConcatProperties
  <2>3. \A i \in 1..Len(s \o t) : (s \o t)[i] = u[i]
    BY <1>2, <1>3, <2>1, <2>2
  <2>4. Len(s \o t) = Len(u)
    BY <1>2, <2>1
  <2> QED
    BY <1>1, <2>2, <2>3, <2>4, SeqEqual
<1> QED
  BY <1>4

LEMMA Tuple9 ==
  ASSUME NEW a, NEW b, NEW c, NEW d, NEW e, NEW f, NEW g, NEW h, NEW i
  PROVE  <<a, b, c, d, e>> \o <<f, g, h, i>> = <<a, b, c, d, e, f, g, h, i>>
<1> DEFINE s == <<a, b, c, d, e>>
           t == <<f, g, h, i>>
           u == <<a, b, c, d, e, f, g, h, i>>
           S == {a, b, c, d, e, f, g, h, i}
<1>1. s \in Seq(S) /\ t \in Seq(S) /\ u \in Seq(S)
  <2>1. /\ a \in S /\ b \in S /\ c \in S /\ d \in S /\ e \in S
        /\ f \in S /\ g \in S /\ h \in S /\ i \in S
    OBVIOUS
  <2> HIDE DEF S
  <2> QED
    BY <2>1
<1>2. Len(s) = 5 /\ Len(t) = 4 /\ Len(u) = 9
  OBVIOUS
<1>3. \A n \in 1..9 : u[n] = IF n <= 5 THEN s[n] ELSE t[n - 5]
  OBVIOUS
<1>4. s \o t = u
  <2> HIDE DEF s, t, u
  <2>1. Len(s \o t) = Len(s) + Len(t)
    BY <1>1, ConcatProperties
  <2>2. /\ s \o t \in Seq(S)
        /\ \A n \in 1..(Len(s) + Len(t)) :
             (s \o t)[n] = IF n <= Len(s) THEN s[n] ELSE t[n - Len(s)]
    BY <1>1, ConcatProperties
  <2>3. \A n \in 1..Len(s \o t) : (s \o t)[n] = u[n]
    <3>1. Len(s \o t) = 9 /\ Len(s) = 5 /\ 1..(Len(s) + Len(t)) = 1..9
      BY <1>2, <2>1
    <3>2. \A n \in 1..9 : (s \o t)[n] = IF n <= 5 THEN s[n] ELSE t[n - 5]
      BY <2>2, <3>1
    <3> QED
      BY <1>3, <3>1, <3>2
  <2>4. Len(s \o t) = Len(u)
    BY <1>2, <2>1
  <2> QED
    BY <1>1, <2>2, <2>3, <2>4, SeqEqual
<1> QED
  BY <1>4

(* The scripts, statement by statement.                                    *)
LEMMA Scripts ==
  /\ Migrations = 1..5
  /\ Script[1] = <<Create("suppliers"), Create("policy_rules")>>
  /\ Script[2] = <<Create("intents"), Create("decisions")>>
  /\ Script[3] = <<Create("chain_txs"), Create("anchor_payouts")>>
  /\ Script[4] = <<Create("attestations"),
                   Create("intents_new"), Copy("intents", "intents_new"),
                   Drop("intents"), Rename("intents_new", "intents"),
                   Create("decisions_new"), Copy("decisions", "decisions_new"),
                   Drop("decisions"), Rename("decisions_new", "decisions")>>
  /\ Script[5] = <<Create("events")>>
<1>1. Migrations = 1..5
  BY DEF Migrations, Script
<1>2. PICK a, b, c, d, e, f, g, h, i :
        /\ a = Create("attestations")
        /\ b = Create("intents_new")
        /\ c = Copy("intents", "intents_new")
        /\ d = Drop("intents")
        /\ e = Rename("intents_new", "intents")
        /\ f = Create("decisions_new")
        /\ g = Copy("decisions", "decisions_new")
        /\ h = Drop("decisions")
        /\ i = Rename("decisions_new", "decisions")
  OBVIOUS
<1>3. <<a>> \o <<b, c, d, e>> = <<a, b, c, d, e>>
  BY Tuple5, Zenon
<1>4. <<a, b, c, d, e>> \o <<f, g, h, i>> = <<a, b, c, d, e, f, g, h, i>>
  BY Tuple9
<1>5. Script[4] = (<<a>> \o <<b, c, d, e>>) \o <<f, g, h, i>>
  BY <1>2 DEF Script, Rebuild
<1> QED
  BY <1>1, <1>2, <1>3, <1>4, <1>5 DEF Script

(* How many statements each has, and which.                                *)
LEMMA Statements ==
  /\ Len(Script[1]) = 2 /\ Len(Script[2]) = 2 /\ Len(Script[3]) = 2
  /\ Len(Script[4]) = 9 /\ Len(Script[5]) = 1
  /\ Script[1][1] = Create("suppliers") /\ Script[1][2] = Create("policy_rules")
  /\ Script[2][1] = Create("intents") /\ Script[2][2] = Create("decisions")
  /\ Script[3][1] = Create("chain_txs") /\ Script[3][2] = Create("anchor_payouts")
  /\ Script[4][1] = Create("attestations")
  /\ Script[4][2] = Create("intents_new")
  /\ Script[4][3] = Copy("intents", "intents_new")
  /\ Script[4][4] = Drop("intents")
  /\ Script[4][5] = Rename("intents_new", "intents")
  /\ Script[4][6] = Create("decisions_new")
  /\ Script[4][7] = Copy("decisions", "decisions_new")
  /\ Script[4][8] = Drop("decisions")
  /\ Script[4][9] = Rename("decisions_new", "decisions")
  /\ Script[5][1] = Create("events")
BY Scripts

(* The tables each script leaves behind.                                   *)
Made(m) == Operands(m, "create") \ Operands(m, "rename")

LEMMA MadeTables ==
  /\ Made(1) = {"suppliers", "policy_rules"}
  /\ Made(2) = {"intents", "decisions"}
  /\ Made(3) = {"chain_txs", "anchor_payouts"}
  /\ Made(4) = {"attestations"}
  /\ Made(5) = {"events"}
<1>0. /\ \A m, op, x : x \in Operands(m, op) <=> \E s \in Range(Script[m]) : s.op = op /\ s.table = x
      /\ \A t : Create(t).op = "create" /\ Create(t).table = t
      /\ \A t, u : Copy(t, u).op = "copy" /\ Rename(t, u).op = "rename"
      /\ \A t, u : Copy(t, u).table = t /\ Rename(t, u).table = t
      /\ \A t : Drop(t).op = "drop" /\ Drop(t).table = t
  BY DEF Operands, Create, Copy, Drop, Rename
<1>1. /\ Range(Script[1]) = {Create("suppliers"), Create("policy_rules")}
      /\ Range(Script[2]) = {Create("intents"), Create("decisions")}
      /\ Range(Script[3]) = {Create("chain_txs"), Create("anchor_payouts")}
      /\ Range(Script[5]) = {Create("events")}
  BY Scripts, Statements DEF Range
<1>2. Range(Script[4]) = {Create("attestations"),
        Create("intents_new"), Copy("intents", "intents_new"),
        Drop("intents"), Rename("intents_new", "intents"),
        Create("decisions_new"), Copy("decisions", "decisions_new"),
        Drop("decisions"), Rename("decisions_new", "decisions")}
  <2>1. DOMAIN Script[4] = 1..9
    BY Scripts
  <2> QED
    BY <2>1, Statements DEF Range
<1>3. /\ Operands(1, "create") = {"suppliers", "policy_rules"} /\ Operands(1, "rename") = {}
      /\ Operands(2, "create") = {"intents", "decisions"} /\ Operands(2, "rename") = {}
      /\ Operands(3, "create") = {"chain_txs", "anchor_payouts"} /\ Operands(3, "rename") = {}
      /\ Operands(5, "create") = {"events"} /\ Operands(5, "rename") = {}
  BY <1>0, <1>1
<1>4. /\ Operands(4, "create") = {"attestations", "intents_new", "decisions_new"}
      /\ Operands(4, "rename") = {"intents_new", "decisions_new"}
  BY <1>0, <1>2
<1> QED
  BY <1>3, <1>4 DEF Made

LEMMA Schemas ==
  /\ Schema(1..0) = {}
  /\ Schema(1..1) = {"suppliers", "policy_rules"}
  /\ Schema(1..2) = Schema(1..1) \cup {"intents", "decisions"}
  /\ Schema(1..3) = Schema(1..2) \cup {"chain_txs", "anchor_payouts"}
  /\ Schema(1..4) = Schema(1..3) \cup {"attestations"}
  /\ Schema(1..5) = Schema(1..4) \cup {"events"}
<1>1. \A ms, x : x \in Schema(ms) <=> \E m \in ms : x \in Made(m)
  BY DEF Schema, Made
<1>2. \A n \in 0..4 : Schema(1..(n + 1)) = Schema(1..n) \cup Made(n + 1)
  <2> TAKE n \in 0..4
  <2>1. \A m : m \in 1..(n + 1) <=> m \in 1..n \/ m = n + 1
    OBVIOUS
  <2>2. \A x : x \in Schema(1..(n + 1)) <=> x \in Schema(1..n) \/ x \in Made(n + 1)
    BY <1>1, <2>1
  <2> QED
    BY <2>2
<1>3. Schema(1..0) = {}
  <2>1. \A x : x \notin Schema(1..0)
    BY <1>1
  <2> QED
    BY <2>1
<1>4. /\ Schema(1..(0 + 1)) = Schema(1..0) \cup Made(0 + 1)
      /\ Schema(1..(1 + 1)) = Schema(1..1) \cup Made(1 + 1)
      /\ Schema(1..(2 + 1)) = Schema(1..2) \cup Made(2 + 1)
      /\ Schema(1..(3 + 1)) = Schema(1..3) \cup Made(3 + 1)
      /\ Schema(1..(4 + 1)) = Schema(1..4) \cup Made(4 + 1)
  BY <1>2
<1> QED
  BY <1>3, <1>4, MadeTables

(* The tables at every place of every script.                              *)
LEMMA Places ==
  /\ \A m \in 1..6 : Halfway(m, 0) = Schema(1..(m - 1))
  /\ Halfway(1, 1) = {"suppliers"}
  /\ Halfway(2, 1) = Schema(1..1) \cup {"intents"}
  /\ Halfway(3, 1) = Schema(1..2) \cup {"chain_txs"}
  /\ Halfway(4, 1) = Schema(1..3) \cup {"attestations"}
  /\ Halfway(4, 2) = Schema(1..3) \cup {"attestations", "intents_new"}
  /\ Halfway(4, 3) = Schema(1..3) \cup {"attestations", "intents_new"}
  /\ Halfway(4, 4) = (Schema(1..3) \ {"intents"}) \cup {"attestations", "intents_new"}
  /\ Halfway(4, 5) = Schema(1..3) \cup {"attestations"}
  /\ Halfway(4, 6) = Schema(1..3) \cup {"attestations", "decisions_new"}
  /\ Halfway(4, 7) = Schema(1..3) \cup {"attestations", "decisions_new"}
  /\ Halfway(4, 8) = (Schema(1..3) \ {"decisions"}) \cup {"attestations", "decisions_new"}
  /\ \A m \in 1..5 : Halfway(m, Len(Script[m])) = Schema(1..m)
<1>1. \A m, k : m # 4 /\ k # 0 =>
        Halfway(m, k) = Schema(1..(m - 1)) \cup {Script[m][i].table : i \in 1..k}
  BY DEF Halfway
<1>2. \A k : k # 0 => Halfway(4, k) = (Schema(1..3) \ Dropped(k)) \cup Built(k)
  BY DEF Halfway
<1>3. /\ {Script[1][i].table : i \in 1..1} = {"suppliers"}
      /\ {Script[1][i].table : i \in 1..2} = {"suppliers", "policy_rules"}
      /\ {Script[2][i].table : i \in 1..1} = {"intents"}
      /\ {Script[2][i].table : i \in 1..2} = {"intents", "decisions"}
      /\ {Script[3][i].table : i \in 1..1} = {"chain_txs"}
      /\ {Script[3][i].table : i \in 1..2} = {"chain_txs", "anchor_payouts"}
      /\ {Script[5][i].table : i \in 1..1} = {"events"}
  <2>1. 1..1 = {1} /\ 1..2 = {1, 2}
    OBVIOUS
  <2>2. \A t : Create(t).table = t
    BY DEF Create
  <2> QED
    BY <2>1, <2>2, Statements
<1>4. \A m \in 1..6 : Halfway(m, 0) = Schema(1..(m - 1))
  BY DEF Halfway
<1>5. /\ Halfway(1, 1) = {"suppliers"}
      /\ Halfway(2, 1) = Schema(1..1) \cup {"intents"}
      /\ Halfway(3, 1) = Schema(1..2) \cup {"chain_txs"}
  <2>1. /\ Halfway(1, 1) = Schema(1..(1 - 1)) \cup {Script[1][i].table : i \in 1..1}
        /\ Halfway(2, 1) = Schema(1..(2 - 1)) \cup {Script[2][i].table : i \in 1..1}
        /\ Halfway(3, 1) = Schema(1..(3 - 1)) \cup {Script[3][i].table : i \in 1..1}
    BY <1>1, 1 # 0, 1 # 4, 2 # 0, 2 # 4, 3 # 4, 5 # 4, Zenon
  <2> QED
    BY <1>3, <2>1, Schemas
<1>6. /\ Halfway(1, 2) = Schema(1..1) /\ Halfway(2, 2) = Schema(1..2)
      /\ Halfway(3, 2) = Schema(1..3) /\ Halfway(5, 1) = Schema(1..5)
  <2>1. /\ Halfway(1, 2) = Schema(1..(1 - 1)) \cup {Script[1][i].table : i \in 1..2}
        /\ Halfway(2, 2) = Schema(1..(2 - 1)) \cup {Script[2][i].table : i \in 1..2}
        /\ Halfway(3, 2) = Schema(1..(3 - 1)) \cup {Script[3][i].table : i \in 1..2}
        /\ Halfway(5, 1) = Schema(1..(5 - 1)) \cup {Script[5][i].table : i \in 1..1}
    BY <1>1, 1 # 0, 1 # 4, 2 # 0, 2 # 4, 3 # 4, 5 # 4, Zenon
  <2>2. /\ Halfway(1, 2) = Schema(1..0) \cup {"suppliers", "policy_rules"}
        /\ Halfway(2, 2) = Schema(1..1) \cup {"intents", "decisions"}
        /\ Halfway(3, 2) = Schema(1..2) \cup {"chain_txs", "anchor_payouts"}
        /\ Halfway(5, 1) = Schema(1..4) \cup {"events"}
    BY <1>3, <2>1
  <2> QED
    BY <2>2, Schemas
<1>7. /\ Halfway(4, 1) = Schema(1..3) \cup {"attestations"}
      /\ Halfway(4, 2) = Schema(1..3) \cup {"attestations", "intents_new"}
      /\ Halfway(4, 3) = Schema(1..3) \cup {"attestations", "intents_new"}
      /\ Halfway(4, 4) = (Schema(1..3) \ {"intents"}) \cup {"attestations", "intents_new"}
      /\ Halfway(4, 5) = Schema(1..3) \cup {"attestations"}
      /\ Halfway(4, 6) = Schema(1..3) \cup {"attestations", "decisions_new"}
      /\ Halfway(4, 7) = Schema(1..3) \cup {"attestations", "decisions_new"}
      /\ Halfway(4, 8) = (Schema(1..3) \ {"decisions"}) \cup {"attestations", "decisions_new"}
      /\ Halfway(4, 9) = Schema(1..3) \cup {"attestations"}
  BY <1>2 DEF Dropped, Built
<1>8. \A m \in 1..5 : Halfway(m, Len(Script[m])) = Schema(1..m)
  <2> TAKE m \in 1..5
  <2>1. m = 1 \/ m = 2 \/ m = 3 \/ m = 4 \/ m = 5
    OBVIOUS
  <2>2. CASE m = 4
    BY <1>7, <2>2, Statements, Schemas
  <2> QED
    BY <1>6, <2>1, <2>2, Statements
<1> HIDE DEF Halfway
<1> QED
  BY <1>4, <1>5, <1>7, <1>8

(* Where script 4 is, by the tables.                                       *)
LEMMA RebuildPlaces ==
  /\ \A k \in 1..9 : "attestations" \in Halfway(4, k)
  /\ \A k \in 0..9 : k # 4 <=> "intents" \in Halfway(4, k)
  /\ \A k \in 0..9 : k # 8 <=> "decisions" \in Halfway(4, k)
  /\ \A k \in 0..9 : Halfway(4, k) = Halfway(4, 3) => k \in {2, 3}
<1>1. Schema(1..3) = {"suppliers", "policy_rules", "intents", "decisions",
                      "chain_txs", "anchor_payouts"}
  BY Schemas
<1>2. Halfway(4, 0) = Schema(1..3) /\ Halfway(4, 9) = Schema(1..3) \cup {"attestations"}
  <2>1. Halfway(4, 0) = Schema(1..(4 - 1)) /\ Halfway(4, 9) = Schema(1..4)
    BY Places, Statements, 4 \in 1..6, 4 \in 1..5, Zenon
  <2> QED
    BY <2>1, Schemas
<1>3. \A k \in 0..9 : k = 0 \/ k = 1 \/ k = 2 \/ k = 3 \/ k = 4 \/ k = 5 \/ k = 6
                        \/ k = 7 \/ k = 8 \/ k = 9
  OBVIOUS
<1>4. \A k \in 1..9 : "attestations" \in Halfway(4, k)
  BY <1>2, <1>3, Places
<1>5. \A k \in 0..9 : k # 4 <=> "intents" \in Halfway(4, k)
  BY <1>1, <1>2, <1>3, Places
<1>6. \A k \in 0..9 : k # 8 <=> "decisions" \in Halfway(4, k)
  BY <1>1, <1>2, <1>3, Places
<1>7. \A k \in 0..9 : Halfway(4, k) = Halfway(4, 3) => k \in {2, 3}
  <2>1. Halfway(4, 3) = Schema(1..3) \cup {"attestations", "intents_new"}
    BY Places
  <2>2. \A k \in {0, 1, 5, 6, 7, 8, 9} : "intents_new" \notin Halfway(4, k)
    <3>1. "intents_new" \notin Schema(1..3)
      BY <1>1
    <3>2. "intents_new" \notin Halfway(4, 0) /\ "intents_new" \notin Halfway(4, 9)
      BY <1>2, <3>1
    <3>3. "intents_new" \notin Halfway(4, 1) /\ "intents_new" \notin Halfway(4, 5)
      BY <3>1, Places
    <3>4. "intents_new" \notin Halfway(4, 6) /\ "intents_new" \notin Halfway(4, 7)
      BY <3>1, Places
    <3>5. "intents_new" \notin Halfway(4, 8)
      BY <3>1, Places
    <3> QED
      BY <3>2, <3>3, <3>4, <3>5
  <2> QED
    BY <1>1, <1>3, <1>5, <2>1, <2>2
<1> QED
  BY <1>4, <1>5, <1>6, <1>7

(* A table that a script creates first is there from then on, but for      *)
(* "intents" while script 4 replaces it.                                   *)
LEMMA FirstTables ==
  ASSUME NEW v \in 0..5, NEW k \in 0..9, v = 5 => k = 0, v < 5 => k <= Len(Script[v + 1]),
         NEW m \in 1..5, m <= v + 1, Script[m][1].table \notin Halfway(v + 1, k)
  PROVE  (m = v + 1 /\ k = 0) \/ (m = 2 /\ v = 3 /\ k = 4)
<1> DEFINE first == Script[m][1].table
<1>1. /\ m = 1 => first = "suppliers"
      /\ m = 2 => first = "intents"
      /\ m = 3 => first = "chain_txs"
      /\ m = 4 => first = "attestations"
      /\ m = 5 => first = "events"
  BY Statements DEF Create
<1>2. \A n \in 1..5 : m <= n => first \in Schema(1..n)
  <2> TAKE n \in 1..5
  <2>1. (n = 1 \/ n = 2 \/ n = 3 \/ n = 4 \/ n = 5) /\ (m = 1 \/ m = 2 \/ m = 3 \/ m = 4 \/ m = 5)
    OBVIOUS
  <2> HIDE DEF first
  <2>2. /\ Schema(1..1) \subseteq Schema(1..2) /\ Schema(1..2) \subseteq Schema(1..3)
        /\ Schema(1..3) \subseteq Schema(1..4) /\ Schema(1..4) \subseteq Schema(1..5)
    BY Schemas
  <2>3. first \in Schema(1..m)
    BY <1>1, <2>1, Schemas
  <2> DEFINE X(i) == Schema(1..i)
  <2>4. /\ X(1) \subseteq X(2) /\ X(2) \subseteq X(3) /\ X(3) \subseteq X(4) /\ X(4) \subseteq X(5)
        /\ first \in X(m)
    BY <2>2, <2>3
  <2> HIDE DEF X
  <2>5. m <= n => first \in X(n)
    BY <2>1, <2>4
  <2> QED
    BY <2>5 DEF X
<1> HIDE DEF first
<1>3. m = 1 \/ m = 2 \/ m = 3 \/ m = 4 \/ m = 5
  OBVIOUS
<1>4. first \notin Halfway(v + 1, k)
  BY DEF first
<1>5. CASE k = 0
  <2>1. Halfway(v + 1, 0) = Schema(1..((v + 1) - 1)) /\ (v + 1) - 1 = v
    <3>1. v + 1 \in 1..6 /\ (v + 1) - 1 = v
      OBVIOUS
    <3>2. \A n \in 1..6 : Halfway(n, 0) = Schema(1..(n - 1))
      BY Places
    <3> QED
      BY <3>1, <3>2, Zenon
  <2>2. m <= v => first \in Schema(1..v)
    <3>1. m <= v => v \in 1..5
      OBVIOUS
    <3> QED
      BY <1>2, <3>1
  <2> QED
    BY <1>4, <1>5, <2>1, <2>2
<1>6. CASE k # 0 /\ v # 3
  <2>1. v \in 0..4 /\ k \in 1..9 /\ k <= Len(Script[v + 1])
    BY <1>6
  <2>2. v = 0 \/ v = 1 \/ v = 2 \/ v = 4
    BY <1>6, <2>1
  <2>3. k = 1 \/ k = 2
    <3>1. \A n \in {1, 2, 3, 5} : Len(Script[n]) \in {1, 2}
      BY Statements
    <3>2. v + 1 \in {1, 2, 3, 5}
      BY <2>2
    <3>3. Len(Script[v + 1]) \in {1, 2}
      BY <3>1, <3>2
    <3>4. PICK l : l = Len(Script[v + 1])
      OBVIOUS
    <3>5. l \in {1, 2} /\ k <= l
      BY <2>1, <3>3, <3>4, Zenon
    <3> QED
      BY <2>1, <3>5
  <2>4. Halfway(1, 2) = Schema(1..1) /\ Halfway(2, 2) = Schema(1..2)
        /\ Halfway(3, 2) = Schema(1..3) /\ Halfway(5, 1) = Schema(1..5)
    BY Places, Statements, 1 \in 1..5, 2 \in 1..5, 3 \in 1..5, 5 \in 1..5, Zenon
  <2>5. CASE v = 0
    <3>1. v + 1 = 1 /\ m = 1
      BY <2>5
    <3> QED
      BY <1>1, <1>2, <1>4, <2>3, <2>4, <3>1, Places
  <2>6. CASE v = 1
    <3>1. v + 1 = 2 /\ m \in {1, 2}
      BY <2>6
    <3> QED
      BY <1>1, <1>2, <1>4, <2>3, <2>4, <3>1, Places
  <2>7. CASE v = 2
    <3>1. v + 1 = 3 /\ m \in {1, 2, 3}
      BY <2>7
    <3> QED
      BY <1>1, <1>2, <1>4, <2>3, <2>4, <3>1, Places
  <2>8. CASE v = 4
    <3>1. v + 1 = 5 /\ k = 1
      <4>1. v + 1 = 5 /\ k <= Len(Script[5]) /\ Len(Script[5]) = 1
        <5>1. 4 + 1 = 5
          OBVIOUS
        <5> QED
          BY <2>1, <2>8, <5>1, Statements, Zenon
      <4> QED
        BY <2>1, <4>1
    <3> QED
      BY <1>2, <1>4, <2>4, <3>1
  <2> QED
    BY <2>2, <2>5, <2>6, <2>7, <2>8
<1>7. CASE k # 0 /\ v = 3
  <2>1. v + 1 = 4 /\ k \in 1..9 /\ m \in 1..4
    BY <1>7
  <2>2. "attestations" \in Halfway(4, k) /\ (k # 4 => "intents" \in Halfway(4, k))
    BY <2>1, RebuildPlaces
  <2>3. "suppliers" \in Halfway(4, k) /\ "chain_txs" \in Halfway(4, k)
    <3>1. "suppliers" \in Schema(1..3) /\ "chain_txs" \in Schema(1..3)
      BY Schemas
    <3> QED
      BY <2>1, <3>1 DEF Halfway, Dropped
  <2> QED
    BY <1>1, <1>3, <1>4, <1>7, <2>1, <2>2, <2>3
<1> QED
  BY <1>5, <1>6, <1>7

LEMMA MinIsLeast ==
  ASSUME NEW S \in SUBSET (1..5), S # {}
  PROVE  Min(S) \in S /\ \A n \in S : Min(S) <= n
<1>1. \E m \in S : \A n \in S : m <= n
  <2>1. CASE 1 \in S
    BY <2>1
  <2>2. CASE 1 \notin S /\ 2 \in S
    BY <2>2
  <2>3. CASE 1 \notin S /\ 2 \notin S /\ 3 \in S
    BY <2>3
  <2>4. CASE 1 \notin S /\ 2 \notin S /\ 3 \notin S /\ 4 \in S
    BY <2>4
  <2>5. CASE 1 \notin S /\ 2 \notin S /\ 3 \notin S /\ 4 \notin S
    <3>1. \A n \in S : n = 5
      BY <2>5
    <3>2. 5 \in S
      BY <3>1
    <3> QED
      BY <3>1, <3>2
  <2> QED
    BY <2>1, <2>2, <2>3, <2>4, <2>5
<1> QED
  BY <1>1 DEF Min

-----------------------------------------------------------------------------
(***************************************************************************)
(* What a statement does to the tables.                                    *)
(***************************************************************************)

LEMMA AfterCreate ==
  ASSUME NEW t, t \notin DOMAIN tables
  PROVE  LET after == After(Create(t)) IN
         /\ DOMAIN after = DOMAIN tables \cup {t}
         /\ \A u \in DOMAIN tables : after[u] = tables[u]
         /\ after[t] = {}
BY DEF After, Create

LEMMA AfterCopy ==
  ASSUME NEW t, NEW to, t \in DOMAIN tables, to \in DOMAIN tables, t # to
  PROVE  LET after == After(Copy(t, to)) IN
         /\ DOMAIN after = DOMAIN tables
         /\ \A u \in DOMAIN tables \ {to} : after[u] = tables[u]
         /\ after[to] = tables[to] \cup tables[t]
BY DEF After, Copy

LEMMA AfterDrop ==
  ASSUME NEW t
  PROVE  LET after == After(Drop(t)) IN
         /\ DOMAIN after = DOMAIN tables \ {t}
         /\ \A u \in DOMAIN tables \ {t} : after[u] = tables[u]
BY DEF After, Drop

LEMMA AfterRename ==
  ASSUME NEW t, NEW to, t \in DOMAIN tables, to \notin DOMAIN tables
  PROVE  LET after == After(Rename(t, to)) IN
         /\ DOMAIN after = (DOMAIN tables \ {t}) \cup {to}
         /\ \A u \in DOMAIN tables \ {t} : after[u] = tables[u]
         /\ after[to] = tables[t]
BY DEF After, Rename

(* The statements of the scripts, by what they are.                        *)
LEMMA Kinds ==
  ASSUME NEW m \in Migrations, NEW n \in 1..Len(Script[m])
  PROVE  LET s == Script[m][n] IN
         \/ \E t : s = Create(t)
         \/ \E t \in Proposal : /\ m = 4
              /\ \/ s = Copy(t, New(t)) /\ Script[4][n + 1] = Drop(t)
                 \/ s = Drop(t) /\ n \in {4, 8}
                 \/ s = Rename(New(t), t)
<1>1. CASE m # 4
  <2>1. m = 1 \/ m = 2 \/ m = 3 \/ m = 5
    BY <1>1, Scripts
  <2>2. n = 1 \/ n = 2
    <3>1. Len(Script[m]) = 1 \/ Len(Script[m]) = 2
      BY <2>1, Statements
    <3>2. PICK l : l = Len(Script[m])
      OBVIOUS
    <3>3. n \in 1..l /\ (l = 1 \/ l = 2)
      BY <3>1, <3>2, Zenon
    <3> QED
      BY <3>3
  <2> QED
    BY <2>1, <2>2, Statements
<1>2. CASE m = 4
  <2>1. n = 1 \/ n = 2 \/ n = 3 \/ n = 4 \/ n = 5 \/ n = 6 \/ n = 7 \/ n = 8 \/ n = 9
    BY <1>2, Statements
  <2> QED
    BY <1>2, <2>1, Statements DEF Proposal, New
<1> QED
  BY <1>1, <1>2

(* Every statement leads from the tables of its place to those of the next.*)
Leads(m, n, k) ==
  \/ \E t : Script[m][n] = Create(t) /\ Halfway(m, n) = Halfway(m, k) \cup {t}
  \/ \E t, to : /\ Script[m][n] = Copy(t, to) /\ t # to
                /\ Halfway(m, n) = Halfway(m, k)
  \/ \E t : Script[m][n] = Drop(t) /\ Halfway(m, n) = Halfway(m, k) \ {t}
  \/ \E t, to : /\ Script[m][n] = Rename(t, to)
                /\ Halfway(m, n) = (Halfway(m, k) \ {t}) \cup {to}

LEMMA StatementLeads ==
  ASSUME NEW m \in Migrations, NEW n \in 1..Len(Script[m])
  PROVE  Leads(m, n, n - 1)
<1>1. Halfway(1, 0) = Schema(1..0) /\ Halfway(2, 0) = Schema(1..1)
      /\ Halfway(3, 0) = Schema(1..2) /\ Halfway(4, 0) = Schema(1..3)
      /\ Halfway(5, 0) = Schema(1..4)
  <2>1. Halfway(1, 0) = Schema(1..(1 - 1)) /\ Halfway(2, 0) = Schema(1..(2 - 1))
        /\ Halfway(3, 0) = Schema(1..(3 - 1)) /\ Halfway(4, 0) = Schema(1..(4 - 1))
        /\ Halfway(5, 0) = Schema(1..(5 - 1))
    BY Places, 1 \in 1..6, 2 \in 1..6, 3 \in 1..6, 4 \in 1..6, 5 \in 1..6, Zenon
  <2> QED
    BY <2>1
<1>2. Halfway(1, 2) = Schema(1..1) /\ Halfway(2, 2) = Schema(1..2)
      /\ Halfway(3, 2) = Schema(1..3) /\ Halfway(4, 9) = Schema(1..4)
      /\ Halfway(5, 1) = Schema(1..5)
  BY Places, Statements, 1 \in 1..5, 2 \in 1..5, 3 \in 1..5, 4 \in 1..5, 5 \in 1..5, Zenon
<1>3. Schema(1..3) = {"suppliers", "policy_rules", "intents", "decisions",
                      "chain_txs", "anchor_payouts"}
  BY Schemas
<1>4. /\ \A l, i, k, t :
           Script[l][i] = Create(t) /\ Halfway(l, i) = Halfway(l, k) \cup {t} => Leads(l, i, k)
      /\ \A l, i, k, t, to :
           Script[l][i] = Copy(t, to) /\ t # to /\ Halfway(l, i) = Halfway(l, k) => Leads(l, i, k)
      /\ \A l, i, k, t :
           Script[l][i] = Drop(t) /\ Halfway(l, i) = Halfway(l, k) \ {t} => Leads(l, i, k)
      /\ \A l, i, k, t, to :
           Script[l][i] = Rename(t, to) /\ Halfway(l, i) = (Halfway(l, k) \ {t}) \cup {to}
             => Leads(l, i, k)
  <2>1. ASSUME NEW l, NEW i, NEW k, NEW t,
               Script[l][i] = Create(t), Halfway(l, i) = Halfway(l, k) \cup {t}
        PROVE  Leads(l, i, k)
    BY <2>1, Zenon DEF Leads
  <2>2. ASSUME NEW l, NEW i, NEW k, NEW t, NEW to,
               Script[l][i] = Copy(t, to), t # to, Halfway(l, i) = Halfway(l, k)
        PROVE  Leads(l, i, k)
    BY <2>2, Zenon DEF Leads
  <2>3. ASSUME NEW l, NEW i, NEW k, NEW t,
               Script[l][i] = Drop(t), Halfway(l, i) = Halfway(l, k) \ {t}
        PROVE  Leads(l, i, k)
    BY <2>3, Zenon DEF Leads
  <2>4. ASSUME NEW l, NEW i, NEW k, NEW t, NEW to, Script[l][i] = Rename(t, to),
               Halfway(l, i) = (Halfway(l, k) \ {t}) \cup {to}
        PROVE  Leads(l, i, k)
    BY <2>4, Zenon DEF Leads
  <2> QED
    BY <2>1, <2>2, <2>3, <2>4, Zenon
<1>5. /\ Halfway(1, 1) = Halfway(1, 0) \cup {"suppliers"}
      /\ Halfway(1, 2) = Halfway(1, 1) \cup {"policy_rules"}
      /\ Halfway(2, 1) = Halfway(2, 0) \cup {"intents"}
      /\ Halfway(2, 2) = Halfway(2, 1) \cup {"decisions"}
      /\ Halfway(3, 1) = Halfway(3, 0) \cup {"chain_txs"}
      /\ Halfway(3, 2) = Halfway(3, 1) \cup {"anchor_payouts"}
      /\ Halfway(5, 1) = Halfway(5, 0) \cup {"events"}
  <2>1. /\ Halfway(1, 1) = Halfway(1, 0) \cup {"suppliers"}
        /\ Halfway(1, 2) = Halfway(1, 1) \cup {"policy_rules"}
    BY <1>1, <1>2, Places, Schemas
  <2>2. /\ Halfway(2, 1) = Halfway(2, 0) \cup {"intents"}
        /\ Halfway(2, 2) = Halfway(2, 1) \cup {"decisions"}
    BY <1>1, <1>2, Places, Schemas
  <2>3. /\ Halfway(3, 1) = Halfway(3, 0) \cup {"chain_txs"}
        /\ Halfway(3, 2) = Halfway(3, 1) \cup {"anchor_payouts"}
    BY <1>1, <1>2, Places, Schemas
  <2>4. Halfway(5, 1) = Halfway(5, 0) \cup {"events"}
    BY <1>1, <1>2, Places, Schemas
  <2> QED
    BY <2>1, <2>2, <2>3, <2>4
<1>6. /\ Halfway(4, 1) = Halfway(4, 0) \cup {"attestations"}
      /\ Halfway(4, 2) = Halfway(4, 1) \cup {"intents_new"}
      /\ Halfway(4, 3) = Halfway(4, 2)
      /\ Halfway(4, 4) = Halfway(4, 3) \ {"intents"}
      /\ Halfway(4, 5) = (Halfway(4, 4) \ {"intents_new"}) \cup {"intents"}
  BY <1>1, <1>3, Places
<1>7. /\ Halfway(4, 6) = Halfway(4, 5) \cup {"decisions_new"}
      /\ Halfway(4, 7) = Halfway(4, 6)
      /\ Halfway(4, 8) = Halfway(4, 7) \ {"decisions"}
      /\ Halfway(4, 9) = (Halfway(4, 8) \ {"decisions_new"}) \cup {"decisions"}
  BY <1>2, <1>3, Places, Schemas
<1>8. /\ Leads(1, 1, 0) /\ Leads(1, 2, 1) /\ Leads(2, 1, 0) /\ Leads(2, 2, 1)
      /\ Leads(3, 1, 0) /\ Leads(3, 2, 1) /\ Leads(5, 1, 0)
  BY <1>4, <1>5, Statements, Zenon
<1>9. Leads(4, 1, 0) /\ Leads(4, 2, 1) /\ Leads(4, 4, 3) /\ Leads(4, 5, 4)
  BY <1>4, <1>6, Statements, Zenon
<1>10. Leads(4, 6, 5) /\ Leads(4, 8, 7) /\ Leads(4, 9, 8)
  BY <1>4, <1>7, Statements, Zenon
<1>11. Leads(4, 3, 2) /\ Leads(4, 7, 6)
  <2>1. "intents" # "intents_new" /\ "decisions" # "decisions_new"
    OBVIOUS
  <2>2. /\ Script[4][3] = Copy("intents", "intents_new")
        /\ Script[4][7] = Copy("decisions", "decisions_new")
    BY Statements
  <2>3. Leads(4, 3, 2)
    BY <1>4, <1>6, <2>1, <2>2, Zenon
  <2> QED
    BY <1>4, <1>7, <2>1, <2>2, <2>3, Zenon
<1>12. \/ m \in {1, 2, 3} /\ ((n = 1 /\ n - 1 = 0) \/ (n = 2 /\ n - 1 = 1))
       \/ m = 5 /\ n = 1 /\ n - 1 = 0
       \/ m = 4 /\ n \in 1..9
  <2>1. PICK l : l = Len(Script[m])
    OBVIOUS
  <2>2. n \in 1..l /\ ((m \in {1, 2, 3} /\ l = 2) \/ (m = 4 /\ l = 9) \/ (m = 5 /\ l = 1))
    <3>1. m = 1 \/ m = 2 \/ m = 3 \/ m = 4 \/ m = 5
      BY Scripts
    <3> QED
      BY <2>1, <3>1, Statements
  <2> QED
    BY <2>2
<1>13. n \in 1..9 =>
        \/ (n = 1 /\ n - 1 = 0) \/ (n = 2 /\ n - 1 = 1) \/ (n = 3 /\ n - 1 = 2)
        \/ (n = 4 /\ n - 1 = 3) \/ (n = 5 /\ n - 1 = 4) \/ (n = 6 /\ n - 1 = 5)
        \/ (n = 7 /\ n - 1 = 6) \/ (n = 8 /\ n - 1 = 7) \/ (n = 9 /\ n - 1 = 8)
  OBVIOUS
<1> QED
  BY <1>8, <1>9, <1>10, <1>11, <1>12, <1>13

(* A statement at its place that succeeds leads to the next place.         *)
LEMMA NextPlace ==
  ASSUME NEW m \in Migrations, NEW n \in 1..Len(Script[m]),
         DOMAIN tables = Halfway(m, n - 1), Succeeds(Script[m][n])
  PROVE  DOMAIN After(Script[m][n]) = Halfway(m, n)
<1>1. \A t : Succeeds(Create(t)) => t \notin DOMAIN tables
  BY DEF Succeeds, Create
<1>2. \A t, to : Succeeds(Copy(t, to)) => t \in DOMAIN tables /\ to \in DOMAIN tables
  BY DEF Succeeds, Copy
<1>3. \A t, to : Succeeds(Rename(t, to)) => t \in DOMAIN tables /\ to \notin DOMAIN tables
  BY DEF Succeeds, Rename
<1>4. Leads(m, n, n - 1)
  BY StatementLeads
<1>5. CASE \E t : Script[m][n] = Create(t) /\ Halfway(m, n) = Halfway(m, n - 1) \cup {t}
  BY <1>1, <1>5, AfterCreate
<1>6. CASE \E t, to : /\ Script[m][n] = Copy(t, to) /\ t # to
                      /\ Halfway(m, n) = Halfway(m, n - 1)
  BY <1>2, <1>6, AfterCopy
<1>7. CASE \E t : Script[m][n] = Drop(t) /\ Halfway(m, n) = Halfway(m, n - 1) \ {t}
  BY <1>7, AfterDrop
<1>8. CASE \E t, to : /\ Script[m][n] = Rename(t, to)
                      /\ Halfway(m, n) = (Halfway(m, n - 1) \ {t}) \cup {to}
  <2>1. PICK t, to : /\ Script[m][n] = Rename(t, to)
                     /\ Halfway(m, n) = (Halfway(m, n - 1) \ {t}) \cup {to}
    BY <1>8
  <2>2. t \in DOMAIN tables /\ to \notin DOMAIN tables
    BY <1>3, <2>1
  <2> QED
    BY <2>1, <2>2, AfterRename
<1> QED
  BY <1>4, <1>5, <1>6, <1>7, <1>8 DEF Leads


-----------------------------------------------------------------------------
(***************************************************************************)
(* Start-up.                                                               *)
(***************************************************************************)

OpenerState ==
  [pc : {"absent", "closed", "applied", "up", "count", "seed", "open"},
   todo : SUBSET (1..5), next : 1..10, init : BOOLEAN]

LEMMA OpenerTyped ==
  ASSUME StartupInv
  PROVE  opener \in [Openers -> OpenerState]
BY Scripts DEF StartupInv, StartupTypeOK, OpenerState

LEMMA CurrentIs ==
  ASSUME StartupInv, NEW o \in Openers, At(o, "up")
  PROVE  /\ Current(o) \in 1..5 /\ Current(o) \in opener[o].todo
         /\ \A n \in opener[o].todo : Current(o) <= n
         /\ opener[o].next \in 1..(Len(Script[Current(o)]) + 1)
         /\ More(o) => opener[o].next \in 1..Len(Script[Current(o)])
         /\ ~More(o) => opener[o].next = Len(Script[Current(o)]) + 1
<1>1. opener[o].todo \in SUBSET (1..5) /\ opener[o].todo # {} /\ opener[o].next \in 1..10
  BY OpenerTyped DEF StartupInv, OpenerInv, OpenerOK, OpenerState
<1>2. /\ Current(o) \in 1..5 /\ Current(o) \in opener[o].todo
      /\ \A n \in opener[o].todo : Current(o) <= n
  BY <1>1, MinIsLeast DEF Current
<1>3. PICK l : l = Len(Script[Current(o)])
  OBVIOUS
<1>4. l \in Nat
  BY <1>2, <1>3, Statements
<1>5. opener[o].next <= l + 1 /\ (More(o) <=> opener[o].next <= l)
  BY <1>3 DEF StartupInv, OpenerInv, OpenerOK, More
<1> QED
  BY <1>1, <1>2, <1>3, <1>4, <1>5

(* An opener is never two scripts ahead of those recorded.                 *)
LEMMA NotAhead ==
  ASSUME StartupInv, NEW o \in Openers, At(o, "up"),
         NEW v \in 0..5, NEW k \in 0..9, SchemaAt(v, k)
  PROVE  Current(o) <= v + 1 /\ (v = 5 => Current(o) <= v)
<1>1. 1..5 \ opener[o].todo \subseteq 1..v
  BY Scripts DEF StartupInv, OpenerInv, OpenerOK, SchemaAt
<1>2. Current(o) \in 1..5 /\ \A n \in opener[o].todo : Current(o) <= n
  BY CurrentIs
<1>3. SUFFICES ASSUME Current(o) > v + 1
               PROVE  FALSE
  BY <1>2
<1>4. v + 1 \in 1..5 /\ v + 1 \notin opener[o].todo
  BY <1>2, <1>3
<1> QED
  BY <1>1, <1>4

(* Whose statement succeeds is where the tables are, and alone; or it is   *)
(* the late one that finds "intents" dropped.                              *)
AtTheFront(o, v) ==
  /\ Current(o) = v + 1 /\ DOMAIN tables = Halfway(Current(o), opener[o].next - 1)
  /\ \A q \in Openers \ {o} : \A l \in Migrations : ~Inside(q, l)
ComesLate(o, v) ==
  /\ v = 3 /\ Current(o) = 2 /\ opener[o].next = 1 /\ DOMAIN tables = Halfway(4, 4)
  /\ \A q \in Openers \ {o} : \A l \in Migrations :
       Inside(q, l) => l = 4 /\ opener[q].next = 5

LEMMA WhoSucceeds ==
  ASSUME StartupInv, NEW o \in Openers, More(o), Succeeds(Upcoming(o)),
         NEW v \in 0..5, NEW k \in 0..9, SchemaAt(v, k)
  PROVE  AtTheFront(o, v) \/ ComesLate(o, v)
<1> DEFINE m == Current(o)
           n == opener[o].next
<1>1. /\ At(o, "up") /\ m \in 1..5 /\ m \in Migrations /\ m <= v + 1
      /\ n \in 1..Len(Script[m]) /\ Upcoming(o) = Script[m][n]
  BY CurrentIs, NotAhead, Scripts DEF More, Upcoming
<1>2. /\ DOMAIN tables = Halfway(v + 1, k)
      /\ v = 5 => k = 0
      /\ v < 5 => k <= Len(Script[v + 1])
      /\ \A q \in Openers, l \in Migrations :
           Inside(q, l) => AtPlace(q, l, v) \/ Stuck(q, l, v) \/ Late(q, l, v)
  BY DEF SchemaAt
<1>3. \A q \in Openers, l \in Migrations : Inside(q, l) =>
        opener[q].next - 1 \in 1..9 /\ opener[q].next - 1 <= Len(Script[l])
  <2> SUFFICES ASSUME NEW q \in Openers, NEW l \in Migrations, Inside(q, l)
               PROVE  opener[q].next - 1 \in 1..9 /\ opener[q].next - 1 <= Len(Script[l])
    OBVIOUS
  <2>1. opener[q].next \in 1..10 /\ opener[q].next > 1
    BY OpenerTyped DEF Inside, OpenerState
  <2>2. PICK e : e = Len(Script[l])
    OBVIOUS
  <2>3. opener[q].next \in 1..(e + 1) /\ e \in Nat
    BY CurrentIs, Statements, Scripts, <2>2 DEF Inside
  <2> QED
    BY <2>1, <2>2, <2>3
<1>4. Alone
  BY DEF StartupInv
<1> HIDE DEF m, n
<1>5. CASE n = 1
  <2>1. Script[m][1].table \notin DOMAIN tables /\ \E t : Script[m][1] = Create(t)
    <3>1. PICK t : Script[m][1] = Create(t)
      <4>1. \A i \in 1..5 : \E t : Script[i][1] = Create(t)
        <5>1. \A i \in 1..5 : i = 1 \/ i = 2 \/ i = 3 \/ i = 4 \/ i = 5
          OBVIOUS
        <5> QED
          BY <5>1, Statements, Zenon
      <4> QED
        BY <1>1, <4>1
    <3>2. Succeeds(Create(t))
      BY <1>1, <1>5, <3>1
    <3> QED
      BY <3>1, <3>2 DEF Succeeds, Create
  <2>2. (m = v + 1 /\ k = 0) \/ (m = 2 /\ v = 3 /\ k = 4)
    BY <1>1, <1>2, <2>1, FirstTables
  <2>3. CASE m = v + 1 /\ k = 0
    <3>1. ASSUME NEW q \in Openers \ {o}, NEW l \in Migrations, Inside(q, l)
          PROVE  FALSE
      <4>1. CASE AtPlace(q, l, v)
        <5>1. /\ l = v + 1 /\ DOMAIN tables = Halfway(v + 1, opener[q].next - 1)
              /\ opener[q].next - 1 \in 0..9 /\ opener[q].next - 1 # 0
              /\ opener[q].next - 1 <= Len(Script[v + 1]) /\ v # 5
          BY <1>3, <3>1, <4>1, Scripts, SMTT(20) DEF AtPlace
        <5>2. PICK j \in 0..9 : j = opener[q].next - 1
          BY <5>1
        <5>3. (m = v + 1 /\ j = 0) \/ (m = 2 /\ v = 3 /\ j = 4)
          BY <1>1, <2>1, <5>1, <5>2, FirstTables
        <5> QED
          BY <2>3, <5>1, <5>2, <5>3
      <4>2. CASE Stuck(q, l, v) \/ Late(q, l, v)
        <5>1. m = 4 /\ DOMAIN tables = Halfway(4, 3)
          BY <2>3, <4>2 DEF Stuck, Late
        <5>2. "attestations" \in DOMAIN tables
          BY <5>1, RebuildPlaces, 3 \in 1..9
        <5> QED
          BY <2>1, <5>1, <5>2, Statements DEF Create
      <4> QED
        BY <1>2, <3>1, <4>1, <4>2
    <3>2. DOMAIN tables = Halfway(m, n - 1)
      BY <1>2, <1>5, <2>3
    <3> QED
      BY <2>3, <3>1, <3>2 DEF AtTheFront, m, n
  <2>4. CASE m = 2 /\ v = 3 /\ k = 4
    <3>1. DOMAIN tables = Halfway(4, 4) /\ "intents" \notin Halfway(4, 4)
          /\ "intents" \in Halfway(4, 3)
      BY <1>2, <2>4, RebuildPlaces, 4 \in 0..9, 3 \in 0..9
    <3>2. ASSUME NEW q \in Openers \ {o}, NEW l \in Migrations, Inside(q, l)
          PROVE  l = 4 /\ opener[q].next = 5
      <4>1. AtPlace(q, l, v)
        BY <1>2, <3>1, <3>2 DEF Stuck, Late
      <4>2. l = 4 /\ Halfway(4, 4) = Halfway(4, opener[q].next - 1)
        BY <2>4, <3>1, <4>1 DEF AtPlace
      <4>3. PICK j \in 0..9 : j = opener[q].next - 1
        BY <1>3, <3>2
      <4>4. j = 4
        BY <3>1, <4>2, <4>3, RebuildPlaces
      <4>5. opener[q].next \in Int
        BY OpenerTyped DEF OpenerState
      <4> QED
        BY <4>2, <4>3, <4>4, <4>5
    <3> QED
      BY <1>5, <2>4, <3>1, <3>2 DEF ComesLate, m, n
  <2> QED
    BY <2>2, <2>3, <2>4
<1>6. CASE n # 1
  <2>1. Inside(o, m)
    BY <1>1, <1>6 DEF Inside, m, n
  <2>2. ~Stuck(o, m, v)
    <3> SUFFICES ASSUME Stuck(o, m, v)
                 PROVE  FALSE
      OBVIOUS
    <3>1. Upcoming(o) = Rename("intents_new", "intents") /\ DOMAIN tables = Halfway(4, 3)
      BY <1>1, Statements DEF Stuck, n
    <3>2. "intents" \in DOMAIN tables
      BY <3>1, RebuildPlaces, 3 \in 0..9
    <3> QED
      BY <3>1, <3>2 DEF Succeeds, Rename
  <2>3. ~Late(o, m, v)
    <3> SUFFICES ASSUME Late(o, m, v)
                 PROVE  FALSE
      OBVIOUS
    <3>1. Upcoming(o) = Create("decisions") /\ DOMAIN tables = Halfway(4, 3)
      BY <1>1, Statements DEF Late, n
    <3>2. "decisions" \in DOMAIN tables
      BY <3>1, RebuildPlaces, 3 \in 0..9
    <3> QED
      BY <3>1, <3>2 DEF Succeeds, Create
  <2>4. m = v + 1 /\ DOMAIN tables = Halfway(m, n - 1)
    BY <1>1, <1>2, <2>1, <2>2, <2>3 DEF AtPlace, n
  <2>5. ASSUME NEW q \in Openers \ {o}, NEW l \in Migrations, Inside(q, l)
        PROVE  FALSE
    <3>1. l # m
      BY <1>1, <1>4, <2>1, <2>5 DEF Alone
    <3>2. Late(q, l, v)
      BY <1>2, <2>4, <2>5, <3>1 DEF AtPlace, Stuck
    <3>3. m = 4 /\ n = 5 /\ DOMAIN tables = Halfway(4, 3)
      BY <2>1, <2>4, <3>2 DEF Late, n
    <3>4. Halfway(4, 4) = Halfway(4, 3)
      BY <2>4, <3>3
    <3> QED
      BY <3>4, RebuildPlaces, 4 \in 0..9
  <2> QED
    BY <2>4, <2>5 DEF AtTheFront, m, n
<1> QED
  BY <1>5, <1>6

LEMMA FirstIsCreate ==
  ASSUME NEW S \in SUBSET (1..5), S # {}
  PROVE  /\ \E t : Script[Min(S)][1] = Create(t)
         /\ \A t : Script[Min(S)][1] # Drop(t)
<1>1. Min(S) \in 1..5
  BY MinIsLeast
<1>2. \E t : Script[Min(S)][1] = Create(t)
  BY <1>1, Statements
<1> QED
  BY <1>2 DEF Create, Drop

(* Openers that move to no statement but the first of a script keep the    *)
(* invariant, if what they claim to have behind them is recorded.          *)
LEMMA MoveKeeps ==
  ASSUME StartupInv, UNCHANGED <<tables, applied, stored>>,
         opener' \in [Openers -> OpenerState],
         \A q \in Openers :
           opener'[q] = opener[q] \/ (OpenerOK(q)' /\ (At(q, "up")' => opener'[q].next = 1))
  PROVE  StartupInv'
<1>1. \A q \in Openers, l \in Migrations : Inside(q, l)' => Inside(q, l) /\ opener'[q] = opener[q]
  BY DEF Inside, At, Current
<1>2. StartupTypeOK'
  BY Scripts DEF StartupInv, StartupTypeOK, OpenerState
<1>3. SchemaInv'
  <2>1. PICK v \in 0..5, k \in 0..9 : SchemaAt(v, k)
    BY DEF StartupInv, SchemaInv
  <2>2. \A q \in Openers, l \in Migrations :
          Inside(q, l)' => AtPlace(q, l, v)' \/ Stuck(q, l, v)' \/ Late(q, l, v)'
    <3> SUFFICES ASSUME NEW q \in Openers, NEW l \in Migrations, Inside(q, l)'
                 PROVE  AtPlace(q, l, v)' \/ Stuck(q, l, v)' \/ Late(q, l, v)'
      OBVIOUS
    <3>1. Inside(q, l) /\ opener'[q] = opener[q]
      BY <1>1
    <3>2. AtPlace(q, l, v) \/ Stuck(q, l, v) \/ Late(q, l, v)
      BY <2>1, <3>1 DEF SchemaAt
    <3>3. AtPlace(q, l, v) => AtPlace(q, l, v)'
      BY <3>1 DEF AtPlace
    <3>4. Stuck(q, l, v) => Stuck(q, l, v)'
      BY <3>1 DEF Stuck
    <3>5. Late(q, l, v) => Late(q, l, v)'
      BY <1>1, <3>1, Scripts DEF Late
    <3> QED
      BY <3>2, <3>3, <3>4, <3>5
  <2>3. SchemaAt(v, k)'
    BY <2>1, <2>2 DEF SchemaAt
  <2> QED
    BY <2>3 DEF SchemaInv
<1>4. Alone'
  BY <1>1 DEF StartupInv, Alone
<1>5. OpenerInv'
  BY DEF StartupInv, OpenerInv, OpenerOK, At, Current
<1>6. Copied'
  <2> SUFFICES ASSUME NEW q \in Openers, NEW t \in Proposal, More(q)', (Upcoming(q) = Drop(t))',
                      NEW r \in Rows, <<t, r, FALSE>> \in stored'
               PROVE  Holds(New(t), r)'
    BY DEF Copied
  <2>1. opener'[q] = opener[q]
    <3> SUFFICES ASSUME opener'[q] # opener[q]
                 PROVE  FALSE
      OBVIOUS
    <3>1. OpenerOK(q)' /\ At(q, "up")' /\ opener'[q].next = 1
      BY DEF More
    <3>2. opener'[q].todo \in SUBSET (1..5) /\ opener'[q].todo # {}
      BY <3>1 DEF OpenerOK, OpenerState
    <3> QED
      BY <3>1, <3>2, FirstIsCreate DEF Upcoming, Current
  <2>2. More(q) /\ Upcoming(q) = Drop(t)
    BY <2>1 DEF More, Upcoming, At, Current
  <2> QED
    BY <2>2 DEF StartupInv, Copied, Holds
<1>7. RowsKept'
  BY DEF StartupInv, RowsKept, Holds
<1> QED
  BY <1>2, <1>3, <1>4, <1>5, <1>6, <1>7 DEF StartupInv

LEMMA ClosedTyped == Closed \in OpenerState
BY DEF Closed, OpenerState

(* Openers that fail or die.                                               *)
LEMMA ClosingKeeps ==
  ASSUME StartupInv, UNCHANGED <<tables, applied, stored>>, NEW C \in SUBSET Openers,
         opener' = [q \in Openers |-> IF q \in C THEN Closed ELSE opener[q]]
  PROVE  StartupInv'
<1>1. opener' \in [Openers -> OpenerState]
  BY OpenerTyped, ClosedTyped
<1>2. \A q \in Openers :
        opener'[q] = opener[q] \/ (OpenerOK(q)' /\ (At(q, "up")' => opener'[q].next = 1))
  BY DEF OpenerOK, At, Closed
<1> QED
  BY <1>1, <1>2, MoveKeeps

LEMMA CloseKeeps ==
  ASSUME StartupInv, UNCHANGED <<tables, applied, stored>>, NEW o \in Openers, Close(o)
  PROVE  StartupInv'
<1>1. opener' = [q \in Openers |-> IF q \in {o} THEN Closed ELSE opener[q]]
  BY OpenerTyped DEF Close
<1> QED
  BY <1>1, ClosingKeeps

(* One opener moves.                                                       *)
LEMMA OneMoves ==
  ASSUME StartupInv, UNCHANGED <<tables, applied, stored>>, NEW o \in Openers,
         NEW next \in OpenerState, opener' = [opener EXCEPT ![o] = next],
         OpenerOK(o)', next.pc = "up" => next.next = 1
  PROVE  StartupInv'
<1>1. opener' \in [Openers -> OpenerState] /\ opener'[o] = next
      /\ \A q \in Openers \ {o} : opener'[q] = opener[q]
  BY OpenerTyped
<1>2. \A q \in Openers :
        opener'[q] = opener[q] \/ (OpenerOK(q)' /\ (At(q, "up")' => opener'[q].next = 1))
  BY <1>1 DEF At
<1> QED
  BY <1>1, <1>2, MoveKeeps

LEMMA ConnectKeeps ==
  ASSUME StartupInv, NEW o \in Openers, NEW init \in BOOLEAN, connect(o, init)
  PROVE  StartupInv'
<1>1. PICK next : next = [Closed EXCEPT !.pc = "applied", !.init = init]
  OBVIOUS
<1>2. next \in OpenerState /\ next.pc = "applied"
  BY <1>1, ClosedTyped DEF OpenerState
<1>3. opener' = [opener EXCEPT ![o] = next] /\ UNCHANGED <<tables, applied, stored>>
  BY <1>1 DEF connect
<1>4. OpenerOK(o)'
  BY <1>2, <1>3, OpenerTyped DEF OpenerOK, At
<1> QED
  BY <1>2, <1>3, <1>4, OneMoves

LEMMA ReadAppliedKeeps ==
  ASSUME StartupInv, NEW o \in Openers, ReadApplied(o)
  PROVE  StartupInv'
<1>1. applied \subseteq 1..5 /\ opener[o] \in OpenerState
  BY OpenerTyped, Scripts DEF StartupInv, StartupTypeOK
<1>2. PICK todo : todo = 1..5 \ applied
  OBVIOUS
<1>3. PICK next : next = [opener[o] EXCEPT !.pc = IF todo = {} THEN "count" ELSE "up",
                                           !.todo = todo, !.next = 1]
  OBVIOUS
<1>4. /\ next \in OpenerState /\ next.next = 1 /\ next.todo = todo
      /\ next.pc = IF todo = {} THEN "count" ELSE "up"
  <2>1. todo \in SUBSET (1..5) /\ 1 \in 1..10
    BY <1>2
  <2> QED
    BY <1>1, <1>3, <2>1 DEF OpenerState
<1>5. opener' = [opener EXCEPT ![o] = next] /\ UNCHANGED <<tables, applied, stored>>
  BY <1>2, <1>3, Scripts DEF ReadApplied, Left
<1>6. opener'[o] = next
  BY <1>5, OpenerTyped
<1>7. CASE todo = {}
  <2>1. applied = 1..5
    BY <1>1, <1>2, <1>7
  <2>2. OpenerOK(o)'
    BY <1>4, <1>5, <1>6, <1>7, <2>1, Scripts DEF OpenerOK, At
  <2> QED
    BY <1>4, <1>5, <2>2, OneMoves
<1>8. CASE todo # {}
  <2>1. Min(todo) \in 1..5
    BY <1>2, <1>8, MinIsLeast
  <2>2. 1 <= Len(Script[Min(todo)]) + 1
    BY <2>1, Statements
  <2>3. OpenerOK(o)'
    BY <1>2, <1>4, <1>5, <1>6, <1>8, <2>2, Scripts DEF OpenerOK, At, Current
  <2> QED
    BY <1>4, <1>5, <2>3, OneMoves
<1> QED
  BY <1>7, <1>8

LEMMA CountRulesKeeps ==
  ASSUME StartupInv, NEW o \in Openers, CountRules(o)
  PROVE  StartupInv'
<1>1. opener[o] \in OpenerState /\ OpenerOK(o) /\ At(o, "count")
  BY OpenerTyped DEF StartupInv, OpenerInv, CountRules
<1>2. PICK pc : pc = IF opener[o].init \/ tables["policy_rules"] = {} THEN "seed" ELSE "open"
  OBVIOUS
<1>3. PICK next : next = [opener[o] EXCEPT !.pc = pc]
  OBVIOUS
<1>4. next \in OpenerState /\ next.pc = pc
  BY <1>1, <1>2, <1>3 DEF OpenerState
<1>5. opener' = [opener EXCEPT ![o] = next] /\ UNCHANGED <<tables, applied, stored>>
  BY <1>2, <1>3 DEF CountRules, Goto
<1>6. opener'[o] = next
  BY <1>5, OpenerTyped
<1>7. OpenerOK(o)'
  BY <1>1, <1>2, <1>4, <1>5, <1>6 DEF OpenerOK, At
<1> QED
  BY <1>2, <1>4, <1>5, <1>7, OneMoves

(* Once every script is recorded the schema is whole, and no statement of  *)
(* a script can change it any more.                                        *)
LEMMA OpenSchema ==
  ASSUME applied = 1..5, NEW v \in 0..5, NEW k \in 0..9, SchemaAt(v, k)
  PROVE  /\ v = 5 /\ DOMAIN tables = Schema(1..5)
         /\ "policy_rules" \in DOMAIN tables
         /\ Proposal \subseteq DOMAIN tables
<1>1. v = 5 /\ k = 0
  <2>1. 1..5 = 1..v
    BY DEF SchemaAt
  <2>2. 5 \in 1..v
    BY <2>1, 5 \in 1..5, Zenon
  <2> QED
    BY <2>2 DEF SchemaAt
<1>2. DOMAIN tables = Halfway(5 + 1, 0)
  BY <1>1 DEF SchemaAt
<1>3. Halfway(6, 0) = Schema(1..(6 - 1)) /\ 5 + 1 = 6 /\ 6 - 1 = 5
  <2>1. 6 \in 1..6
    OBVIOUS
  <2> QED
    BY <2>1, Places
<1>4. DOMAIN tables = Schema(1..5)
  BY <1>2, <1>3
<1> QED
  BY <1>1, <1>4, Schemas DEF Proposal

(* Tables that gain rows, under unchanged names.                           *)
LEMMA RowsAdded ==
  ASSUME StartupInv, UNCHANGED applied, NEW o \in Openers,
         \/ opener' = opener
         \/ opener' = [opener EXCEPT ![o].pc = "open"] /\ At(o, "seed")
         \/ Close(o) /\ At(o, "seed"),
         DOMAIN tables' = DOMAIN tables,
         \A t \in DOMAIN tables : tables[t] \subseteq tables'[t]
                                  /\ tables'[t] \subseteq Rows \cup {Fixture},
         opener' # opener => tables'["policy_rules"] # {},
         stored' \subseteq Proposal \X Rows \X BOOLEAN,
         \A t \in Proposal : \A r \in Rows : <<t, r, FALSE>> \in stored' \ stored =>
           Holds(t, r)' /\ \A q \in Openers : ~(More(q) /\ Upcoming(q) = Drop(t))
  PROVE  StartupInv'
<1>1. \A q \in Openers : \/ opener'[q] = opener[q]
                         \/ q = o /\ (At(q, "open")' \/ At(q, "closed")') /\ At(q, "seed")
  <2>1. CASE opener' = opener
    BY <2>1
  <2>2. CASE opener' = [opener EXCEPT ![o].pc = "open"] /\ At(o, "seed")
    BY <2>2, OpenerTyped DEF At, OpenerState
  <2>3. CASE Close(o) /\ At(o, "seed")
    BY <2>3, OpenerTyped DEF At, Close, Closed
  <2> QED
    BY <2>1, <2>2, <2>3
<1>2. \A q \in Openers : At(q, "up")' => opener'[q] = opener[q] /\ At(q, "up")
  BY <1>1 DEF At
<1>3. \A q \in Openers, l \in Migrations : Inside(q, l)' <=> Inside(q, l)
  BY <1>1 DEF Inside, At, Current
<1>4. opener' \in [Openers -> OpenerState]
  <2>1. opener' = [opener EXCEPT ![o].pc = "open"] => opener' \in [Openers -> OpenerState]
    BY OpenerTyped DEF OpenerState
  <2>2. Close(o) => opener' \in [Openers -> OpenerState]
    BY OpenerTyped, ClosedTyped DEF Close
  <2> QED
    BY <2>1, <2>2, OpenerTyped
<1>5. StartupTypeOK'
  BY <1>4, Scripts DEF StartupInv, StartupTypeOK, OpenerState
<1>6. SchemaInv'
  <2>1. PICK v \in 0..5, k \in 0..9 : SchemaAt(v, k)
    BY DEF StartupInv, SchemaInv
  <2>2. \A q \in Openers, l \in Migrations :
          Inside(q, l)' => AtPlace(q, l, v)' \/ Stuck(q, l, v)' \/ Late(q, l, v)'
    <3> SUFFICES ASSUME NEW q \in Openers, NEW l \in Migrations, Inside(q, l)'
                 PROVE  AtPlace(q, l, v)' \/ Stuck(q, l, v)' \/ Late(q, l, v)'
      OBVIOUS
    <3>1. Inside(q, l) /\ opener'[q] = opener[q]
      BY <1>2, <1>3 DEF Inside
    <3>2. AtPlace(q, l, v) \/ Stuck(q, l, v) \/ Late(q, l, v)
      BY <2>1, <3>1 DEF SchemaAt
    <3>3. AtPlace(q, l, v) => AtPlace(q, l, v)'
      BY <3>1 DEF AtPlace
    <3>4. Stuck(q, l, v) => Stuck(q, l, v)'
      BY <3>1 DEF Stuck
    <3>5. Late(q, l, v) => Late(q, l, v)'
      BY <1>2, <1>3, <3>1, Scripts DEF Late, Inside
    <3> QED
      BY <3>2, <3>3, <3>4, <3>5
  <2>3. SchemaAt(v, k)'
    BY <2>1, <2>2 DEF SchemaAt
  <2> QED
    BY <2>3 DEF SchemaInv
<1>7. Alone'
  BY <1>3 DEF StartupInv, Alone
<1>8. OpenerInv'
  <2> SUFFICES ASSUME NEW q \in Openers
               PROVE  OpenerOK(q)'
    BY DEF OpenerInv
  <2>1. OpenerOK(q)
    BY DEF StartupInv, OpenerInv
  <2>2. CASE opener'[q] = opener[q]
    <3>1. At(q, "open") => "policy_rules" \in DOMAIN tables
      <4> SUFFICES ASSUME At(q, "open")
                   PROVE  "policy_rules" \in DOMAIN tables
        OBVIOUS
      <4>1. applied = 1..5
        BY <2>1, Scripts DEF OpenerOK, At
      <4>2. PICK v \in 0..5, k \in 0..9 : SchemaAt(v, k)
        BY DEF StartupInv, SchemaInv
      <4> QED
        BY <4>1, <4>2, OpenSchema
    <3> QED
      BY <2>1, <2>2, <3>1 DEF OpenerOK, At, Current
  <2>3. CASE q = o /\ (At(q, "open")' \/ At(q, "closed")') /\ At(q, "seed")
    BY <2>1, <2>3 DEF OpenerOK, At
  <2> QED
    BY <1>1, <2>2, <2>3
<1>9. Copied'
  <2> SUFFICES ASSUME NEW q \in Openers, NEW t \in Proposal, More(q)', (Upcoming(q) = Drop(t))',
                      NEW r \in Rows, <<t, r, FALSE>> \in stored'
               PROVE  Holds(New(t), r)'
    BY DEF Copied
  <2>1. More(q) /\ Upcoming(q) = Drop(t)
    BY <1>2 DEF More, Upcoming, At, Current
  <2>2. Holds(New(t), r)
    BY <2>1 DEF StartupInv, Copied
  <2> QED
    BY <2>2 DEF Holds
<1>10. RowsKept'
  <2> SUFFICES ASSUME NEW w \in stored', ~w[3]
               PROVE  Holds(w[1], w[2])' \/ Holds(New(w[1]), w[2])'
    BY DEF RowsKept
  <2>1. w = <<w[1], w[2], FALSE>> /\ w[1] \in Proposal /\ w[2] \in Rows
    <3>1. w \in Proposal \X Rows \X BOOLEAN
      BY <1>5 DEF StartupTypeOK
    <3>2. w = <<w[1], w[2], w[3]>> /\ w[3] = FALSE
      BY <3>1
    <3> QED
      BY <3>1, <3>2
  <2>2. CASE w \in stored
    <3>1. Holds(w[1], w[2]) \/ Holds(New(w[1]), w[2])
      BY <2>2 DEF StartupInv, RowsKept
    <3> QED
      BY <3>1 DEF Holds
  <2>3. CASE w \notin stored
    <3>1. <<w[1], w[2], FALSE>> \in stored' \ stored
      BY <2>1, <2>3
    <3> QED
      BY <2>1, <3>1
  <2> QED
    BY <2>2, <2>3
<1> QED
  BY <1>5, <1>6, <1>7, <1>8, <1>9, <1>10 DEF StartupInv

LEMMA SeedKeeps ==
  ASSUME StartupInv, NEW o \in Openers, seed(o)
  PROVE  StartupInv'
<1>1. PICK v \in 0..5, k \in 0..9 : SchemaAt(v, k)
  BY DEF StartupInv, SchemaInv
<1>2. applied = 1..5
  BY Scripts DEF seed, StartupInv, OpenerInv, OpenerOK, At
<1>3. "policy_rules" \in DOMAIN tables
  BY <1>1, <1>2, OpenSchema
<1>4. /\ DOMAIN tables' = DOMAIN tables
      /\ \A t \in DOMAIN tables : tables[t] \subseteq tables'[t]
                                  /\ tables'[t] \subseteq Rows \cup {Fixture}
      /\ tables'["policy_rules"] # {}
  BY <1>3 DEF seed, StartupInv, StartupTypeOK
<1>5. stored' \subseteq Proposal \X Rows \X BOOLEAN /\ stored' = stored
  BY DEF seed, StartupInv, StartupTypeOK
<1> QED
  BY <1>4, <1>5, RowsAdded DEF seed, Goto

LEMMA WriteKeeps ==
  ASSUME StartupInv, NEW o \in Openers, NEW r \in Rows, Write(o, r)
  PROVE  StartupInv'
<1>1. /\ DOMAIN tables' = DOMAIN tables
      /\ \A t \in DOMAIN tables : tables[t] \subseteq tables'[t]
                                  /\ tables'[t] \subseteq Rows \cup {Fixture}
  BY DEF Write, StartupInv, StartupTypeOK
<1>2. stored' \subseteq Proposal \X Rows \X BOOLEAN
  <2>1. \A t \in Proposal : Dropping(t) \in BOOLEAN
    BY DEF Dropping
  <2>2. stored' = stored \cup {<<t, r, Dropping(t)>> : t \in Proposal}
    BY DEF Write
  <2> QED
    BY <2>1, <2>2 DEF StartupInv, StartupTypeOK
<1>3. ASSUME NEW t \in Proposal, NEW w \in Rows, <<t, w, FALSE>> \in stored' \ stored
      PROVE  Holds(t, w)' /\ \A q \in Openers : ~(More(q) /\ Upcoming(q) = Drop(t))
  <2>1. w = r /\ ~Dropping(t)
    <3>1. stored' = stored \cup {<<u, r, Dropping(u)>> : u \in Proposal}
      BY DEF Write
    <3>2. PICK u \in Proposal : <<t, w, FALSE>> = <<u, r, Dropping(u)>>
      BY <1>3, <3>1
    <3>3. t = u /\ w = r /\ Dropping(u) = FALSE
      BY <3>2
    <3> QED
      BY <3>3
  <2>2. t \in DOMAIN tables /\ r \in tables'[t]
    BY DEF Write
  <2> QED
    BY <1>1, <2>1, <2>2 DEF Dropping, Holds
<1>4. opener' = opener /\ applied' = applied
  BY DEF Write
<1> QED
  BY <1>1, <1>2, <1>3, <1>4, RowsAdded

(* Where the scripts drop a table, and what comes before.                  *)
LEMMA WhereDropped ==
  ASSUME NEW m \in Migrations, NEW n \in 1..Len(Script[m]), NEW t, Script[m][n] = Drop(t)
  PROVE  m = 4 /\ n \in {4, 8}
<1>1. (\E u : Script[m][n] = Create(u))
      \/ \E u \in Proposal : /\ m = 4
           /\ \/ Script[m][n] = Copy(u, New(u))
              \/ Script[m][n] = Drop(u) /\ n \in {4, 8}
              \/ Script[m][n] = Rename(New(u), u)
  BY Kinds
<1>2. /\ \A u : Create(u) # Drop(t)
      /\ \A u \in Proposal : Copy(u, New(u)) # Drop(t) /\ Rename(New(u), u) # Drop(t)
  BY DEF Create, Copy, Drop, Rename
<1> QED
  BY <1>1, <1>2

LEMMA BeforeDrop ==
  ASSUME NEW m \in Migrations, NEW n \in 1..9, n + 1 \in 1..Len(Script[m]),
         NEW t \in Proposal, Script[m][n + 1] = Drop(t)
  PROVE  Script[m][n] = Copy(t, New(t))
<1>1. m = 4 /\ n + 1 \in {4, 8}
  BY WhereDropped
<1>2. \/ n + 1 = 4 /\ n = 3
      \/ n + 1 = 8 /\ n = 7
  BY <1>1
<1>3. (n = 3 => t = "intents") /\ (n = 7 => t = "decisions")
  BY <1>1, <1>2, Statements DEF Drop
<1> QED
  BY <1>1, <1>2, <1>3, Statements DEF New

LEMMA SchemaNames ==
  ASSUME NEW v \in 0..5, NEW k \in 0..9, v = 5 => k = 0, v < 5 => k <= Len(Script[v + 1])
  PROVE  Halfway(v + 1, k) \subseteq Schema(Migrations) \cup {New(t) : t \in Proposal}
<1>1. "intents_new" = New("intents") /\ "decisions_new" = New("decisions")
      /\ "intents" \in Proposal /\ "decisions" \in Proposal
  BY DEF New, Proposal
<1>2. PICK names : names = Halfway(v + 1, k)
  OBVIOUS
<1>3. \A n \in 0..5 : Schema(1..n) \subseteq Schema(1..5)
  <2> TAKE n \in 0..5
  <2>1. n = 0 \/ n = 1 \/ n = 2 \/ n = 3 \/ n = 4 \/ n = 5
    OBVIOUS
  <2> QED
    BY <2>1, Schemas
<1>4. CASE k = 0
  <2>1. v + 1 \in 1..6 /\ (v + 1) - 1 = v
    OBVIOUS
  <2>2. \A n \in 1..6 : Halfway(n, 0) = Schema(1..(n - 1))
    BY Places
  <2>3. names = Schema(1..v)
    BY <1>2, <1>4, <2>1, <2>2, Zenon
  <2> QED
    BY <1>2, <1>3, <2>3, Scripts
<1>5. CASE k # 0 /\ v # 3
  <2>1. v + 1 \in Migrations /\ (v + 1 = 1 \/ v + 1 = 2 \/ v + 1 = 3 \/ v + 1 = 5)
        /\ k <= Len(Script[v + 1]) /\ k \in 1..9
    BY <1>5, Scripts
  <2>2. PICK m \in Migrations : m = v + 1
    BY <2>1
  <2>3. PICK e : e = Len(Script[m])
    OBVIOUS
  <2>4. (m \in {1, 2, 3} /\ e = 2) \/ (m = 5 /\ e = 1)
    BY <2>1, <2>2, <2>3, Statements
  <2>5. k <= e
    BY <2>1, <2>2, <2>3, Zenon
  <2>6. (m \in {1, 2, 3} /\ k = 1) \/ (m \in {1, 2, 3, 5} /\ k = e)
    BY <2>1, <2>4, <2>5
  <2>7. CASE m \in {1, 2, 3} /\ k = 1
    BY <1>2, <2>2, <2>7, Places, Schemas, Scripts
  <2>8. CASE k = e
    <3>1. Halfway(m, Len(Script[m])) = Schema(1..m) /\ m \in 0..5
      <4>1. \A l \in 1..5 : Halfway(l, Len(Script[l])) = Schema(1..l)
        BY Places
      <4>2. m \in 1..5
        BY Scripts
      <4>3. Halfway(m, Len(Script[m])) = Schema(1..m)
        BY <4>1, <4>2, Zenon
      <4> QED
        BY <4>2, <4>3
    <3> QED
      BY <1>2, <1>3, <2>2, <2>3, <2>8, <3>1, Scripts
  <2> QED
    BY <2>6, <2>7, <2>8
<1>6. CASE k # 0 /\ v = 3
  <2>1. v + 1 = 4
    BY <1>6
  <2>2. names = (Schema(1..3) \ Dropped(k)) \cup Built(k)
    BY <1>2, <1>6, <2>1 DEF Halfway
  <2>3. Built(k) \subseteq {"attestations", "intents_new", "decisions_new"}
    BY DEF Built
  <2>4. "attestations" \in Schema(1..5)
    BY Schemas
  <2> QED
    BY <1>1, <1>2, <1>3, <2>2, <2>3, <2>4, 3 \in 0..5, Scripts
<1> QED
  BY <1>4, <1>5, <1>6

LEMMA NewNames ==
  \A t, u \in Proposal : New(t) # u /\ (New(t) = New(u) => t = u)
BY DEF New, Proposal

(* No statement loses a row that was in its table when it was copied: a    *)
(* table is dropped only by who has copied it.                             *)
LEMMA StatementKeepsRows ==
  ASSUME StartupInv, NEW o \in Openers, More(o), Succeeds(Upcoming(o)),
         tables' = After(Upcoming(o)), UNCHANGED stored
  PROVE  /\ RowsKept'
         /\ \A t \in DOMAIN tables' : tables'[t] \subseteq Rows \cup {Fixture}
<1> DEFINE m == Current(o)
           n == opener[o].next
           s == Upcoming(o)
<1>1. m \in Migrations /\ n \in 1..Len(Script[m]) /\ s = Script[m][n]
  BY CurrentIs, Scripts DEF More, Upcoming
<1>2. \A t \in DOMAIN tables : tables[t] \subseteq Rows \cup {Fixture}
  BY DEF StartupInv, StartupTypeOK
<1>3. \A w \in stored' : w \in stored /\ w[1] \in Proposal /\ w[2] \in Rows
         /\ (~w[3] => Holds(w[1], w[2]) \/ Holds(New(w[1]), w[2]))
  BY DEF StartupInv, StartupTypeOK, RowsKept
<1> HIDE DEF m, n, s
<1>4. CASE \E t : s = Create(t)
  <2>1. PICK t : s = Create(t)
    BY <1>4
  <2>2. t \notin DOMAIN tables
    BY <2>1 DEF Succeeds, Create, s
  <2>3. /\ DOMAIN tables' = DOMAIN tables \cup {t}
        /\ \A u \in DOMAIN tables : tables'[u] = tables[u]
        /\ tables'[t] = {}
    <3>1. tables' = After(Create(t))
      BY <2>1 DEF s
    <3> QED
      BY <2>2, <3>1, AfterCreate
  <2> QED
    BY <1>2, <1>3, <2>3 DEF RowsKept, Holds
<1>5. CASE \E t \in Proposal : s = Copy(t, New(t))
  <2>1. PICK t \in Proposal : s = Copy(t, New(t))
    BY <1>5
  <2>2. t \in DOMAIN tables /\ New(t) \in DOMAIN tables /\ t # New(t)
    BY <2>1, NewNames DEF Succeeds, Copy, s
  <2>3. /\ DOMAIN tables' = DOMAIN tables
        /\ \A u \in DOMAIN tables \ {New(t)} : tables'[u] = tables[u]
        /\ tables'[New(t)] = tables[New(t)] \cup tables[t]
    BY <2>1, <2>2, AfterCopy DEF s
  <2> QED
    BY <1>2, <1>3, <2>2, <2>3 DEF RowsKept, Holds
<1>6. CASE \E t \in Proposal : s = Drop(t)
  <2>1. PICK t \in Proposal : s = Drop(t)
    BY <1>6
  <2>2. /\ DOMAIN tables' = DOMAIN tables \ {t}
        /\ \A u \in DOMAIN tables \ {t} : tables'[u] = tables[u]
    BY <2>1, AfterDrop DEF s
  <2>3. \A r \in Rows : <<t, r, FALSE>> \in stored => Holds(New(t), r)
    BY <2>1 DEF StartupInv, Copied, s
  <2>4. ASSUME NEW w \in stored', ~w[3]
        PROVE  Holds(w[1], w[2])' \/ Holds(New(w[1]), w[2])'
    <3>1. w = <<w[1], w[2], FALSE>> /\ w[1] \in Proposal /\ w[2] \in Rows /\ w \in stored
      <4>1. w \in Proposal \X Rows \X BOOLEAN /\ w \in stored
        BY <1>3, <2>4 DEF StartupInv, StartupTypeOK
      <4>2. w = <<w[1], w[2], w[3]>> /\ w[3] = FALSE
        BY <2>4, <4>1
      <4> QED
        BY <4>1, <4>2
    <3>2. w[1] = t => Holds(New(t), w[2])
      BY <2>3, <3>1
    <3>3. New(w[1]) # t /\ New(t) # t
      BY <3>1, NewNames
    <3> QED
      BY <1>3, <2>2, <2>4, <3>2, <3>3 DEF Holds
  <2> QED
    BY <1>2, <2>2, <2>4 DEF RowsKept
<1>7. CASE \E t \in Proposal : s = Rename(New(t), t)
  <2>1. PICK t \in Proposal : s = Rename(New(t), t)
    BY <1>7
  <2>2. New(t) \in DOMAIN tables /\ t \notin DOMAIN tables
    BY <2>1 DEF Succeeds, Rename, s
  <2>3. /\ DOMAIN tables' = (DOMAIN tables \ {New(t)}) \cup {t}
        /\ \A u \in DOMAIN tables \ {New(t)} : tables'[u] = tables[u]
        /\ tables'[t] = tables[New(t)]
    <3>1. tables' = After(Rename(New(t), t))
      BY <2>1 DEF s
    <3> QED
      BY <2>2, <3>1, AfterRename
  <2>4. ASSUME NEW w \in stored', ~w[3]
        PROVE  Holds(w[1], w[2])' \/ Holds(New(w[1]), w[2])'
    <3>1. w[1] \in Proposal /\ (Holds(w[1], w[2]) \/ Holds(New(w[1]), w[2]))
      BY <1>3, <2>4
    <3>2. w[1] # New(t) /\ (New(w[1]) = New(t) => w[1] = t)
      BY <3>1, NewNames
    <3> QED
      BY <2>2, <2>3, <3>1, <3>2 DEF Holds
  <2> QED
    BY <1>2, <2>2, <2>3, <2>4 DEF RowsKept
<1> QED
  BY <1>1, <1>4, <1>5, <1>6, <1>7, Kinds

LEMMA SucceedingKeeps ==
  ASSUME StartupInv, NEW o \in Openers, More(o), Succeeds(Upcoming(o)),
         tables' = After(Upcoming(o)), opener' = [opener EXCEPT ![o].next = @ + 1],
         UNCHANGED <<applied, stored>>
  PROVE  StartupInv'
<1>0. PICK m, n : m = Current(o) /\ n = opener[o].next
  OBVIOUS
<1>1. /\ At(o, "up") /\ m \in 1..5 /\ m \in Migrations /\ n \in 1..Len(Script[m])
      /\ Upcoming(o) = Script[m][n]
  BY <1>0, CurrentIs, Scripts DEF More, Upcoming
<1>2. PICK len : len = Len(Script[m])
  OBVIOUS
<1>3. len \in 1..9 /\ n \in 1..len /\ n \in 1..9 /\ n + 1 \in 1..10 /\ (n + 1) - 1 = n /\ n + 1 > 1
  <2>1. len \in 1..9
    BY <1>1, <1>2, Statements
  <2>2. n \in 1..len
    BY <1>1, <1>2, Zenon
  <2> QED
    BY <2>1, <2>2
<1>4. PICK moved : moved = [opener[o] EXCEPT !.next = n + 1]
  OBVIOUS
<1>5. /\ moved \in OpenerState /\ moved.next = n + 1 /\ moved.pc = "up"
      /\ moved.todo = opener[o].todo
  BY <1>0, <1>1, <1>3, <1>4, OpenerTyped DEF OpenerState, At
<1>6. /\ opener' \in [Openers -> OpenerState] /\ opener'[o] = moved
      /\ \A q \in Openers \ {o} : opener'[q] = opener[q]
  BY <1>0, <1>4, <1>5, OpenerTyped
<1>7. PICK v \in 0..5, k \in 0..9 : SchemaAt(v, k)
  BY DEF StartupInv, SchemaInv
<1>8. AtTheFront(o, v) \/ ComesLate(o, v)
  BY <1>7, WhoSucceeds
<1>9. /\ \A q \in Openers \ {o} : \A l \in Migrations : Inside(q, l)' <=> Inside(q, l)
      /\ \A l \in Migrations : Inside(o, l)' <=> l = m
      /\ Current(o)' = m
  BY <1>0, <1>3, <1>5, <1>6 DEF Inside, At, Current
<1>10. SchemaInv'
  <2>1. CASE AtTheFront(o, v)
    <3>1. /\ m = v + 1 /\ DOMAIN tables = Halfway(m, n - 1)
          /\ \A q \in Openers \ {o} : \A l \in Migrations : ~Inside(q, l)
      BY <1>0, <2>1 DEF AtTheFront
    <3>2. DOMAIN tables' = Halfway(m, n)
      BY <1>1, <3>1, NextPlace
    <3>3. v # 5 /\ applied' = 1..v /\ n \in 0..9 /\ n <= Len(Script[v + 1])
      BY <1>1, <1>2, <1>3, <1>7, <3>1 DEF SchemaAt
    <3>4. AtPlace(o, m, v)'
      BY <1>3, <1>5, <1>6, <3>1, <3>2 DEF AtPlace
    <3>5. \A q \in Openers, l \in Migrations : Inside(q, l)' => q = o /\ l = m
      BY <1>9, <3>1
    <3>6. SchemaAt(v, n)'
      BY <3>1, <3>2, <3>3, <3>4, <3>5 DEF SchemaAt
    <3> QED
      BY <3>3, <3>6 DEF SchemaInv
  <2>2. CASE ComesLate(o, v)
    <3>1. /\ v = 3 /\ m = 2 /\ n = 1 /\ DOMAIN tables = Halfway(4, 4)
          /\ \A q \in Openers \ {o} : \A l \in Migrations :
               Inside(q, l) => l = 4 /\ opener[q].next = 5
      BY <1>0, <2>2 DEF ComesLate
    <3>2. Upcoming(o) = Create("intents")
      BY <1>1, <3>1, Statements
    <3>3. "intents" \notin DOMAIN tables
      BY <3>2 DEF Succeeds, Create
    <3>4. DOMAIN tables' = Halfway(4, 4) \cup {"intents"}
      BY <3>1, <3>2, <3>3, AfterCreate
    <3>5. Halfway(4, 4) \cup {"intents"} = Halfway(4, 3)
      BY Places, Schemas
    <3>6. \A q \in Openers : Inside(q, 4)' => q # o /\ opener'[q].next = 5
      BY <1>6, <1>9, <3>1, Scripts
    <3>7. Late(o, m, v)'
      <4>1. opener'[o].next = 2 /\ DOMAIN tables' = Halfway(4, 3)
        <5>1. opener'[o].next = 1 + 1
          BY <1>5, <1>6, <3>1
        <5>2. DOMAIN tables' = Halfway(4, 3)
          BY <3>4, <3>5, Zenon
        <5> QED
          BY <5>1, <5>2
      <4>2. \A q \in Openers : Inside(q, 4)' => opener'[q].next = 5
        BY <3>6
      <4> QED
        BY <3>1, <4>1, <4>2 DEF Late
    <3>8. \A q \in Openers \ {o} : \A l \in Migrations : Inside(q, l)' => Stuck(q, l, v)'
      BY <1>6, <1>9, <3>1, <3>4, <3>5 DEF Stuck
    <3>9. 3 <= Len(Script[3 + 1]) /\ applied' = 1..3 /\ DOMAIN tables' = Halfway(3 + 1, 3)
      BY <1>7, <3>1, <3>4, <3>5, Statements DEF SchemaAt
    <3>10. SchemaAt(3, 3)'
      BY <1>9, <3>1, <3>7, <3>8, <3>9 DEF SchemaAt
    <3> QED
      BY <3>10 DEF SchemaInv
  <2> QED
    BY <1>8, <2>1, <2>2
<1>11. Alone'
  <2>1. \A q \in Openers \ {o} : ~Inside(q, m)'
    BY <1>0, <1>1, <1>8, <1>9 DEF AtTheFront, ComesLate
  <2> QED
    BY <1>9, <2>1 DEF StartupInv, Alone
<1>12. StartupTypeOK'
  <2>1. DOMAIN tables' \subseteq Schema(Migrations) \cup {New(t) : t \in Proposal}
    BY <1>10, SchemaNames DEF SchemaInv, SchemaAt
  <2>2. \A t \in DOMAIN tables' : tables'[t] \subseteq Rows \cup {Fixture}
    BY StatementKeepsRows
  <2> QED
    BY <1>6, <2>1, <2>2, Scripts DEF StartupInv, StartupTypeOK, OpenerState
<1>13. OpenerInv'
  <2> SUFFICES ASSUME NEW q \in Openers
               PROVE  OpenerOK(q)'
    BY DEF OpenerInv
  <2>1. OpenerOK(q)
    BY DEF StartupInv, OpenerInv
  <2>2. CASE q = o
    <3>1. n + 1 <= Len(Script[m]) + 1
      BY <1>2, <1>3
    <3> QED
      BY <1>0, <1>1, <1>5, <1>6, <1>9, <2>1, <2>2, <3>1 DEF OpenerOK, At
  <2>3. CASE q # o
    <3>1. ~At(q, "open")
      <4> SUFFICES ASSUME At(q, "open")
                   PROVE  FALSE
        OBVIOUS
      <4>1. applied = 1..5
        BY <2>1, Scripts DEF OpenerOK, At
      <4>2. v = 5
        BY <1>7, <4>1, OpenSchema
      <4> QED
        BY <1>0, <1>1, <1>8, <4>2 DEF AtTheFront, ComesLate
    <3> QED
      BY <1>6, <2>1, <2>3, <3>1 DEF OpenerOK, At, Current
  <2> QED
    BY <2>2, <2>3
<1>14. Copied'
  <2> SUFFICES ASSUME NEW q \in Openers, NEW t \in Proposal, More(q)', (Upcoming(q) = Drop(t))',
                      NEW r \in Rows, <<t, r, FALSE>> \in stored'
               PROVE  Holds(New(t), r)'
    BY DEF Copied
  <2>1. CASE q = o
    <3>1. Script[m][n + 1] = Drop(t) /\ n + 1 \in 1..Len(Script[m])
      <4>1. opener'[o].next = n + 1 /\ Current(o)' = m
        BY <1>5, <1>6, <1>9
      <4>2. Script[m][n + 1] = Drop(t)
        BY <2>1, <4>1 DEF Upcoming
      <4>3. n + 1 <= len
        BY <1>2, <2>1, <4>1 DEF More
      <4>4. n + 1 \in 1..len
        BY <1>3, <4>3
      <4> QED
        BY <1>2, <4>2, <4>4
    <3>2. Upcoming(o) = Copy(t, New(t))
      BY <1>1, <1>3, <3>1, BeforeDrop
    <3>3. t \in DOMAIN tables /\ New(t) \in DOMAIN tables /\ t # New(t)
      BY <3>2, NewNames DEF Succeeds, Copy
    <3>4. /\ DOMAIN tables' = DOMAIN tables
          /\ tables'[New(t)] = tables[New(t)] \cup tables[t]
      BY <3>2, <3>3, AfterCopy
    <3>5. Holds(t, r) \/ Holds(New(t), r)
      BY DEF StartupInv, RowsKept
    <3> QED
      BY <3>3, <3>4, <3>5 DEF Holds
  <2>2. CASE q # o
    <3>1. opener'[q] = opener[q] /\ More(q) /\ Upcoming(q) = Drop(t)
      BY <1>6, <2>2 DEF More, Upcoming, At, Current
    <3>2. Current(q) \in Migrations /\ opener[q].next \in 1..Len(Script[Current(q)])
      BY <3>1, CurrentIs, Scripts DEF More
    <3>3. Current(q) = 4 /\ opener[q].next \in {4, 8}
      BY <3>1, <3>2, WhereDropped DEF Upcoming
    <3>4. Inside(q, 4) /\ opener[q].next # 5
      BY <3>1, <3>3 DEF Inside, More
    <3> QED
      BY <1>8, <2>2, <3>4, Scripts DEF AtTheFront, ComesLate
  <2> QED
    BY <2>1, <2>2
<1>15. RowsKept'
  BY StatementKeepsRows
<1> QED
  BY <1>10, <1>11, <1>12, <1>13, <1>14, <1>15 DEF StartupInv

LEMMA StatementKeeps ==
  ASSUME StartupInv, NEW o \in Openers, Statement(o)
  PROVE  StartupInv'
<1>1. CASE Succeeds(Upcoming(o))
  BY <1>1, SucceedingKeeps DEF Statement
<1>2. CASE ~Succeeds(Upcoming(o))
  BY <1>2, CloseKeeps DEF Statement
<1> QED
  BY <1>1, <1>2

LEMMA RecordKeeps ==
  ASSUME StartupInv, NEW o \in Openers, Record(o)
  PROVE  StartupInv'
<1>1. CASE Current(o) \in applied
  BY <1>1, CloseKeeps DEF Record
<1>2. CASE Current(o) \notin applied
  <2>0. PICK m, todo : m = Current(o) /\ todo = opener[o].todo \ {m}
    OBVIOUS
  <2>1. /\ At(o, "up") /\ ~More(o) /\ m \in 1..5 /\ m \in Migrations /\ m \in opener[o].todo
        /\ opener[o].next = Len(Script[m]) + 1
    BY <2>0, CurrentIs, Scripts DEF Record
  <2>2. PICK len : len = Len(Script[m])
    OBVIOUS
  <2>3. len \in 1..9 /\ (m = 4 => len = 9) /\ opener[o].next = len + 1 /\ (len + 1) - 1 = len
    <3>1. len \in 1..9 /\ (m = 4 => len = 9)
      BY <2>1, <2>2, Statements
    <3> QED
      BY <2>1, <2>2, <3>1
  <2>4. PICK v \in 0..5, k \in 0..9 : SchemaAt(v, k)
    BY DEF StartupInv, SchemaInv
  <2>5. m = v + 1 /\ v \in 0..4
    <3>1. m <= v + 1 /\ m \notin 1..v
      BY <1>2, <2>0, <2>1, <2>4, NotAhead DEF SchemaAt
    <3> QED
      BY <2>1, <3>1
  <2>6. Inside(o, m)
    BY <2>0, <2>1, <2>3 DEF Inside
  <2>7. DOMAIN tables = Halfway(m, len)
    <3>1. AtPlace(o, m, v) \/ Stuck(o, m, v) \/ Late(o, m, v)
      BY <2>1, <2>4, <2>6 DEF SchemaAt
    <3> QED
      BY <2>3, <2>5, <3>1 DEF AtPlace, Stuck, Late
  <2>8. DOMAIN tables = Halfway(m + 1, 0)
    <3>1. Halfway(m, Len(Script[m])) = Schema(1..m) /\ Halfway(m + 1, 0) = Schema(1..((m + 1) - 1))
      <4>1. m \in 1..5 /\ m + 1 \in 1..6
        BY <2>1
      <4>2. \A l \in 1..5 : Halfway(l, Len(Script[l])) = Schema(1..l)
        BY Places
      <4>3. \A l \in 1..6 : Halfway(l, 0) = Schema(1..(l - 1))
        BY Places
      <4> QED
        BY <4>1, <4>2, <4>3, Zenon
    <3>2. (m + 1) - 1 = m
      BY <2>1
    <3> QED
      BY <2>2, <2>7, <3>1, <3>2
  <2>9. \A q \in Openers \ {o} : \A l \in Migrations : ~Inside(q, l)
    <3> SUFFICES ASSUME NEW q \in Openers \ {o}, NEW l \in Migrations, Inside(q, l)
                 PROVE  FALSE
      OBVIOUS
    <3>1. l # m
      BY <2>1, <2>6 DEF StartupInv, Alone
    <3>2. Late(q, l, v)
      BY <2>4, <2>5, <3>1 DEF SchemaAt, AtPlace, Stuck
    <3> QED
      BY <2>3, <2>5, <2>6, <3>2 DEF Late
  <2>10. PICK next : next = [opener[o] EXCEPT !.pc = IF todo = {} THEN "count" ELSE "up",
                                              !.todo = todo, !.next = 1]
    OBVIOUS
  <2>11. /\ next \in OpenerState /\ next.next = 1 /\ next.todo = todo
         /\ next.pc = IF todo = {} THEN "count" ELSE "up"
         /\ todo \in SUBSET (1..5)
    <3>1. opener[o] \in OpenerState
      BY OpenerTyped
    <3>2. todo \in SUBSET (1..5) /\ 1 \in 1..10
      BY <2>0, <3>1 DEF OpenerState
    <3> QED
      BY <2>10, <3>1, <3>2 DEF OpenerState
  <2>12. /\ opener' = [opener EXCEPT ![o] = next] /\ UNCHANGED <<tables, stored>>
         /\ applied' = applied \cup {m}
    BY <1>2, <2>0, <2>10 DEF Record, Left
  <2>13. /\ opener' \in [Openers -> OpenerState] /\ opener'[o] = next
         /\ \A q \in Openers \ {o} : opener'[q] = opener[q]
    BY <2>11, <2>12, OpenerTyped
  <2>14. \A q \in Openers, l \in Migrations : ~Inside(q, l)'
    BY <2>9, <2>11, <2>13 DEF Inside, At, Current
  <2>15. SchemaInv'
    <3>1. applied' = 1..m
      BY <2>4, <2>5, <2>12 DEF SchemaAt
    <3>2. m < 5 => 0 <= Len(Script[m + 1])
      <4>1. m < 5 => m + 1 \in 1..5
        BY <2>1
      <4>2. \A l \in 1..5 : 0 <= Len(Script[l])
        BY Statements
      <4> QED
        BY <4>1, <4>2
    <3>3. SchemaAt(m, 0)'
      BY <2>8, <2>12, <2>14, <3>1, <3>2 DEF SchemaAt
    <3> QED
      BY <2>1, <3>3 DEF SchemaInv
  <2>16. Alone'
    BY <2>14 DEF Alone
  <2>17. StartupTypeOK'
    BY <2>1, <2>12, <2>13, Scripts DEF StartupInv, StartupTypeOK, OpenerState
  <2>18. OpenerInv'
    <3> SUFFICES ASSUME NEW q \in Openers
                 PROVE  OpenerOK(q)'
      BY DEF OpenerInv
    <3>1. OpenerOK(q)
      BY DEF StartupInv, OpenerInv
    <3>2. CASE q # o
      <4>1. opener[q].pc \notin {"count", "seed", "open"}
        BY <1>2, <2>0, <2>1, <3>1 DEF OpenerOK
      <4> QED
        BY <2>12, <2>13, <3>1, <3>2, <4>1 DEF OpenerOK, At, Current
    <3>3. CASE q = o /\ todo = {}
      <4>1. 1..5 \ opener[o].todo \subseteq applied /\ opener[o].todo \subseteq {m}
        BY <2>0, <2>1, <3>1, <3>3, Scripts DEF OpenerOK
      <4>2. applied' = 1..5
        BY <2>12, <2>17, <4>1, Scripts DEF StartupTypeOK
      <4> QED
        BY <2>11, <2>13, <3>3, <4>2, Scripts DEF OpenerOK, At
    <3>4. CASE q = o /\ todo # {}
      <4>1. Min(todo) \in 1..5
        BY <2>11, <3>4, MinIsLeast
      <4>2. 1 <= Len(Script[Min(todo)]) + 1
        BY <4>1, Statements
      <4>3. Migrations \ todo \subseteq applied'
        BY <2>0, <2>1, <2>12, <3>1, <3>4 DEF OpenerOK
      <4> QED
        BY <2>11, <2>13, <3>4, <4>2, <4>3 DEF OpenerOK, At, Current
    <3> QED
      BY <3>2, <3>3, <3>4
  <2>19. Copied'
    <3> SUFFICES ASSUME NEW q \in Openers, NEW t \in Proposal, More(q)', (Upcoming(q) = Drop(t))',
                        NEW r \in Rows, <<t, r, FALSE>> \in stored'
                 PROVE  Holds(New(t), r)'
      BY DEF Copied
    <3>1. q # o
      <4> SUFFICES ASSUME q = o
                   PROVE  FALSE
        OBVIOUS
      <4>1. todo # {} /\ opener'[o].next = 1 /\ opener'[o].todo = todo
        BY <2>11, <2>13 DEF More, At
      <4> QED
        BY <2>11, <4>1, FirstIsCreate DEF Upcoming, Current
    <3>2. More(q) /\ Upcoming(q) = Drop(t)
      BY <2>13, <3>1 DEF More, Upcoming, At, Current
    <3> QED
      BY <2>12, <3>2 DEF StartupInv, Copied, Holds
  <2>20. RowsKept'
    BY <2>12 DEF StartupInv, RowsKept, Holds
  <2> QED
    BY <2>15, <2>16, <2>17, <2>18, <2>19, <2>20 DEF StartupInv
<1> QED
  BY <1>1, <1>2

LEMMA OpeningKeeps ==
  ASSUME StartupInv, NEW o \in Openers, Opening(o)
  PROVE  StartupInv'
<1>1. CASE OpenFails(o)
  BY <1>1, CloseKeeps DEF OpenFails
<1> QED
  BY <1>1, ReadAppliedKeeps, StatementKeeps, RecordKeeps, CountRulesKeeps, SeedKeeps DEF Opening

LEMMA StartupInitial ==
  ASSUME NEW version \in 0..5, NEW present, StartupInit(version, present)
  PROVE  StartupInv
<1>1. /\ applied = 1..version /\ DOMAIN tables = Schema(1..version)
      /\ stored = (Proposal \cap Schema(1..version)) \X Old \X {FALSE}
      /\ opener \in [Openers -> OpenerState]
      /\ \A q \in Openers : opener[q].pc \in {"closed", "absent"}
  <2>1. [Closed EXCEPT !.pc = "absent"] \in OpenerState /\ [Closed EXCEPT !.pc = "absent"].pc = "absent"
    BY ClosedTyped DEF OpenerState
  <2> QED
    BY <2>1, ClosedTyped DEF StartupInit, Closed
<1>2. /\ \A t \in DOMAIN tables : tables[t] \subseteq Rows \cup {Fixture}
      /\ \A t \in Proposal \cap DOMAIN tables : tables[t] = Old
  <2>1. Old \subseteq Rows
    BY StartupAssumption
  <2> QED
    BY <2>1 DEF StartupInit, Proposal
<1>3. \A q \in Openers : ~At(q, "up") /\ \A l \in Migrations : ~Inside(q, l)
  BY <1>1 DEF At, Inside
<1>4. SchemaAt(version, 0)
  <2>1. version + 1 \in 1..6 /\ (version + 1) - 1 = version
    OBVIOUS
  <2>2. \A n \in 1..6 : Halfway(n, 0) = Schema(1..(n - 1))
    BY Places
  <2>3. Halfway(version + 1, 0) = Schema(1..version)
    BY <2>1, <2>2, Zenon
  <2>4. version < 5 => 0 <= Len(Script[version + 1])
    <3>1. version < 5 => version + 1 \in 1..5
      OBVIOUS
    <3>2. \A l \in 1..5 : 0 <= Len(Script[l])
      BY Statements
    <3> QED
      BY <3>1, <3>2
  <2> QED
    BY <1>1, <1>3, <2>3, <2>4 DEF SchemaAt
<1>5. SchemaInv
  BY <1>4 DEF SchemaInv
<1>6. StartupTypeOK
  <2>1. DOMAIN tables \subseteq Schema(Migrations) \cup {New(t) : t \in Proposal}
    <3>1. version \in 0..5 /\ 0 \in 0..9 /\ (version = 5 => 0 = 0)
          /\ (version < 5 => 0 <= Len(Script[version + 1]))
          /\ DOMAIN tables = Halfway(version + 1, 0)
      BY <1>4 DEF SchemaAt
    <3> QED
      BY <3>1, SchemaNames, Zenon
  <2>2. applied \subseteq 1..5 /\ stored \subseteq Proposal \X Rows \X BOOLEAN
    <3>1. Old \subseteq Rows /\ {FALSE} \subseteq BOOLEAN
      BY StartupAssumption
    <3>2. (Proposal \cap Schema(1..version)) \X Old \X {FALSE} \subseteq Proposal \X Rows \X BOOLEAN
      BY <3>1
    <3>3. stored \subseteq Proposal \X Rows \X BOOLEAN
      BY <1>1, <3>2, Zenon
    <3>4. applied \subseteq 1..5
      <4>1. \A n \in 1..version : n \in 1..5
        OBVIOUS
      <4>2. applied = 1..version
        BY <1>1
      <4> QED
        BY <4>1, <4>2
    <3> QED
      BY <3>3, <3>4
  <2>3. applied \subseteq Migrations
    BY <2>2, Scripts
  <2>4. opener \in [Openers ->
          [pc : {"absent", "closed", "applied", "up", "count", "seed", "open"},
           todo : SUBSET Migrations, next : 1..10, init : BOOLEAN]]
    BY <1>1, Scripts, Zenon DEF OpenerState
  <2> QED
    BY <1>2, <2>1, <2>2, <2>3, <2>4, Zenon DEF StartupTypeOK
<1>7. RowsKept
  BY <1>1, <1>2 DEF RowsKept, Holds
<1>8. Alone /\ OpenerInv /\ Copied
  BY <1>1, <1>3 DEF Alone, OpenerInv, OpenerOK, Copied, More, At
<1> QED
  BY <1>5, <1>6, <1>7, <1>8 DEF StartupInv

-----------------------------------------------------------------------------
(***************************************************************************)
(* The server.                                                             *)
(***************************************************************************)

LEMMA AttemptsTyped == ATTEMPTS \in Nat /\ ATTEMPTS >= 1
BY ApiAssumption

LEMMA ConfigTyped == ConfigUrls \in Seq(AllUrls) /\ Range(ConfigUrls) \subseteq AllUrls
<1>1. Range(ConfigUrls) \subseteq AllUrls
  BY DEF AllUrls
<1>2. PICK R : R = Range(ConfigUrls)
  OBVIOUS
<1>3. ConfigUrls \in Seq(R)
  BY <1>2, ApiAssumption
<1> QED
  BY <1>1, <1>2, <1>3

LEMMA IdleTyped == Idle \in ThreadState
BY AttemptsTyped DEF Idle, ThreadState

(* The fields of a thread after it has left a URL for the next.            *)
LEMMA NextUrlIs ==
  ASSUME NEW self \in ThreadState
  PROVE  LET next == NextUrl(self) IN
         /\ next \in ThreadState
         /\ next.pc = "publish" /\ next.tries = 0
         /\ next.at[1] = self.at[1] /\ next.at[2] = self.at[2] + 1
         /\ next.request = self.request /\ next.url = self.url
         /\ next.client = self.client /\ next.dispatcher = self.dispatcher
         /\ next.due = self.due /\ next.settled = self.settled
         /\ next.failures = self.failures
<1>1. PICK at : at = [self.at EXCEPT ![2] = @ + 1]
  OBVIOUS
<1>2. self.at \in (Nat \ {0}) \X (Nat \ {0})
  BY DEF ThreadState
<1>3. at \in (Nat \ {0}) \X (Nat \ {0}) /\ at[1] = self.at[1] /\ at[2] = self.at[2] + 1
  BY <1>1, <1>2
<1>4. NextUrl(self) = [self EXCEPT !.pc = "publish", !.at = at, !.tries = 0]
  BY <1>1 DEF NextUrl, ThreadState
<1>5. 0 \in 0..(ATTEMPTS - 1)
  BY AttemptsTyped
<1> HIDE DEF NextUrl
<1> QED
  BY <1>3, <1>4, <1>5 DEF ThreadState

(* Buses and dispatchers only grow, and are not forgotten, while the       *)
(* server runs.                                                            *)
Grows ==
  /\ Len(subscribers) <= Len(subscribers')
  /\ \A c \in 1..Len(subscribers) :
       /\ Len(subscribers[c]) <= Len(subscribers'[c])
       /\ \A i \in 1..Len(subscribers[c]) : subscribers'[c][i] = subscribers[c][i]
  /\ Len(urls) <= Len(urls')
  /\ \A d \in 1..Len(urls) :
       /\ Len(urls[d]) <= Len(urls'[d])
       /\ \A j \in 1..Len(urls[d]) : urls'[d][j] = urls[d][j]
  /\ dispatcher # 0 => dispatcher' # 0

MemoryTyped ==
  /\ subscribers \in Seq(Seq(Nat)) /\ urls \in Seq(Seq(AllUrls))
  /\ client \in 0..Len(subscribers) /\ dispatcher \in 0..Len(urls)
  /\ answered \subseteq Urls
  /\ events \in Nat

LEMMA Lengths ==
  ASSUME ServerTyped
  PROVE  /\ Len(subscribers) \in Nat /\ Len(urls) \in Nat
         /\ \A c \in 1..Len(subscribers) :
              subscribers[c] \in Seq(Nat) /\ Len(subscribers[c]) \in Nat
         /\ \A d \in 1..Len(urls) : urls[d] \in Seq(AllUrls) /\ Len(urls[d]) \in Nat
BY DEF ServerTyped

(* What a thread that does not move finds in lists that have grown.        *)
LEMMA WhoWaitsKeeps ==
  ASSUME ServerInv, Grows, MemoryTyped', NEW t \in Threads,
         thread'[t] = thread[t], opener'[t] = opener[t]
  PROVE  Equipped(t)' /\ Delivering(t)'
<1> DEFINE self == thread[t]
           bus == Bus(t)
<1>1. self \in ThreadState /\ Equipped(t) /\ Delivering(t) /\ ServerTyped /\ Buses
  BY DEF ServerInv, ServerTyped
<1>2. /\ Len(subscribers) \in Nat /\ Len(urls) \in Nat
      /\ Len(subscribers') \in Nat /\ Len(urls') \in Nat
  BY <1>1, Lengths DEF MemoryTyped
<1>3. Equipped(t)'
  BY <1>1, <1>2 DEF Equipped, Grows, ThreadState
<1>4. CASE self.pc \notin {"publish", "post", "answer"}
  BY <1>3, <1>4 DEF Delivering, In
<1>5. CASE self.pc \in {"publish", "post", "answer"}
  <2>1. self.client \in 1..Len(subscribers) /\ self.at[1] \in Nat /\ self.at[2] \in Nat
        /\ self.at[1] >= 1 /\ self.at[2] >= 1
    BY <1>1, <1>2, <1>5 DEF Equipped, ThreadState
  <2>2. /\ Len(bus) \in Nat /\ Len(bus) <= Len(Bus(t)') /\ Len(Bus(t)') \in Nat
        /\ \A i \in 1..Len(bus) : bus[i] \in 1..Len(urls) /\ Bus(t)'[i] = bus[i]
    <3>1. self.client \in 1..Len(subscribers')
      BY <1>2, <2>1 DEF Grows
    <3>2. PICK c : c = self.client
      OBVIOUS
    <3>3. bus = subscribers[c] /\ Bus(t)' = subscribers'[c]
      BY <3>2 DEF Bus
    <3>4. c \in 1..Len(subscribers) /\ c \in 1..Len(subscribers')
      BY <2>1, <3>1, <3>2
    <3>5. subscribers[c] \in Seq(Nat) /\ subscribers'[c] \in Seq(Nat)
      BY <1>1, <3>4 DEF ServerTyped, MemoryTyped
    <3>6. Len(subscribers[c]) \in Nat /\ Len(subscribers'[c]) \in Nat
      BY <3>5
    <3>7. /\ Len(subscribers[c]) <= Len(subscribers'[c])
          /\ \A i \in 1..Len(subscribers[c]) : subscribers'[c][i] = subscribers[c][i]
      BY <3>4 DEF Grows
    <3>8. \A i \in 1..Len(subscribers[c]) : subscribers[c][i] \in 1..Len(urls)
      BY <1>1, <3>4 DEF Buses
    <3> HIDE DEF bus, self
    <3> QED
      BY <3>3, <3>6, <3>7, <3>8
  <2>3. \A d \in 1..Len(urls) : /\ Len(urls[d]) \in Nat /\ Len(urls'[d]) \in Nat
                                /\ Len(urls[d]) <= Len(urls'[d])
                                /\ \A j \in 1..Len(urls[d]) : urls'[d][j] = urls[d][j]
    <3>1. \A d \in 1..Len(urls) : d \in 1..Len(urls')
      BY <1>2 DEF Grows
    <3> QED
      BY <1>1, <3>1, Lengths DEF Grows, MemoryTyped
  <2> HIDE DEF bus
  <2>4. \A u : Served(t, u)' <=> Served(t, u)
    BY DEF Served
  <2>5. ASSUME NEW u, Ahead(t, u)
        PROVE  Ahead(t, u)'
    <3>1. PICK i \in 1..Len(bus) :
            /\ i >= self.at[1]
            /\ \E j \in 1..Len(urls[bus[i]]) :
                 urls[bus[i]][j] = u /\ (i = self.at[1] => j >= self.at[2])
      BY <2>5 DEF Ahead, bus
    <3>2. PICK j \in 1..Len(urls[bus[i]]) :
            urls[bus[i]][j] = u /\ (i = self.at[1] => j >= self.at[2])
      BY <3>1
    <3>3. i \in 1..Len(Bus(t)') /\ Bus(t)'[i] = bus[i] /\ bus[i] \in 1..Len(urls)
      BY <2>2
    <3>4. j \in 1..Len(urls'[bus[i]]) /\ urls'[bus[i]][j] = u
      BY <2>3, <3>2, <3>3
    <3> QED
      BY <3>1, <3>2, <3>3, <3>4 DEF Ahead
  <2>6. In(t, "post") => HasSubscriber(t)' /\ HasUrl(t)' /\ Url(t)' = Url(t)
    <3> SUFFICES ASSUME In(t, "post")
                 PROVE  HasSubscriber(t)' /\ HasUrl(t)' /\ Url(t)' = Url(t)
      OBVIOUS
    <3>1. self.at[1] \in 1..Len(bus) /\ self.at[2] \in 1..Len(urls[bus[self.at[1]]])
      <4>1. HasSubscriber(t) /\ HasUrl(t)
        BY <1>1 DEF Delivering
      <4>2. self.at[1] \in 1..Len(bus)
        BY <2>1, <2>2, <4>1 DEF HasSubscriber, bus
      <4>3. self.at[2] <= Len(urls[bus[self.at[1]]]) /\ Len(urls[bus[self.at[1]]]) \in Nat
        BY <2>2, <2>3, <4>1, <4>2 DEF HasUrl, Subscriber, bus
      <4> QED
        BY <2>1, <4>2, <4>3
    <3>2. PICK d \in 1..Len(urls) : d = bus[self.at[1]] /\ Bus(t)'[self.at[1]] = d
      BY <2>2, <3>1
    <3>3. self.at[1] <= Len(Bus(t)')
      BY <2>2, <3>1
    <3>4. Subscriber(t) = d /\ Subscriber(t)' = d
      BY <3>2 DEF Subscriber, bus
    <3>5. self.at[2] <= Len(urls'[d]) /\ urls'[d][self.at[2]] = urls[d][self.at[2]]
      <4>1. self.at[2] \in 1..Len(urls[d])
        BY <3>1, <3>2
      <4> QED
        BY <2>1, <2>3, <4>1
    <3> QED
      BY <3>3, <3>4, <3>5 DEF HasSubscriber, HasUrl, Url
  <2>7. In(t, "post") => (HasSubscriber(t) /\ HasUrl(t) /\ self.failures[Url(t)] >= self.tries)'
    <3>1. In(t, "post") => self.failures[Url(t)] >= self.tries
      BY <1>1 DEF Delivering
    <3> QED
      BY <2>6, <3>1
  <2>8. /\ self.pc \in {"publish", "post"} =>
             \A u \in self.due \cup Range(ConfigUrls) : Served(t, u)' \/ Ahead(t, u)'
        /\ self.pc = "answer" => \A u \in self.due \cup Range(ConfigUrls) : Served(t, u)'
    <3>1. /\ self.pc \in {"publish", "post"} =>
               \A u \in self.due \cup Range(ConfigUrls) : Served(t, u) \/ Ahead(t, u)
          /\ self.pc = "answer" => \A u \in self.due \cup Range(ConfigUrls) : Served(t, u)
      BY <1>1 DEF Delivering, In
    <3> QED
      BY <2>4, <2>5, <3>1
  <2>9. thread'[t].pc = self.pc /\ thread'[t].due = self.due
    OBVIOUS
  <2>10. In(t, "post") <=> In(t, "post")'
    BY DEF In
  <2>11. /\ thread'[t].pc \in {"publish", "post"} =>
              \A u \in thread'[t].due \cup Range(ConfigUrls) : Served(t, u)' \/ Ahead(t, u)'
         /\ In(t, "answer")' => \A u \in thread'[t].due \cup Range(ConfigUrls) : Served(t, u)'
    BY <2>8, <2>9 DEF In
  <2> HIDE DEF self
  <2>12. In(t, "post")' => /\ HasSubscriber(t)' /\ HasUrl(t)'
                           /\ thread'[t].failures[Url(t)'] >= thread'[t].tries
    BY <2>7, <2>10 DEF self
  <2> QED
    BY <1>3, <2>11, <2>12 DEF Delivering
<1> QED
  BY <1>3, <1>4, <1>5

(* The openers do not move.                                                *)
LEMMA RestKeeps ==
  ASSUME StartupInv, UNCHANGED startupVars
  PROVE  StartupInv'
<1>1. opener' = opener /\ UNCHANGED <<tables, applied, stored>>
  BY DEF startupVars
<1>2. opener' \in [Openers -> OpenerState] /\ \A q \in Openers : opener'[q] = opener[q]
  BY <1>1, OpenerTyped
<1> QED
  BY <1>1, <1>2, MoveKeeps

(* One that opens moves alone, and fails or goes on.                       *)
LEMMA OpeningMoves ==
  ASSUME StartupInv, NEW o \in Openers, Opening(o)
  PROVE  /\ \A q \in Openers \ {o} : opener'[q] = opener[q]
         /\ opener'[o] = Closed \/ opener'[o].pc \in {"up", "count", "seed", "open"}
<1>1. opener \in [Openers -> OpenerState]
  BY OpenerTyped
<1>2. CASE ReadApplied(o) \/ Record(o)
  <2>1. Close(o) \/ \E todo : Left(o, todo)
    BY <1>2 DEF ReadApplied, Record
  <2>2. CASE Close(o)
    BY <1>1, <2>2 DEF Close
  <2>3. ASSUME NEW todo, Left(o, todo)
        PROVE  /\ \A q \in Openers \ {o} : opener'[q] = opener[q]
               /\ opener'[o].pc \in {"up", "count"}
    BY <1>1, <2>3 DEF Left, OpenerState
  <2> QED
    BY <2>1, <2>2, <2>3
<1>3. CASE Statement(o)
  BY <1>1, <1>3 DEF Statement, Close, More, At, OpenerState
<1>4. CASE CountRules(o) \/ seed(o)
  BY <1>1, <1>4 DEF CountRules, seed, Goto, Close, OpenerState
<1>5. CASE OpenFails(o)
  BY <1>1, <1>5 DEF OpenFails, Close
<1> QED
  BY <1>2, <1>3, <1>4, <1>5 DEF Opening

(* A thread moves, the others do not.                                      *)
LEMMA ThreadMoves ==
  ASSUME ServerInv, NEW t \in Threads, NEW next \in ThreadState,
         thread' = [thread EXCEPT ![t] = next],
         Grows, MemoryTyped', Buses', StartupInv',
         \A q \in Threads \ {t} : opener'[q] = opener[q],
         Equipped(t)', Delivering(t)'
  PROVE  ServerInv'
<1>1. thread' \in [Threads -> ThreadState]
  BY DEF ServerInv, ServerTyped
<1>2. ServerTyped'
  BY <1>1 DEF ServerTyped, MemoryTyped
<1>3. ASSUME NEW q \in Threads \ {t}
      PROVE  Equipped(q)' /\ Delivering(q)'
  <2>1. thread'[q] = thread[q] /\ opener'[q] = opener[q]
    BY DEF ServerInv, ServerTyped
  <2> QED
    BY <2>1, WhoWaitsKeeps
<1> QED
  BY <1>2, <1>3 DEF ServerInv

(* The lists of the server do not change.                                  *)
LEMMA StayingGrows ==
  ASSUME ServerInv, UNCHANGED <<subscribers, urls>>, dispatcher # 0 => dispatcher' # 0
  PROVE  Grows
<1>1. ServerTyped
  BY DEF ServerInv
<1> QED
  BY <1>1, Lengths DEF Grows

LEMMA RequestMoves ==
  ASSUME ServerInv, NEW t \in Threads, NEW next \in ThreadState,
         thread' = [thread EXCEPT ![t] = next],
         UNCHANGED <<client, dispatcher, subscribers, urls>>,
         answered' \subseteq Urls, events' \in Nat, StartupInv',
         \A q \in Threads \ {t} : opener'[q] = opener[q],
         Equipped(t)', Delivering(t)'
  PROVE  ServerInv'
<1>1. Grows
  BY StayingGrows
<1>2. MemoryTyped'
  BY DEF ServerInv, ServerTyped, MemoryTyped
<1>3. Buses'
  BY DEF ServerInv, Buses, Lists
<1> QED
  BY <1>1, <1>2, <1>3, ThreadMoves

(* Before its event is published nothing is asked of a request.            *)
LEMMA NothingDue ==
  ASSUME NEW t, thread'[t].pc \notin {"publish", "post", "answer"}
  PROVE  Delivering(t)'
BY DEF Delivering, In

(* A thread that is between two steps of a request, whose lists stay.      *)
LEMMA QuietMoves ==
  ASSUME ServerInv, NEW t \in Threads, NEW next \in ThreadState,
         thread' = [thread EXCEPT ![t] = next],
         UNCHANGED <<startupVars, client, dispatcher, subscribers, urls>>,
         answered' \subseteq Urls, events' \in Nat,
         next.pc \notin {"constructing", "publish", "post", "answer"},
         thread[t].pc # "constructing",
         next.client <= Len(subscribers), next.dispatcher <= Len(urls),
         next.at = <<1, 1>>, next.tries = 0,
         next.request = "register" => next.url \in Urls,
         next.pc \in {"dispatcher", "new_dispatcher", "subscribe", "lookup", "register"}
           => next.request = "register",
         next.pc = "client" /\ next.request # "propose"
           => next.request = "register" /\ dispatcher # 0,
         next.pc \in {"subscribe", "lookup", "register"} => dispatcher # 0,
         next.pc \in {"subscribe", "propose"} => next.client # 0,
         next.pc = "register" => next.dispatcher # 0
  PROVE  ServerInv'
<1>1. StartupInv' /\ opener' = opener
  BY RestKeeps DEF ServerInv, startupVars
<1>2. thread'[t] = next
  BY DEF ServerInv, ServerTyped
<1>3. opener[t].pc = "closed"
  BY DEF ServerInv, Equipped
<1>4. Equipped(t)'
  BY <1>1, <1>2, <1>3 DEF Equipped
<1>5. Delivering(t)'
  BY <1>2, NothingDue
<1> QED
  BY <1>1, <1>4, <1>5, RequestMoves

(* What is known of a thread.                                              *)
LEMMA OfThread ==
  ASSUME ServerInv, NEW t \in Threads
  PROVE  /\ thread[t] \in ThreadState /\ Equipped(t) /\ Delivering(t)
         /\ client \in Nat /\ client <= Len(subscribers)
         /\ dispatcher \in Nat /\ dispatcher <= Len(urls)
         /\ Len(subscribers) \in Nat /\ Len(urls) \in Nat
         /\ answered \subseteq Urls /\ events \in Nat
         /\ ServerTyped
<1>1. ServerTyped /\ Equipped(t) /\ Delivering(t)
  BY DEF ServerInv
<1> QED
  BY <1>1, Lengths DEF ServerTyped

LEMMA RespondKeeps ==
  ASSUME ServerInv, NEW t \in Threads, Respond(t), thread[t].pc # "constructing",
         UNCHANGED <<startupVars, client, dispatcher, subscribers, urls>>,
         answered' \subseteq Urls, events' \in Nat
  PROVE  ServerInv'
<1>1. /\ Idle.pc = "idle" /\ Idle.client = 0 /\ Idle.dispatcher = 0 /\ Idle.at = <<1, 1>>
      /\ Idle.tries = 0 /\ Idle.request = "none"
  BY DEF Idle
<1>2. 0 <= Len(subscribers) /\ 0 <= Len(urls)
  BY OfThread
<1>3. thread' = [thread EXCEPT ![t] = Idle]
  BY DEF Respond
<1> QED
  BY <1>1, <1>2, <1>3, IdleTyped, QuietMoves

LEMMA PostIntentsKeeps ==
  ASSUME ServerInv, NEW t \in Threads, post_intents(t)
  PROVE  ServerInv'
<1>1. PICK next : next = [Idle EXCEPT !.pc = "client", !.request = "propose"]
  OBVIOUS
<1>2. /\ next \in ThreadState /\ next.pc = "client" /\ next.request = "propose"
      /\ next.client = 0 /\ next.dispatcher = 0 /\ next.at = <<1, 1>> /\ next.tries = 0
  BY <1>1, IdleTyped DEF ThreadState, Idle
<1>3. thread' = [thread EXCEPT ![t] = next] /\ thread[t].pc = "idle"
  BY <1>1 DEF post_intents, In
<1>4. UNCHANGED <<startupVars, client, dispatcher, subscribers, urls>>
      /\ answered' \subseteq Urls /\ events' \in Nat
  BY OfThread DEF post_intents
<1>5. 0 <= Len(subscribers) /\ 0 <= Len(urls)
  BY OfThread
<1> QED
  BY <1>2, <1>3, <1>4, <1>5, QuietMoves

LEMMA PostWebhooksKeeps ==
  ASSUME ServerInv, NEW t \in Threads, post_webhooks(t)
  PROVE  ServerInv'
<1>1. PICK url \in Urls :
        thread' = [thread EXCEPT ![t] = [Idle EXCEPT !.pc = "dispatcher",
                                           !.request = "register", !.url = url]]
  BY DEF post_webhooks
<1>2. PICK next : next = [Idle EXCEPT !.pc = "dispatcher", !.request = "register", !.url = url]
  OBVIOUS
<1>3. /\ next \in ThreadState /\ next.pc = "dispatcher" /\ next.request = "register"
      /\ next.url \in Urls
      /\ next.client = 0 /\ next.dispatcher = 0 /\ next.at = <<1, 1>> /\ next.tries = 0
  BY <1>2, IdleTyped DEF ThreadState, Idle
<1>4. thread' = [thread EXCEPT ![t] = next] /\ thread[t].pc = "idle"
  BY <1>1, <1>2 DEF post_webhooks, In
<1>5. UNCHANGED <<startupVars, client, dispatcher, subscribers, urls>>
      /\ answered' \subseteq Urls /\ events' \in Nat
  BY OfThread DEF post_webhooks
<1>6. 0 <= Len(subscribers) /\ 0 <= Len(urls)
  BY OfThread
<1> QED
  BY <1>3, <1>4, <1>5, <1>6, QuietMoves

LEMMA GetClientKeeps ==
  ASSUME ServerInv, NEW t \in Threads, GetClient(t)
  PROVE  ServerInv'
<1>1. PICK next : next = [thread[t] EXCEPT !.client = client,
                            !.pc = IF thread[t].request = "propose"
                                   THEN "propose" ELSE "subscribe"]
  OBVIOUS
<1>2. /\ thread[t] \in ThreadState /\ thread[t].pc = "client" /\ client # 0 /\ Equipped(t)
  BY OfThread DEF GetClient, In
<1>3. /\ next \in ThreadState /\ next.client = client
      /\ next.pc = IF thread[t].request = "propose" THEN "propose" ELSE "subscribe"
      /\ next.request = thread[t].request /\ next.url = thread[t].url
      /\ next.dispatcher = thread[t].dispatcher
      /\ next.at = thread[t].at /\ next.tries = thread[t].tries
  BY <1>1, <1>2, OfThread DEF ThreadState
<1>4. thread' = [thread EXCEPT ![t] = next]
  BY <1>1, <1>2, OfThread DEF GetClient, ServerTyped
<1>5. UNCHANGED <<startupVars, client, dispatcher, subscribers, urls>>
      /\ answered' \subseteq Urls /\ events' \in Nat
  BY OfThread DEF GetClient
<1>6. /\ thread[t].at = <<1, 1>> /\ thread[t].tries = 0
      /\ thread[t].request = "register" => thread[t].url \in Urls
      /\ thread[t].request # "propose" => thread[t].request = "register" /\ dispatcher # 0
      /\ thread[t].dispatcher <= Len(urls)
  BY <1>2 DEF Equipped
<1>7. client <= Len(subscribers)
  BY OfThread
<1> QED
  BY <1>2, <1>3, <1>4, <1>5, <1>6, <1>7, QuietMoves

(* A thread whose program counter alone changes.                           *)
LEMMA ContinueIs ==
  ASSUME ServerInv, NEW t \in Threads, NEW pc, Continue(t, pc),
         pc \in {"idle", "client", "constructing", "dispatcher", "new_dispatcher",
                 "subscribe", "lookup", "register", "propose", "publish", "post", "answer"}
  PROVE  \E next \in ThreadState :
           /\ thread' = [thread EXCEPT ![t] = next] /\ thread'[t] = next
           /\ next.pc = pc
           /\ next.client = thread[t].client /\ next.dispatcher = thread[t].dispatcher
           /\ next.request = thread[t].request /\ next.url = thread[t].url
           /\ next.at = thread[t].at /\ next.tries = thread[t].tries
<1>1. PICK next : next = [thread[t] EXCEPT !.pc = pc]
  OBVIOUS
<1>2. thread[t] \in ThreadState /\ ServerTyped
  BY OfThread
<1>3. /\ next \in ThreadState /\ next.pc = pc
      /\ next.client = thread[t].client /\ next.dispatcher = thread[t].dispatcher
      /\ next.request = thread[t].request /\ next.url = thread[t].url
      /\ next.at = thread[t].at /\ next.tries = thread[t].tries
  BY <1>1, <1>2 DEF ThreadState
<1>4. thread' = [thread EXCEPT ![t] = next]
  BY <1>1, <1>2 DEF Continue, ServerTyped
<1>5. thread'[t] = next
  BY <1>2, <1>4 DEF ServerTyped
<1> QED
  BY <1>3, <1>4, <1>5

LEMMA ConstructKeeps ==
  ASSUME ServerInv, NEW t \in Threads, Construct(t)
  PROVE  ServerInv'
<1>1. /\ thread[t].pc = "client" /\ Equipped(t) /\ thread[t] \in ThreadState
      /\ Continue(t, "constructing") /\ connect(t, FALSE) /\ t \in Openers
  BY OfThread, ApiAssumption DEF Construct, In
<1>2. PICK next \in ThreadState :
        /\ thread' = [thread EXCEPT ![t] = next] /\ thread'[t] = next
        /\ next.pc = "constructing"
        /\ next.client = thread[t].client /\ next.dispatcher = thread[t].dispatcher
        /\ next.request = thread[t].request /\ next.url = thread[t].url
        /\ next.at = thread[t].at /\ next.tries = thread[t].tries
  BY <1>1, ContinueIs
<1>3. StartupInv'
  BY <1>1, ConnectKeeps DEF ServerInv
<1>4. opener'[t].pc = "applied" /\ \A q \in Threads \ {t} : opener'[q] = opener[q]
  BY <1>1, OpenerTyped, ApiAssumption DEF connect, Closed, ServerInv
<1>5. /\ UNCHANGED <<client, dispatcher, subscribers, urls>>
      /\ answered' \subseteq Urls /\ events' \in Nat
  BY OfThread DEF Construct
<1>6. Equipped(t)'
  BY <1>1, <1>2, <1>4, <1>5 DEF Equipped
<1>7. Delivering(t)'
  BY <1>2, NothingDue
<1> QED
  BY <1>2, <1>3, <1>4, <1>5, <1>6, <1>7, RequestMoves

LEMMA ConstructingKeeps ==
  ASSUME ServerInv, NEW t \in Threads, Constructing(t)
  PROVE  ServerInv'
<1>1. /\ thread[t].pc = "constructing" /\ Equipped(t) /\ thread[t] \in ThreadState
      /\ Opening(t) /\ t \in Openers /\ ServerTyped
  BY OfThread, ApiAssumption DEF Constructing, In
<1>2. StartupInv'
  BY <1>1, OpeningKeeps DEF ServerInv
<1>3. /\ \A q \in Threads \ {t} : opener'[q] = opener[q]
      /\ opener'[t] = Closed \/ opener'[t].pc \in {"up", "count", "seed", "open"}
  BY <1>1, OpeningMoves, ApiAssumption DEF ServerInv
<1>4. /\ UNCHANGED <<client, dispatcher, subscribers, urls>>
      /\ answered' \subseteq Urls /\ events' \in Nat
  BY OfThread DEF Constructing
<1>5. CASE opener'[t] = Closed
  <2>1. thread' = [thread EXCEPT ![t] = Idle] /\ thread'[t] = Idle
    BY <1>1, <1>5 DEF Constructing, Respond, ServerTyped
  <2>2. /\ Idle.pc = "idle" /\ Idle.client = 0 /\ Idle.dispatcher = 0 /\ Idle.at = <<1, 1>>
        /\ Idle.tries = 0 /\ Idle.request = "none"
    BY DEF Idle
  <2>3. 0 <= Len(subscribers) /\ 0 <= Len(urls) /\ opener'[t].pc = "closed"
    BY <1>5, OfThread DEF Closed
  <2>4. Equipped(t)'
    BY <1>4, <2>1, <2>2, <2>3 DEF Equipped
  <2>5. Delivering(t)'
    BY <2>1, <2>2, NothingDue
  <2> QED
    BY <1>2, <1>3, <1>4, <2>1, <2>4, <2>5, IdleTyped, RequestMoves
<1>6. CASE opener'[t] # Closed
  <2>1. thread' = thread
    BY <1>6 DEF Constructing
  <2>2. thread' = [thread EXCEPT ![t] = thread[t]] /\ thread'[t] = thread[t]
    BY <1>1, <2>1 DEF ServerTyped
  <2>3. opener'[t].pc \notin {"closed", "absent"}
    BY <1>3, <1>6
  <2>4. Equipped(t)'
    BY <1>1, <1>4, <2>1, <2>3 DEF Equipped
  <2>5. Delivering(t)'
    BY <1>1, <2>2, NothingDue
  <2> QED
    BY <1>1, <1>2, <1>3, <1>4, <2>2, <2>4, <2>5, RequestMoves
<1> QED
  BY <1>5, <1>6

LEMMA ConstructedKeeps ==
  ASSUME ServerInv, NEW t \in Threads, Constructed(t)
  PROVE  ServerInv'
<1>1. /\ thread[t].pc = "constructing" /\ Equipped(t) /\ thread[t] \in ThreadState
      /\ Close(t) /\ UNCHANGED <<tables, applied, stored>> /\ t \in Openers /\ ServerTyped
      /\ Continue(t, "client") /\ StartupInv /\ Buses
  BY OfThread, ApiAssumption DEF Constructed, In, ServerInv
<1>2. PICK next \in ThreadState :
        /\ thread' = [thread EXCEPT ![t] = next] /\ thread'[t] = next
        /\ next.pc = "client"
        /\ next.client = thread[t].client /\ next.dispatcher = thread[t].dispatcher
        /\ next.request = thread[t].request /\ next.url = thread[t].url
        /\ next.at = thread[t].at /\ next.tries = thread[t].tries
  BY <1>1, ContinueIs
<1>3. StartupInv'
  BY <1>1, CloseKeeps
<1>4. opener'[t].pc = "closed" /\ \A q \in Threads \ {t} : opener'[q] = opener[q]
  BY <1>1, OpenerTyped, ApiAssumption DEF Close, Closed
<1>5. /\ ConfigUrls \in Seq(AllUrls) /\ urls' = Append(urls, ConfigUrls)
      /\ dispatcher' = dispatcher /\ answered' = answered /\ events' = events
  BY ConfigTyped DEF Constructed
<1>6. /\ urls \in Seq(Seq(AllUrls)) /\ urls' \in Seq(Seq(AllUrls)) /\ Len(urls') = Len(urls) + 1
      /\ \A d \in 1..Len(urls) : urls'[d] = urls[d]
      /\ urls'[Len(urls) + 1] = ConfigUrls
  BY <1>1, <1>5 DEF ServerTyped
<1>7. PICK bus : bus = IF ConfigUrls = << >> THEN << >> ELSE <<Len(urls')>>
  OBVIOUS
<1>8. /\ Len(urls) \in Nat /\ Len(subscribers) \in Nat
      /\ \A c \in 1..Len(subscribers) : Len(subscribers[c]) \in Nat
      /\ \A d \in 1..Len(urls) : Len(urls[d]) \in Nat
  BY <1>1, Lengths
<1>9. bus \in Seq(Nat)
  BY <1>6, <1>7, <1>8
<1>10. /\ subscribers \in Seq(Seq(Nat)) /\ subscribers' \in Seq(Seq(Nat))
       /\ Len(subscribers') = Len(subscribers) + 1
       /\ \A c \in 1..Len(subscribers) : subscribers'[c] = subscribers[c]
       /\ subscribers'[Len(subscribers) + 1] = bus
  <2>1. subscribers' = Append(subscribers, bus)
    BY <1>7 DEF Constructed
  <2> QED
    BY <1>1, <1>9, <2>1 DEF ServerTyped
<1>11. client' = Len(subscribers')
  BY DEF Constructed
<1>12. Grows
  BY <1>5, <1>6, <1>8, <1>10 DEF Grows
<1>13. MemoryTyped'
  <2>1. client' \in 0..Len(subscribers') /\ dispatcher' \in 0..Len(urls')
    BY <1>1, <1>5, <1>6, <1>8, <1>10, <1>11 DEF ServerTyped
  <2> QED
    BY <1>1, <1>5, <1>6, <1>10, <2>1 DEF MemoryTyped, ServerTyped
<1>14. Buses'
  <2> SUFFICES ASSUME NEW c \in 1..Len(subscribers')
               PROVE  /\ \A i \in 1..Len(subscribers'[c]) : subscribers'[c][i] \in 1..Len(urls')
                      /\ \A u \in Range(ConfigUrls) :
                           /\ Len(subscribers'[c]) > 0
                           /\ \E j \in 1..Len(urls'[subscribers'[c][1]]) :
                                urls'[subscribers'[c][1]][j] = u
    BY DEF Buses, Lists
  <2>1. CASE c \in 1..Len(subscribers)
    <3>1. subscribers'[c] = subscribers[c]
      BY <1>10, <2>1
    <3>2. \A i \in 1..Len(subscribers[c]) : subscribers[c][i] \in 1..Len(urls)
      BY <1>1, <2>1 DEF Buses
    <3>3. \A i \in 1..Len(subscribers[c]) : subscribers[c][i] \in 1..Len(urls')
      BY <1>6, <1>8, <3>2
    <3>4. ASSUME NEW u \in Range(ConfigUrls)
          PROVE  /\ Len(subscribers[c]) > 0
                 /\ \E j \in 1..Len(urls'[subscribers[c][1]]) : urls'[subscribers[c][1]][j] = u
      <4>1. Len(subscribers[c]) > 0 /\ Lists(subscribers[c][1], u)
        BY <1>1, <2>1 DEF Buses
      <4>2. subscribers[c][1] \in 1..Len(urls)
        BY <1>8, <2>1, <3>2, <4>1
      <4> QED
        BY <1>6, <4>1, <4>2 DEF Lists
    <3> QED
      BY <3>1, <3>3, <3>4
  <2>2. CASE c = Len(subscribers) + 1
    <3>1. subscribers'[c] = bus
      BY <1>10, <2>2
    <3>2. CASE ConfigUrls = << >>
      <4>1. Range(ConfigUrls) = {} /\ bus = << >>
        BY <1>7, <3>2 DEF Range
      <4> QED
        BY <3>1, <4>1
    <3>3. CASE ConfigUrls # << >>
      <4>1. bus = <<Len(urls) + 1>> /\ Len(bus) = 1 /\ bus[1] = Len(urls) + 1
        BY <1>6, <1>7, <3>3
      <4>2. \A i \in 1..Len(bus) : bus[i] \in 1..Len(urls')
        BY <1>6, <1>8, <4>1
      <4>3. ASSUME NEW u \in Range(ConfigUrls)
            PROVE  \E j \in 1..Len(urls'[bus[1]]) : urls'[bus[1]][j] = u
        <5>1. PICK j \in DOMAIN ConfigUrls : ConfigUrls[j] = u
          BY DEF Range
        <5>2. j \in 1..Len(ConfigUrls)
          BY <1>5, <5>1
        <5>3. \E i \in 1..Len(urls'[Len(urls) + 1]) : urls'[Len(urls) + 1][i] = u
          BY <1>6, <5>1, <5>2
        <5> QED
          BY <4>1, <5>3
      <4> QED
        BY <3>1, <4>1, <4>2, <4>3
    <3> QED
      BY <3>2, <3>3
  <2>3. c \in 1..Len(subscribers) \/ c = Len(subscribers) + 1
    BY <1>8, <1>10
  <2> QED
    BY <2>1, <2>2, <2>3
<1>15. Equipped(t)'
  <2>1. next.client <= Len(subscribers') /\ next.dispatcher <= Len(urls')
    BY <1>1, <1>2, <1>6, <1>8, <1>10 DEF Equipped, ThreadState
  <2> QED
    BY <1>1, <1>2, <1>4, <1>5, <2>1 DEF Equipped
<1>16. Delivering(t)'
  BY <1>2, NothingDue
<1> QED
  BY <1>2, <1>3, <1>4, <1>12, <1>13, <1>14, <1>15, <1>16, ThreadMoves

(* Dispatchers that gain URLs, or new ones, under the same buses.          *)
LEMMA UrlsGrow ==
  ASSUME ServerInv, subscribers' = subscribers, dispatcher # 0 => dispatcher' # 0,
         urls' \in Seq(Seq(AllUrls)), Len(urls) <= Len(urls'),
         \A d \in 1..Len(urls) :
           /\ Len(urls[d]) <= Len(urls'[d])
           /\ \A j \in 1..Len(urls[d]) : urls'[d][j] = urls[d][j]
  PROVE  Grows /\ Buses'
<1>1. ServerTyped /\ Buses
  BY DEF ServerInv
<1>2. /\ Len(urls) \in Nat /\ Len(subscribers) \in Nat /\ Len(urls') \in Nat
      /\ \A c \in 1..Len(subscribers) : Len(subscribers[c]) \in Nat
      /\ \A d \in 1..Len(urls) : Len(urls[d]) \in Nat /\ Len(urls'[d]) \in Nat
  <2>1. \A d \in 1..Len(urls) : d \in 1..Len(urls')
    BY <1>1, Lengths
  <2> QED
    BY <1>1, <2>1, Lengths
<1>3. Grows
  BY <1>2 DEF Grows
<1>4. ASSUME NEW c \in 1..Len(subscribers)
      PROVE  /\ \A i \in 1..Len(subscribers[c]) : subscribers[c][i] \in 1..Len(urls')
             /\ \A u \in Range(ConfigUrls) :
                  /\ Len(subscribers[c]) > 0
                  /\ \E j \in 1..Len(urls'[subscribers[c][1]]) :
                       urls'[subscribers[c][1]][j] = u
  <2>1. \A i \in 1..Len(subscribers[c]) : subscribers[c][i] \in 1..Len(urls)
    BY <1>1 DEF Buses
  <2>2. \A i \in 1..Len(subscribers[c]) : subscribers[c][i] \in 1..Len(urls')
    BY <1>2, <2>1
  <2>3. ASSUME NEW u \in Range(ConfigUrls)
        PROVE  /\ Len(subscribers[c]) > 0
               /\ \E j \in 1..Len(urls'[subscribers[c][1]]) :
                    urls'[subscribers[c][1]][j] = u
    <3>1. /\ Len(subscribers[c]) > 0
          /\ \E j \in 1..Len(urls[subscribers[c][1]]) : urls[subscribers[c][1]][j] = u
      BY <1>1 DEF Buses, Lists
    <3>2. PICK d \in 1..Len(urls) : d = subscribers[c][1]
      BY <1>2, <2>1, <3>1
    <3>3. PICK j \in 1..Len(urls[d]) : urls[d][j] = u
      BY <3>1, <3>2
    <3>4. j \in 1..Len(urls'[d]) /\ urls'[d][j] = u
      BY <1>2, <3>3
    <3> QED
      BY <3>1, <3>2, <3>4
  <2> QED
    BY <2>2, <2>3
<1> QED
  BY <1>3, <1>4 DEF Buses, Lists

LEMMA CheckDispatcherKeeps ==
  ASSUME ServerInv, NEW t \in Threads, CheckDispatcher(t)
  PROVE  ServerInv'
<1>1. PICK pc : pc = IF dispatcher = 0 THEN "new_dispatcher" ELSE "lookup"
  OBVIOUS
<1>2. /\ thread[t].pc = "dispatcher" /\ Equipped(t) /\ thread[t] \in ThreadState
      /\ Continue(t, pc)
  BY <1>1, OfThread DEF CheckDispatcher, In
<1>3. PICK next \in ThreadState :
        /\ thread' = [thread EXCEPT ![t] = next]
        /\ next.pc = pc
        /\ next.client = thread[t].client /\ next.dispatcher = thread[t].dispatcher
        /\ next.request = thread[t].request /\ next.url = thread[t].url
        /\ next.at = thread[t].at /\ next.tries = thread[t].tries
  BY <1>1, <1>2, ContinueIs
<1>4. UNCHANGED <<startupVars, client, dispatcher, subscribers, urls>>
      /\ answered' \subseteq Urls /\ events' \in Nat
  BY OfThread DEF CheckDispatcher
<1>5. /\ next.request = "register" /\ next.url \in Urls
      /\ next.at = <<1, 1>> /\ next.tries = 0
      /\ next.client <= Len(subscribers) /\ next.dispatcher <= Len(urls)
      /\ next.pc \in {"new_dispatcher", "lookup"}
      /\ next.pc = "lookup" => dispatcher # 0
  BY <1>1, <1>2, <1>3 DEF Equipped
<1> QED
  BY <1>2, <1>3, <1>4, <1>5, QuietMoves

LEMMA NewDispatcherKeeps ==
  ASSUME ServerInv, NEW t \in Threads, NewDispatcher(t)
  PROVE  ServerInv'
<1>1. /\ thread[t].pc = "new_dispatcher" /\ Equipped(t) /\ thread[t] \in ThreadState
      /\ Continue(t, "client") /\ ServerTyped
  BY OfThread DEF NewDispatcher, In
<1>2. PICK next \in ThreadState :
        /\ thread' = [thread EXCEPT ![t] = next] /\ thread'[t] = next
        /\ next.pc = "client"
        /\ next.client = thread[t].client /\ next.dispatcher = thread[t].dispatcher
        /\ next.request = thread[t].request /\ next.url = thread[t].url
        /\ next.at = thread[t].at /\ next.tries = thread[t].tries
  BY <1>1, ContinueIs
<1>3. StartupInv' /\ opener' = opener
  BY RestKeeps DEF NewDispatcher, ServerInv, startupVars
<1>4. /\ urls' \in Seq(Seq(AllUrls)) /\ Len(urls') = Len(urls) + 1
      /\ \A d \in 1..Len(urls) : urls'[d] = urls[d]
  BY <1>1 DEF NewDispatcher, ServerTyped
<1>5. /\ Len(urls) \in Nat /\ Len(subscribers) \in Nat
      /\ \A d \in 1..Len(urls) : Len(urls[d]) \in Nat
  BY <1>1, Lengths
<1>6. dispatcher' = Len(urls') /\ UNCHANGED <<client, subscribers, answered, events>>
  BY DEF NewDispatcher
<1>7. dispatcher' # 0 /\ dispatcher' \in 0..Len(urls')
  BY <1>4, <1>5, <1>6
<1>8. Grows /\ Buses'
  <2>1. Len(urls) <= Len(urls')
    BY <1>4, <1>5
  <2>2. \A d \in 1..Len(urls) : /\ Len(urls[d]) <= Len(urls'[d])
                                /\ \A j \in 1..Len(urls[d]) : urls'[d][j] = urls[d][j]
    BY <1>4, <1>5
  <2> QED
    BY <1>4, <1>6, <1>7, <2>1, <2>2, UrlsGrow
<1>9. MemoryTyped'
  BY <1>1, <1>4, <1>6, <1>7 DEF ServerTyped, MemoryTyped
<1>10. Equipped(t)'
  <2>1. next.dispatcher <= Len(urls')
    BY <1>1, <1>2, <1>4, <1>5 DEF Equipped, ThreadState
  <2> QED
    BY <1>1, <1>2, <1>3, <1>6, <1>7, <2>1 DEF Equipped
<1>11. Delivering(t)'
  BY <1>2, NothingDue
<1> QED
  BY <1>2, <1>3, <1>8, <1>9, <1>10, <1>11, ThreadMoves

LEMMA OnEventKeeps ==
  ASSUME ServerInv, NEW t \in Threads, on_event(t)
  PROVE  ServerInv'
<1>1. /\ thread[t].pc = "subscribe" /\ Equipped(t) /\ thread[t] \in ThreadState
      /\ Continue(t, "lookup") /\ ServerTyped /\ Buses
      /\ UNCHANGED <<startupVars, client, dispatcher, urls, answered, events>>
  BY OfThread DEF on_event, In, ServerInv
<1>2. PICK next \in ThreadState :
        /\ thread' = [thread EXCEPT ![t] = next] /\ thread'[t] = next
        /\ next.pc = "lookup"
        /\ next.client = thread[t].client /\ next.dispatcher = thread[t].dispatcher
        /\ next.request = thread[t].request /\ next.url = thread[t].url
        /\ next.at = thread[t].at /\ next.tries = thread[t].tries
  BY <1>1, ContinueIs
<1>3. StartupInv' /\ opener' = opener
  BY <1>1, RestKeeps DEF ServerInv, startupVars
<1>4. PICK b \in 1..Len(subscribers) : b = thread[t].client
  BY <1>1, Lengths DEF Equipped, ThreadState
<1>5. dispatcher \in 1..Len(urls)
  BY <1>1, OfThread DEF Equipped
<1>6. subscribers' = [subscribers EXCEPT ![b] = Append(@, dispatcher)]
  BY <1>4 DEF on_event
<1>7. /\ Len(urls) \in Nat /\ Len(subscribers) \in Nat
      /\ \A c \in 1..Len(subscribers) :
           subscribers[c] \in Seq(Nat) /\ Len(subscribers[c]) \in Nat
      /\ \A d \in 1..Len(urls) : Len(urls[d]) \in Nat
  BY <1>1, Lengths
<1>8. PICK bus : bus = Append(subscribers[b], dispatcher)
  OBVIOUS
<1>9. /\ bus \in Seq(Nat) /\ Len(bus) = Len(subscribers[b]) + 1
      /\ \A i \in 1..Len(subscribers[b]) : bus[i] = subscribers[b][i]
      /\ bus[Len(subscribers[b]) + 1] = dispatcher
  BY <1>5, <1>7, <1>8
<1>10. /\ subscribers' \in Seq(Seq(Nat)) /\ Len(subscribers') = Len(subscribers)
       /\ subscribers'[b] = bus
       /\ \A c \in 1..Len(subscribers) \ {b} : subscribers'[c] = subscribers[c]
  BY <1>1, <1>6, <1>8, <1>9 DEF ServerTyped
<1>11. Grows
  <2>1. ASSUME NEW c \in 1..Len(subscribers)
        PROVE  /\ Len(subscribers[c]) <= Len(subscribers'[c])
               /\ \A i \in 1..Len(subscribers[c]) : subscribers'[c][i] = subscribers[c][i]
    <3>1. CASE c = b
      <4>1. subscribers'[c] = bus /\ Len(subscribers[c]) \in Nat
        BY <1>7, <1>10, <3>1
      <4>2. Len(bus) = Len(subscribers[c]) + 1
        BY <1>9, <3>1
      <4>3. \A i \in 1..Len(subscribers[c]) : bus[i] = subscribers[c][i]
        BY <1>9, <3>1
      <4>4. Len(subscribers[c]) <= Len(bus)
        BY <4>1, <4>2
      <4> QED
        BY <4>1, <4>3, <4>4
    <3>2. CASE c # b
      BY <1>7, <1>10, <3>2
    <3> QED
      BY <3>1, <3>2
  <2>2. Len(subscribers) <= Len(subscribers') /\ Len(urls) <= Len(urls')
    BY <1>1, <1>7, <1>10
  <2>3. \A d \in 1..Len(urls) :
          /\ Len(urls[d]) <= Len(urls'[d])
          /\ \A j \in 1..Len(urls[d]) : urls'[d][j] = urls[d][j]
    BY <1>1, <1>7
  <2>4. dispatcher # 0 => dispatcher' # 0
    BY <1>1
  <2> QED
    BY <2>1, <2>2, <2>3, <2>4 DEF Grows
<1>12. MemoryTyped'
  BY <1>1, <1>10 DEF MemoryTyped, ServerTyped
<1>13. Buses'
  <2> SUFFICES ASSUME NEW c \in 1..Len(subscribers)
               PROVE  /\ \A i \in 1..Len(subscribers'[c]) : subscribers'[c][i] \in 1..Len(urls)
                      /\ \A u \in Range(ConfigUrls) :
                           /\ Len(subscribers'[c]) > 0
                           /\ \E j \in 1..Len(urls[subscribers'[c][1]]) :
                                urls[subscribers'[c][1]][j] = u
    BY <1>1, <1>10 DEF Buses, Lists
  <2>1. /\ \A i \in 1..Len(subscribers[c]) : subscribers[c][i] \in 1..Len(urls)
        /\ \A u \in Range(ConfigUrls) :
             /\ Len(subscribers[c]) > 0
             /\ \E j \in 1..Len(urls[subscribers[c][1]]) : urls[subscribers[c][1]][j] = u
    BY <1>1 DEF Buses, Lists
  <2>2. CASE c # b
    BY <1>10, <2>1, <2>2
  <2>3. CASE c = b
    <3>1. \A i \in 1..Len(bus) : i \in 1..Len(subscribers[b]) \/ i = Len(subscribers[b]) + 1
      BY <1>7, <1>9
    <3>2. \A i \in 1..Len(bus) : bus[i] \in 1..Len(urls)
      BY <1>5, <1>9, <2>1, <2>3, <3>1
    <3>3. ASSUME NEW u \in Range(ConfigUrls)
          PROVE  Len(bus) > 0 /\ \E j \in 1..Len(urls[bus[1]]) : urls[bus[1]][j] = u
      <4>1. Len(subscribers[b]) > 0
            /\ \E j \in 1..Len(urls[subscribers[b][1]]) : urls[subscribers[b][1]][j] = u
        BY <2>1, <2>3
      <4>2. bus[1] = subscribers[b][1] /\ Len(bus) > 0
        BY <1>7, <1>9, <4>1
      <4> QED
        BY <4>1, <4>2
    <3> QED
      BY <1>10, <2>3, <3>2, <3>3
  <2> QED
    BY <2>2, <2>3
<1>14. Equipped(t)'
  BY <1>1, <1>2, <1>3, <1>10 DEF Equipped
<1>15. Delivering(t)'
  BY <1>2, NothingDue
<1> QED
  BY <1>2, <1>3, <1>11, <1>12, <1>13, <1>14, <1>15, ThreadMoves

LEMMA LookupKeeps ==
  ASSUME ServerInv, NEW t \in Threads, Lookup(t)
  PROVE  ServerInv'
<1>1. /\ thread[t].pc = "lookup" /\ Equipped(t) /\ thread[t] \in ThreadState /\ ServerTyped
      /\ UNCHANGED <<startupVars, client, dispatcher, subscribers, urls, events>>
  BY OfThread DEF Lookup, In
<1>2. /\ thread[t].request = "register" /\ thread[t].url \in Urls /\ dispatcher # 0
      /\ thread[t].at = <<1, 1>> /\ thread[t].tries = 0 /\ thread[t].client <= Len(subscribers)
  BY <1>1 DEF Equipped
<1>3. answered \subseteq Urls /\ events' \in Nat /\ dispatcher \in Nat /\ dispatcher <= Len(urls)
  BY <1>1, OfThread
<1>4. CASE thread[t].url \in Range(urls[dispatcher])
  <2>1. Respond(t) /\ answered' \subseteq Urls
    BY <1>2, <1>3, <1>4 DEF Lookup
  <2> QED
    BY <1>1, <1>3, <2>1, RespondKeeps
<1>5. CASE thread[t].url \notin Range(urls[dispatcher])
  <2>1. PICK next : next = [thread[t] EXCEPT !.pc = "register", !.dispatcher = dispatcher]
    OBVIOUS
  <2>2. /\ next \in ThreadState /\ next.pc = "register" /\ next.dispatcher = dispatcher
        /\ next.client = thread[t].client
        /\ next.request = thread[t].request /\ next.url = thread[t].url
        /\ next.at = thread[t].at /\ next.tries = thread[t].tries
    BY <1>1, <1>3, <2>1 DEF ThreadState
  <2>3. thread' = [thread EXCEPT ![t] = next] /\ answered' = answered
    BY <1>1, <1>5, <2>1 DEF Lookup, ServerTyped
  <2> QED
    BY <1>1, <1>2, <1>3, <2>2, <2>3, QuietMoves
<1> QED
  BY <1>4, <1>5

LEMMA RegisterKeeps ==
  ASSUME ServerInv, NEW t \in Threads, register(t)
  PROVE  ServerInv'
<1>1. /\ thread[t].pc = "register" /\ Equipped(t) /\ thread[t] \in ThreadState /\ ServerTyped
      /\ UNCHANGED <<startupVars, client, dispatcher, subscribers, events>> /\ Respond(t)
  BY OfThread DEF register, In
<1>2. answered \subseteq Urls /\ events' \in Nat
  BY <1>1, OfThread
<1>3. CASE UNCHANGED <<urls, answered>>
  BY <1>1, <1>2, <1>3, RespondKeeps
<1>4. ASSUME urls' = [urls EXCEPT ![thread[t].dispatcher] = Append(@, thread[t].url)],
             answered' = answered \cup {thread[t].url}
      PROVE  ServerInv'
  <2>1. PICK d \in 1..Len(urls) : d = thread[t].dispatcher
    BY <1>1, OfThread DEF Equipped, ThreadState
  <2>2. thread[t].url \in Urls /\ thread[t].url \in AllUrls
    BY <1>1 DEF Equipped, AllUrls
  <2>3. /\ Len(urls) \in Nat
        /\ \A e \in 1..Len(urls) : urls[e] \in Seq(AllUrls) /\ Len(urls[e]) \in Nat
    BY <1>1, Lengths
  <2>4. PICK list : list = Append(urls[d], thread[t].url)
    OBVIOUS
  <2>5. /\ list \in Seq(AllUrls) /\ Len(list) = Len(urls[d]) + 1
        /\ \A j \in 1..Len(urls[d]) : list[j] = urls[d][j]
    BY <2>2, <2>3, <2>4
  <2>6. urls' = [urls EXCEPT ![d] = list]
    BY <1>4, <2>1, <2>4
  <2>7. /\ urls' \in Seq(Seq(AllUrls)) /\ Len(urls') = Len(urls)
        /\ urls'[d] = list
        /\ \A e \in 1..Len(urls) \ {d} : urls'[e] = urls[e]
    BY <1>1, <2>5, <2>6 DEF ServerTyped
  <2>8. \A e \in 1..Len(urls) :
          /\ Len(urls[e]) <= Len(urls'[e])
          /\ \A j \in 1..Len(urls[e]) : urls'[e][j] = urls[e][j]
    BY <2>3, <2>5, <2>7
  <2>9. Len(urls) <= Len(urls')
    BY <2>3, <2>7
  <2>10. Grows /\ Buses'
    BY <1>1, <2>7, <2>8, <2>9, UrlsGrow
  <2>11. MemoryTyped'
    BY <1>1, <1>4, <2>2, <2>7 DEF MemoryTyped, ServerTyped
  <2>12. StartupInv' /\ opener' = opener
    BY <1>1, RestKeeps DEF ServerInv, startupVars
  <2>13. thread' = [thread EXCEPT ![t] = Idle] /\ thread'[t] = Idle
    BY <1>1 DEF Respond, ServerTyped
  <2>14. /\ Idle.pc = "idle" /\ Idle.client = 0 /\ Idle.dispatcher = 0 /\ Idle.at = <<1, 1>>
         /\ Idle.tries = 0 /\ Idle.request = "none"
    BY DEF Idle
  <2>15. 0 <= Len(subscribers') /\ 0 <= Len(urls') /\ opener'[t].pc = "closed"
    BY <1>1, <2>7, <2>12, OfThread DEF Equipped
  <2>16. Equipped(t)'
    BY <2>13, <2>14, <2>15 DEF Equipped
  <2>17. Delivering(t)'
    BY <2>13, <2>14, NothingDue
  <2> QED
    BY <2>10, <2>11, <2>12, <2>13, <2>16, <2>17, IdleTyped, ThreadMoves
<1> QED
  BY <1>3, <1>4 DEF register

(* What Served and Ahead ask of the state of a thread and of its bus.      *)
Took(self, u) == u \in self.settled \/ self.failures[u] >= ATTEMPTS
FromOn(self, bus, u) ==
  \E i \in 1..Len(bus) :
    /\ i >= self.at[1]
    /\ \E j \in 1..Len(urls[bus[i]]) :
         /\ urls[bus[i]][j] = u
         /\ i = self.at[1] => j >= self.at[2]

(* A thread that delivers, while the lists stay.                           *)
LEMMA DeliveryMoves ==
  ASSUME ServerInv, NEW t \in Threads, NEW next \in ThreadState,
         thread' = [thread EXCEPT ![t] = next],
         UNCHANGED <<startupVars, client, dispatcher, subscribers, urls, answered, events>>,
         thread[t].pc \in {"propose", "publish", "post"},
         next.pc \in {"publish", "post", "answer"},
         next.client = thread[t].client, next.dispatcher = thread[t].dispatcher,
         next.request = thread[t].request, next.url = thread[t].url,
         next.pc # "post" => next.tries = 0,
         NEW bus, bus = Bus(t),
         next.pc \in {"publish", "post"} =>
           \A u \in next.due \cup Range(ConfigUrls) : Took(next, u) \/ FromOn(next, bus, u),
         next.pc = "answer" => \A u \in next.due \cup Range(ConfigUrls) : Took(next, u),
         next.pc = "post" => /\ next.at[1] <= Len(bus)
                             /\ next.at[2] <= Len(urls[bus[next.at[1]]])
                             /\ next.failures[urls[bus[next.at[1]]][next.at[2]]] >= next.tries
  PROVE  ServerInv'
<1>1. StartupInv' /\ opener' = opener
  BY RestKeeps DEF ServerInv, startupVars
<1>2. thread'[t] = next
  BY DEF ServerInv, ServerTyped
<1>3. Equipped(t) /\ answered' \subseteq Urls /\ events' \in Nat
  BY OfThread
<1>4. Equipped(t)'
  BY <1>1, <1>2, <1>3 DEF Equipped
<1>5. Bus(t)' = bus
  BY <1>2 DEF Bus
<1>6. \A u : Served(t, u)' <=> Took(next, u)
  BY <1>2 DEF Served, Took
<1>7. \A u : Ahead(t, u)' <=> FromOn(next, bus, u)
  BY <1>2, <1>5 DEF Ahead, FromOn
<1>8. next.pc = "post" => /\ HasSubscriber(t)' /\ HasUrl(t)'
                          /\ next.failures[Url(t)'] >= next.tries
  BY <1>2, <1>5 DEF HasSubscriber, HasUrl, Url, Subscriber
<1>9. /\ next.pc \in {"publish", "post"} =>
           \A u \in next.due \cup Range(ConfigUrls) : Served(t, u)' \/ Ahead(t, u)'
      /\ next.pc = "answer" => \A u \in next.due \cup Range(ConfigUrls) : Served(t, u)'
  BY <1>6, <1>7
<1>10. Delivering(t)'
  BY <1>2, <1>8, <1>9 DEF Delivering, In
<1> QED
  BY <1>1, <1>3, <1>4, <1>10, RequestMoves

(* The bus of a thread that delivers.                                      *)
LEMMA BusTyped ==
  ASSUME ServerInv, NEW t \in Threads, thread[t].pc \in {"propose", "publish", "post"},
         NEW bus, bus = Bus(t)
  PROVE  /\ bus \in Seq(Nat) /\ Len(bus) \in Nat
         /\ \A i \in 1..Len(bus) :
              /\ bus[i] \in 1..Len(urls)
              /\ urls[bus[i]] \in Seq(AllUrls) /\ Len(urls[bus[i]]) \in Nat
         /\ \A u \in Range(ConfigUrls) :
              Len(bus) > 0 /\ \E j \in 1..Len(urls[bus[1]]) : urls[bus[1]][j] = u
<1>1. ServerTyped /\ Buses /\ Equipped(t) /\ thread[t] \in ThreadState
  BY OfThread DEF ServerInv
<1>2. PICK c \in 1..Len(subscribers) : c = thread[t].client
  BY <1>1, OfThread DEF Equipped, ThreadState
<1>3. bus = subscribers[c]
  BY <1>2 DEF Bus
<1>4. bus \in Seq(Nat) /\ Len(bus) \in Nat
  BY <1>1, <1>3, Lengths
<1>5. /\ \A i \in 1..Len(bus) : bus[i] \in 1..Len(urls)
      /\ \A u \in Range(ConfigUrls) :
           Len(bus) > 0 /\ \E j \in 1..Len(urls[bus[1]]) : urls[bus[1]][j] = u
  BY <1>1, <1>3 DEF Buses, Lists
<1>6. \A d \in 1..Len(urls) : urls[d] \in Seq(AllUrls) /\ Len(urls[d]) \in Nat
  BY <1>1, Lengths
<1> QED
  BY <1>4, <1>5, <1>6

LEMMA PublishKeeps ==
  ASSUME ServerInv, NEW t \in Threads, publish(t)
  PROVE  ServerInv'
<1>1. /\ thread[t].pc = "propose" /\ Equipped(t) /\ thread[t] \in ThreadState /\ ServerTyped
      /\ UNCHANGED <<startupVars, client, dispatcher, subscribers, urls, answered, events>>
  BY OfThread DEF publish, In
<1>2. PICK bus : bus = Bus(t)
  OBVIOUS
<1>3. /\ Len(bus) \in Nat /\ bus \in Seq(Nat)
      /\ \A i \in 1..Len(bus) : urls[bus[i]] \in Seq(AllUrls) /\ Len(urls[bus[i]]) \in Nat
      /\ \A u \in Range(ConfigUrls) :
           Len(bus) > 0 /\ \E j \in 1..Len(urls[bus[1]]) : urls[bus[1]][j] = u
  BY <1>1, <1>2, BusTyped
<1>4. PICK due : due = UNION {Range(urls[d]) : d \in Range(bus)}
  OBVIOUS
<1>5. \A u \in due : \E i \in 1..Len(bus) : \E j \in 1..Len(urls[bus[i]]) : urls[bus[i]][j] = u
  <2> SUFFICES ASSUME NEW u \in due
               PROVE  \E i \in 1..Len(bus) : \E j \in 1..Len(urls[bus[i]]) : urls[bus[i]][j] = u
    OBVIOUS
  <2>1. PICK d \in Range(bus) : u \in Range(urls[d])
    BY <1>4
  <2>2. PICK i \in 1..Len(bus) : bus[i] = d
    BY <1>3 DEF Range
  <2>3. PICK j \in 1..Len(urls[d]) : urls[d][j] = u
    BY <1>3, <2>1, <2>2 DEF Range
  <2> QED
    BY <2>2, <2>3
<1>6. due \subseteq AllUrls
  BY <1>3, <1>5
<1>7. PICK next : next = [thread[t] EXCEPT !.pc = "publish", !.due = due]
  OBVIOUS
<1>8. /\ next \in ThreadState /\ next.pc = "publish" /\ next.due = due
      /\ next.client = thread[t].client /\ next.dispatcher = thread[t].dispatcher
      /\ next.request = thread[t].request /\ next.url = thread[t].url
      /\ next.at = thread[t].at /\ next.tries = thread[t].tries
  BY <1>1, <1>6, <1>7 DEF ThreadState
<1>9. thread' = [thread EXCEPT ![t] = next]
  BY <1>1, <1>2, <1>4, <1>7 DEF publish, ServerTyped
<1>10. next.at[1] = 1 /\ next.at[2] = 1 /\ next.tries = 0
  BY <1>1, <1>8 DEF Equipped
<1>11. ASSUME NEW u \in due \cup Range(ConfigUrls)
       PROVE  FromOn(next, bus, u)
  <2>1. \E i \in 1..Len(bus) : \E j \in 1..Len(urls[bus[i]]) : urls[bus[i]][j] = u
    <3>1. u \in Range(ConfigUrls) => Len(bus) > 0
      BY <1>3
    <3>2. Len(bus) > 0 => 1 \in 1..Len(bus)
      BY <1>3
    <3> QED
      BY <1>3, <1>5, <3>1, <3>2
  <2>2. PICK i \in 1..Len(bus) : \E j \in 1..Len(urls[bus[i]]) : urls[bus[i]][j] = u
    BY <2>1
  <2>3. PICK j \in 1..Len(urls[bus[i]]) : urls[bus[i]][j] = u
    BY <2>2
  <2>4. i >= 1 /\ j >= 1
    BY <1>3
  <2> QED
    BY <1>10, <2>3, <2>4 DEF FromOn
<1> QED
  BY <1>1, <1>2, <1>8, <1>9, <1>10, <1>11, DeliveryMoves

(* The URL a thread has come to.                                           *)
LEMMA UrlTyped ==
  ASSUME ServerInv, NEW t \in Threads, thread[t].pc \in {"publish", "post"},
         HasSubscriber(t), HasUrl(t), NEW bus, bus = Bus(t)
  PROVE  /\ thread[t].at[1] \in 1..Len(bus)
         /\ thread[t].at[2] \in 1..Len(urls[bus[thread[t].at[1]]])
         /\ Url(t) = urls[bus[thread[t].at[1]]][thread[t].at[2]]
         /\ Url(t) \in AllUrls
<1>1. PICK a, b : a = thread[t].at[1] /\ b = thread[t].at[2]
  OBVIOUS
<1>2. a \in Nat /\ b \in Nat /\ a >= 1 /\ b >= 1
  BY <1>1, OfThread DEF ThreadState
<1>3. a <= Len(bus) /\ Len(bus) \in Nat
  BY <1>1, BusTyped DEF HasSubscriber
<1>4. a \in 1..Len(bus)
  BY <1>2, <1>3
<1>5. b <= Len(urls[bus[a]]) /\ urls[bus[a]] \in Seq(AllUrls) /\ Len(urls[bus[a]]) \in Nat
  BY <1>1, <1>4, BusTyped DEF HasUrl, Subscriber
<1>6. b \in 1..Len(urls[bus[a]])
  BY <1>2, <1>5
<1>7. Url(t) = urls[bus[a]][b]
  BY <1>1 DEF Url, Subscriber
<1>8. Url(t) \in AllUrls
  BY <1>5, <1>6, <1>7
<1> QED
  BY <1>1, <1>4, <1>6, <1>7, <1>8

(* One that was served is left behind, all others are still ahead.         *)
LEMMA PassingKeeps ==
  ASSUME ServerInv, NEW t \in Threads, thread[t].pc \in {"publish", "post"},
         HasSubscriber(t), HasUrl(t), NEW bus, bus = Bus(t),
         NEW next, next.due = thread[t].due,
         next.at[1] = thread[t].at[1], next.at[2] = thread[t].at[2] + 1,
         \A u \in AllUrls : Took(thread[t], u) => Took(next, u),
         Took(next, Url(t)),
         NEW u \in next.due \cup Range(ConfigUrls)
  PROVE  Took(next, u) \/ FromOn(next, bus, u)
<1>1. thread[t] \in ThreadState /\ Delivering(t)
  BY OfThread
<1>2. u \in AllUrls
  BY <1>1, ConfigTyped DEF ThreadState
<1>3. Served(t, u) \/ Ahead(t, u)
  BY <1>1 DEF Delivering
<1>4. CASE Served(t, u)
  BY <1>2, <1>4 DEF Served, Took
<1>5. CASE Ahead(t, u)
  <2>1. PICK a, b : a = thread[t].at[1] /\ b = thread[t].at[2]
    OBVIOUS
  <2>2. a \in Nat /\ b \in Nat /\ next.at[1] = a /\ next.at[2] = b + 1
    BY <1>1, <2>1 DEF ThreadState
  <2>3. PICK i \in 1..Len(bus) :
          /\ i >= a
          /\ \E j \in 1..Len(urls[bus[i]]) : urls[bus[i]][j] = u /\ (i = a => j >= b)
    BY <1>5, <2>1 DEF Ahead
  <2>4. PICK j \in 1..Len(urls[bus[i]]) : urls[bus[i]][j] = u /\ (i = a => j >= b)
    BY <2>3
  <2>5. j \in Nat
    BY BusTyped
  <2>6. CASE i = a /\ j = b
    BY <2>1, <2>4, <2>6, UrlTyped
  <2>7. CASE ~(i = a /\ j = b)
    <3>1. i = a => j >= b + 1
      BY <2>2, <2>4, <2>5, <2>7
    <3> QED
      BY <2>2, <2>3, <2>4, <3>1 DEF FromOn
  <2> QED
    BY <2>6, <2>7
<1> QED
  BY <1>3, <1>4, <1>5

(* A thread that leaves a URL for the next.                                *)
LEMMA LeavingKeeps ==
  ASSUME ServerInv, NEW t \in Threads, thread[t].pc \in {"publish", "post"},
         HasSubscriber(t), HasUrl(t),
         UNCHANGED <<startupVars, client, dispatcher, subscribers, urls, answered, events>>,
         NEW served \in ThreadState, thread' = [thread EXCEPT ![t] = NextUrl(served)],
         served.client = thread[t].client, served.dispatcher = thread[t].dispatcher,
         served.request = thread[t].request, served.url = thread[t].url,
         served.at = thread[t].at, served.due = thread[t].due,
         \A u \in AllUrls : Took(thread[t], u) => Took(served, u),
         Took(served, Url(t))
  PROVE  ServerInv'
<1>1. PICK next : next = NextUrl(served)
  OBVIOUS
<1>2. PICK bus : bus = Bus(t)
  OBVIOUS
<1>3. /\ next \in ThreadState
      /\ next.pc = "publish" /\ next.tries = 0
      /\ next.at[1] = thread[t].at[1] /\ next.at[2] = thread[t].at[2] + 1
      /\ next.request = thread[t].request /\ next.url = thread[t].url
      /\ next.client = thread[t].client /\ next.dispatcher = thread[t].dispatcher
      /\ next.due = thread[t].due /\ next.settled = served.settled
      /\ next.failures = served.failures
  BY <1>1, NextUrlIs
<1>4. \A u : Took(next, u) <=> Took(served, u)
  BY <1>3 DEF Took
<1>5. \A u \in next.due \cup Range(ConfigUrls) : Took(next, u) \/ FromOn(next, bus, u)
  BY <1>2, <1>3, <1>4, PassingKeeps
<1>6. thread' = [thread EXCEPT ![t] = next]
  BY <1>1
<1> QED
  BY <1>2, <1>3, <1>5, <1>6, DeliveryMoves

LEMMA DispatchKeeps ==
  ASSUME ServerInv, NEW t \in Threads, Dispatch(t)
  PROVE  ServerInv'
<1>1. /\ thread[t].pc = "publish" /\ Equipped(t) /\ thread[t] \in ThreadState
      /\ Delivering(t)
      /\ UNCHANGED <<startupVars, client, dispatcher, subscribers, urls, answered, events>>
  BY OfThread DEF Dispatch, In
<1>2. PICK self : self = thread[t]
  OBVIOUS
<1>3. PICK bus : bus = Bus(t)
  OBVIOUS
<1>4. self \in ThreadState /\ self.pc = "publish" /\ self.tries = 0
  BY <1>1, <1>2 DEF Equipped
<1>5. PICK a, b : a = self.at[1] /\ b = self.at[2]
  OBVIOUS
<1>6. a \in Nat /\ b \in Nat /\ a >= 1 /\ b >= 1
  BY <1>4, <1>5 DEF ThreadState
<1>7. \A u \in self.due \cup Range(ConfigUrls) : Took(self, u) \/ FromOn(self, bus, u)
  BY <1>1, <1>2, <1>3 DEF Delivering, Took, FromOn, Served, Ahead
<1>8. /\ Len(bus) \in Nat
      /\ \A i \in 1..Len(bus) : Len(urls[bus[i]]) \in Nat
  BY <1>1, <1>3, BusTyped
<1>9. CASE ~HasSubscriber(t)
  <2>1. PICK next : next = [self EXCEPT !.pc = "answer"]
    OBVIOUS
  <2>2. /\ next \in ThreadState /\ next.pc = "answer" /\ next.tries = self.tries
        /\ next.client = self.client /\ next.dispatcher = self.dispatcher
        /\ next.request = self.request /\ next.url = self.url /\ next.due = self.due
        /\ next.settled = self.settled /\ next.failures = self.failures
    BY <1>4, <2>1 DEF ThreadState
  <2>3. thread' = [thread EXCEPT ![t] = next]
    BY <1>2, <1>9, <2>1 DEF Dispatch
  <2>4. \A u : ~FromOn(self, bus, u)
    BY <1>2, <1>3, <1>5, <1>6, <1>8, <1>9 DEF FromOn, HasSubscriber
  <2>5. \A u \in next.due \cup Range(ConfigUrls) : Took(next, u)
    BY <1>7, <2>2, <2>4 DEF Took
  <2> QED
    BY <1>1, <1>2, <1>3, <1>4, <2>2, <2>3, <2>5, DeliveryMoves
<1>10. CASE HasSubscriber(t) /\ ~HasUrl(t)
  <2>1. PICK at : at = <<self.at[1] + 1, 1>>
    OBVIOUS
  <2>2. at \in (Nat \ {0}) \X (Nat \ {0}) /\ at[1] = a + 1 /\ at[2] = 1
    BY <1>5, <1>6, <2>1
  <2>3. PICK next : next = [self EXCEPT !.at = at]
    OBVIOUS
  <2>4. /\ next \in ThreadState /\ next.pc = "publish" /\ next.tries = self.tries
        /\ next.client = self.client /\ next.dispatcher = self.dispatcher
        /\ next.request = self.request /\ next.url = self.url /\ next.due = self.due
        /\ next.settled = self.settled /\ next.failures = self.failures
        /\ next.at[1] = a + 1 /\ next.at[2] = 1
    BY <1>4, <2>2, <2>3 DEF ThreadState
  <2>5. thread' = [thread EXCEPT ![t] = next]
    BY <1>2, <1>10, <2>1, <2>3 DEF Dispatch
  <2>6. a \in 1..Len(bus) /\ b > Len(urls[bus[a]])
    <3>1. a \in 1..Len(bus)
      BY <1>2, <1>3, <1>5, <1>6, <1>8, <1>10 DEF HasSubscriber
    <3>2. ~(b <= Len(urls[bus[a]]))
      BY <1>2, <1>3, <1>5, <1>10 DEF HasUrl, Subscriber
    <3> QED
      BY <1>6, <1>8, <3>1, <3>2
  <2>7. ASSUME NEW u, FromOn(self, bus, u)
        PROVE  FromOn(next, bus, u)
    <3>1. PICK i \in 1..Len(bus) :
            /\ i >= a
            /\ \E j \in 1..Len(urls[bus[i]]) : urls[bus[i]][j] = u /\ (i = a => j >= b)
      BY <1>5, <2>7 DEF FromOn
    <3>2. PICK j \in 1..Len(urls[bus[i]]) : urls[bus[i]][j] = u /\ (i = a => j >= b)
      BY <3>1
    <3>3. i # a
      BY <1>6, <1>8, <2>6, <3>2
    <3>4. i >= a + 1 /\ j >= 1
      BY <1>6, <1>8, <3>1, <3>3
    <3> QED
      BY <2>4, <3>2, <3>4 DEF FromOn
  <2>8. \A u \in next.due \cup Range(ConfigUrls) : Took(next, u) \/ FromOn(next, bus, u)
    BY <1>7, <2>4, <2>7 DEF Took
  <2> QED
    BY <1>1, <1>2, <1>3, <1>4, <2>4, <2>5, <2>8, DeliveryMoves
<1>11. CASE HasSubscriber(t) /\ HasUrl(t)
  <2>1. /\ a \in 1..Len(bus) /\ b \in 1..Len(urls[bus[a]])
        /\ Url(t) = urls[bus[a]][b] /\ Url(t) \in AllUrls
    BY <1>1, <1>2, <1>3, <1>5, <1>11, UrlTyped
  <2>2. ASSUME thread' = [thread EXCEPT ![t] = [self EXCEPT !.pc = "post"]]
        PROVE  ServerInv'
    <3>1. PICK next : next = [self EXCEPT !.pc = "post"]
      OBVIOUS
    <3>2. /\ next \in ThreadState /\ next.pc = "post" /\ next.tries = self.tries
          /\ next.client = self.client /\ next.dispatcher = self.dispatcher
          /\ next.request = self.request /\ next.url = self.url /\ next.due = self.due
          /\ next.settled = self.settled /\ next.failures = self.failures
          /\ next.at = self.at
      BY <1>4, <3>1 DEF ThreadState
    <3>3. thread' = [thread EXCEPT ![t] = next]
      BY <2>2, <3>1
    <3>4. next.at[1] = a /\ next.at[2] = b
      BY <1>5, <3>2
    <3>5. a <= Len(bus) /\ b <= Len(urls[bus[a]])
      BY <1>8, <2>1
    <3>6. next.failures[urls[bus[a]][b]] >= next.tries
      BY <1>4, <2>1, <3>2 DEF ThreadState
    <3>7. \A u \in next.due \cup Range(ConfigUrls) : Took(next, u) \/ FromOn(next, bus, u)
      BY <1>7, <3>2 DEF Took, FromOn
    <3> QED
      BY <1>1, <1>2, <1>3, <1>4, <3>2, <3>3, <3>4, <3>5, <3>6, <3>7, DeliveryMoves
  <2>3. ASSUME thread' = [thread EXCEPT ![t] =
                            NextUrl([self EXCEPT !.settled = @ \cup {Url(t)}])]
        PROVE  ServerInv'
    <3>1. PICK served : served = [self EXCEPT !.settled = @ \cup {Url(t)}]
      OBVIOUS
    <3>2. /\ served \in ThreadState /\ served.settled = self.settled \cup {Url(t)}
          /\ served.client = self.client /\ served.dispatcher = self.dispatcher
          /\ served.request = self.request /\ served.url = self.url /\ served.due = self.due
          /\ served.failures = self.failures /\ served.at = self.at
      BY <1>4, <2>1, <3>1 DEF ThreadState
    <3>3. Took(served, Url(t)) /\ \A u \in AllUrls : Took(self, u) => Took(served, u)
      BY <3>2 DEF Took
    <3>4. thread' = [thread EXCEPT ![t] = NextUrl(served)]
      BY <2>3, <3>1
    <3> QED
      BY <1>1, <1>2, <1>11, <3>2, <3>3, <3>4, LeavingKeeps
  <2> QED
    BY <1>2, <1>11, <2>2, <2>3 DEF Dispatch
<1> QED
  BY <1>9, <1>10, <1>11

LEMMA PostKeeps ==
  ASSUME ServerInv, NEW t \in Threads, Post(t)
  PROVE  ServerInv'
<1>1. /\ thread[t].pc = "post" /\ thread[t] \in ThreadState /\ Delivering(t) /\ ServerTyped
      /\ UNCHANGED <<startupVars, client, dispatcher, subscribers, urls, answered, events>>
  BY OfThread DEF Post, In
<1>2. PICK self : self = thread[t]
  OBVIOUS
<1>3. PICK bus : bus = Bus(t)
  OBVIOUS
<1>4. PICK url : url = Url(t)
  OBVIOUS
<1>5. self \in ThreadState /\ self.pc = "post" /\ HasSubscriber(t) /\ HasUrl(t)
      /\ self.failures[url] >= self.tries
  BY <1>1, <1>2, <1>4 DEF Delivering, In
<1>6. PICK a, b : a = self.at[1] /\ b = self.at[2]
  OBVIOUS
<1>7. /\ a \in 1..Len(bus) /\ b \in 1..Len(urls[bus[a]])
      /\ url = urls[bus[a]][b] /\ url \in AllUrls
  BY <1>1, <1>2, <1>3, <1>4, <1>5, <1>6, UrlTyped
<1>8. /\ self.tries \in Nat /\ self.tries < ATTEMPTS /\ self.failures[url] \in Nat
      /\ self.failures \in [AllUrls -> Nat] /\ ATTEMPTS \in Nat
  <2>1. self.tries \in 0..(ATTEMPTS - 1) /\ self.failures \in [AllUrls -> Nat]
    BY <1>5 DEF ThreadState
  <2> QED
    BY <1>7, <2>1, AttemptsTyped
<1>9. \A u \in self.due \cup Range(ConfigUrls) : Took(self, u) \/ FromOn(self, bus, u)
  BY <1>1, <1>2, <1>3 DEF Delivering, Took, FromOn, Served, Ahead
<1>10. ASSUME thread' = [thread EXCEPT ![t] =
                           NextUrl([thread[t] EXCEPT !.settled = @ \cup {Url(t)}])]
       PROVE  ServerInv'
  <2>1. PICK served : served = [self EXCEPT !.settled = @ \cup {url}]
    OBVIOUS
  <2>2. /\ served \in ThreadState /\ served.settled = self.settled \cup {url}
        /\ served.client = self.client /\ served.dispatcher = self.dispatcher
        /\ served.request = self.request /\ served.url = self.url /\ served.due = self.due
        /\ served.failures = self.failures /\ served.at = self.at
    BY <1>5, <1>7, <2>1 DEF ThreadState
  <2>3. Took(served, url) /\ \A u \in AllUrls : Took(self, u) => Took(served, u)
    BY <2>2 DEF Took
  <2>4. thread' = [thread EXCEPT ![t] = NextUrl(served)]
    BY <1>2, <1>4, <1>10, <2>1
  <2> QED
    BY <1>1, <1>2, <1>4, <1>5, <2>2, <2>3, <2>4, LeavingKeeps
<1>11. ASSUME thread' = [thread EXCEPT ![t] = Failed(thread[t], Url(t))]
       PROVE  ServerInv'
  <2>1. thread' = [thread EXCEPT ![t] = Failed(self, url)]
    BY <1>2, <1>4, <1>11
  <2>2. PICK failures : failures = [self.failures EXCEPT ![url] = @ + 1]
    OBVIOUS
  <2>3. /\ failures \in [AllUrls -> Nat] /\ failures[url] = self.failures[url] + 1
        /\ \A u \in AllUrls : failures[u] >= self.failures[u]
    BY <1>7, <1>8, <2>2
  <2>4. PICK failed : failed = [self EXCEPT !.tries = @ + 1, !.failures[url] = @ + 1]
    OBVIOUS
  <2>5. failed = [self EXCEPT !.tries = self.tries + 1, !.failures = failures]
    BY <1>5, <2>2, <2>4 DEF ThreadState
  <2>6. PICK tries : tries = self.tries + 1
    OBVIOUS
  <2>7. /\ failed.tries = tries /\ failed.failures = failures
        /\ failed.pc = "post" /\ failed.settled = self.settled
        /\ failed.client = self.client /\ failed.dispatcher = self.dispatcher
        /\ failed.request = self.request /\ failed.url = self.url /\ failed.due = self.due
        /\ failed.at = self.at
    BY <1>5, <2>5, <2>6 DEF ThreadState
  <2>8. failures[url] >= tries
    BY <1>5, <1>8, <2>3, <2>6
  <2>9. \A u \in AllUrls : Took(self, u) => Took(failed, u)
    BY <1>8, <2>3, <2>7 DEF Took, ThreadState
  <2>10. CASE tries < ATTEMPTS
    <3>1. failed \in ThreadState
      <4>1. tries \in 0..(ATTEMPTS - 1)
        BY <1>8, <2>6, <2>10
      <4> QED
        BY <1>5, <2>3, <2>5, <2>6, <4>1 DEF ThreadState
    <3>2. thread' = [thread EXCEPT ![t] = failed]
      BY <2>1, <2>4, <2>7, <2>10 DEF Failed
    <3>3. \A u \in failed.due \cup Range(ConfigUrls) : Took(failed, u) \/ FromOn(failed, bus, u)
      <4>1. self.due \subseteq AllUrls /\ Range(ConfigUrls) \subseteq AllUrls
        BY <1>5, ConfigTyped DEF ThreadState
      <4>2. \A u : FromOn(self, bus, u) => FromOn(failed, bus, u)
        BY <2>7 DEF FromOn
      <4> QED
        BY <1>9, <2>7, <2>9, <4>1, <4>2
    <3>4. /\ failed.at[1] <= Len(bus) /\ failed.at[2] <= Len(urls[bus[failed.at[1]]])
          /\ failed.failures[urls[bus[failed.at[1]]][failed.at[2]]] >= failed.tries
      <4>1. failed.at[1] = a /\ failed.at[2] = b
        BY <1>6, <2>7
      <4>2. a <= Len(bus) /\ b <= Len(urls[bus[a]])
        BY <1>1, <1>3, <1>7, BusTyped
      <4> QED
        BY <1>7, <2>7, <2>8, <4>1, <4>2
    <3> QED
      BY <1>1, <1>2, <1>3, <2>7, <3>1, <3>2, <3>3, <3>4, DeliveryMoves
  <2>11. CASE ~(tries < ATTEMPTS)
    <3>1. PICK served : served = [failed EXCEPT !.tries = 0]
      OBVIOUS
    <3>2. 0 \in 0..(ATTEMPTS - 1)
      BY AttemptsTyped
    <3>3. /\ served \in ThreadState /\ served.settled = self.settled
          /\ served.client = self.client /\ served.dispatcher = self.dispatcher
          /\ served.request = self.request /\ served.url = self.url /\ served.due = self.due
          /\ served.failures = failures /\ served.at = self.at
      BY <1>5, <2>3, <2>5, <3>1, <3>2 DEF ThreadState
    <3>4. NextUrl(served) = NextUrl(failed)
      BY <1>5, <2>5, <3>1 DEF NextUrl, ThreadState
    <3>5. thread' = [thread EXCEPT ![t] = NextUrl(served)]
      BY <2>1, <2>4, <2>7, <2>11, <3>4 DEF Failed
    <3>6. \A u \in AllUrls : Took(self, u) => Took(served, u)
      BY <2>7, <2>9, <3>3 DEF Took
    <3>7. Took(served, url)
      BY <1>8, <2>3, <2>6, <2>8, <2>11, <3>3 DEF Took
    <3> QED
      BY <1>1, <1>2, <1>4, <1>5, <3>3, <3>5, <3>6, <3>7, LeavingKeeps
  <2> QED
    BY <2>10, <2>11
<1> QED
  BY <1>10, <1>11 DEF Post

LEMMA AnswerKeeps ==
  ASSUME ServerInv, NEW t \in Threads, Answer(t)
  PROVE  ServerInv'
<1>1. /\ thread[t].pc = "answer" /\ Respond(t)
      /\ UNCHANGED <<startupVars, client, dispatcher, subscribers, urls, answered, events>>
  BY DEF Answer, In
<1>2. answered' \subseteq Urls /\ events' \in Nat
  BY <1>1, OfThread
<1> QED
  BY <1>1, <1>2, RespondKeeps

(* Another process takes a step.                                           *)
LEMMA OtherKeeps ==
  ASSUME ServerInv, NEW o \in Openers \ Threads, Other(o)
  PROVE  ServerInv'
<1>1. /\ StartupInv /\ ServerTyped
      /\ UNCHANGED <<client, dispatcher, subscribers, urls, thread, answered, events>>
  BY DEF ServerInv, Other
<1>2. opener \in [Openers -> OpenerState]
  BY <1>1, OpenerTyped
<1>3. StartupInv' /\ \A q \in Threads : opener'[q] = opener[q]
  <2>1. ASSUME NEW init \in BOOLEAN, connect(o, init)
        PROVE  StartupInv' /\ \A q \in Threads : opener'[q] = opener[q]
    <3>1. StartupInv'
      BY <1>1, <2>1, ConnectKeeps
    <3>2. \A q \in Threads : opener'[q] = opener[q]
      BY <1>2, <2>1, ApiAssumption DEF connect
    <3> QED
      BY <3>1, <3>2
  <2>2. CASE Opening(o)
    <3>1. StartupInv'
      BY <1>1, <2>2, OpeningKeeps
    <3>2. \A q \in Threads : opener'[q] = opener[q]
      BY <1>1, <2>2, OpeningMoves, ApiAssumption
    <3> QED
      BY <3>1, <3>2
  <2>3. CASE Close(o) /\ UNCHANGED <<tables, applied, stored>>
    <3>1. StartupInv'
      BY <1>1, <2>3, CloseKeeps
    <3>2. \A q \in Threads : opener'[q] = opener[q]
      BY <1>2, <2>3, ApiAssumption DEF Close
    <3> QED
      BY <3>1, <3>2
  <2>4. ASSUME NEW r \in Rows, Write(o, r)
        PROVE  StartupInv' /\ \A q \in Threads : opener'[q] = opener[q]
    <3>1. StartupInv'
      BY <1>1, <2>4, WriteKeeps
    <3>2. \A q \in Threads : opener'[q] = opener[q]
      BY <2>4 DEF Write
    <3> QED
      BY <3>1, <3>2
  <2> QED
    BY <2>1, <2>2, <2>3, <2>4 DEF Other
<1>4. Grows
  BY <1>1, StayingGrows
<1>5. MemoryTyped' /\ ServerTyped'
  BY <1>1 DEF ServerTyped, MemoryTyped
<1>6. Buses'
  BY <1>1 DEF ServerInv, Buses, Lists
<1>7. ASSUME NEW t \in Threads
      PROVE  Equipped(t)' /\ Delivering(t)'
  BY <1>1, <1>3, <1>4, <1>5, WhoWaitsKeeps
<1> QED
  BY <1>3, <1>5, <1>6, <1>7 DEF ServerInv

(* The memory of a server that has just started.                           *)
LEMMA RestartKeeps ==
  ASSUME ServerInv, Restart
  PROVE  ServerInv'
<1>1. /\ client' = 0 /\ dispatcher' = 0 /\ subscribers' = << >> /\ urls' = << >>
      /\ thread' = [t \in Threads |-> Idle] /\ answered' = {} /\ events' = events
      /\ opener' = [o \in Openers |-> IF o \in Threads THEN Closed ELSE opener[o]]
      /\ UNCHANGED <<tables, applied, stored>>
  BY DEF Restart
<1>2. StartupInv'
  <2>1. PICK C \in SUBSET Openers : C = Threads
    BY ApiAssumption
  <2>2. opener' = [o \in Openers |-> IF o \in C THEN Closed ELSE opener[o]]
    BY <1>1, <2>1
  <2> QED
    BY <1>1, <2>2, ClosingKeeps DEF ServerInv
<1>3. Len(subscribers') = 0 /\ Len(urls') = 0
  BY <1>1
<1>4. ServerTyped'
  <2>1. thread' \in [Threads -> ThreadState]
    BY <1>1, IdleTyped
  <2>2. subscribers' \in Seq(Seq(Nat)) /\ urls' \in Seq(Seq(AllUrls))
    BY <1>1
  <2>3. events' \in Nat
    BY <1>1 DEF ServerInv, ServerTyped
  <2>4. client' \in 0..Len(subscribers') /\ dispatcher' \in 0..Len(urls')
    BY <1>1, <1>3
  <2> QED
    BY <1>1, <2>1, <2>2, <2>3, <2>4 DEF ServerTyped
<1>5. Buses'
  <2>1. 1..Len(subscribers') = {}
    BY <1>3
  <2> QED
    BY <2>1 DEF Buses
<1>6. ASSUME NEW t \in Threads
      PROVE  Equipped(t)' /\ Delivering(t)'
  <2>1. thread'[t] = Idle /\ opener'[t].pc = "closed"
    BY <1>1, ApiAssumption DEF Closed
  <2>2. /\ Idle.pc = "idle" /\ Idle.client = 0 /\ Idle.dispatcher = 0 /\ Idle.at = <<1, 1>>
        /\ Idle.tries = 0 /\ Idle.request = "none"
    BY DEF Idle
  <2>3. Equipped(t)'
    BY <1>3, <2>1, <2>2 DEF Equipped
  <2>4. Delivering(t)'
    BY <2>1, <2>2, NothingDue
  <2> QED
    BY <2>3, <2>4
<1> QED
  BY <1>2, <1>4, <1>5, <1>6 DEF ServerInv

LEMMA ServerInitial == ServerInit => ServerInv
<1> SUFFICES ASSUME ServerInit
             PROVE  ServerInv
  OBVIOUS
<1>1. PICK s \in Scenarios :
        StartupInit(s.version, Threads \cup s.others) /\ events = s.events
  BY DEF ServerInit
<1>2. s.version \in 0..5 /\ s.events \in Nat
  BY ApiAssumption DEF Scenario
<1>3. StartupInv
  <2>1. PICK version, present :
          /\ version = s.version /\ present = Threads \cup s.others
          /\ StartupInit(version, present)
    BY <1>1
  <2> QED
    BY <1>2, <2>1, StartupInitial
<1>4. /\ client = 0 /\ dispatcher = 0 /\ subscribers = << >> /\ urls = << >>
      /\ thread = [t \in Threads |-> Idle] /\ answered = {}
  BY DEF ServerInit
<1>5. \A t \in Threads : opener[t].pc = "closed"
  BY <1>1, ApiAssumption DEF StartupInit, Closed
<1>6. Len(subscribers) = 0 /\ Len(urls) = 0
  BY <1>4
<1>7. ServerTyped
  <2>1. thread \in [Threads -> ThreadState]
    BY <1>4, IdleTyped
  <2>2. subscribers \in Seq(Seq(Nat)) /\ urls \in Seq(Seq(AllUrls))
    BY <1>4
  <2>3. client \in 0..Len(subscribers) /\ dispatcher \in 0..Len(urls)
    BY <1>4, <1>6
  <2> QED
    BY <1>1, <1>2, <1>4, <2>1, <2>2, <2>3 DEF ServerTyped
<1>8. Buses
  <2>1. 1..Len(subscribers) = {}
    BY <1>6
  <2> QED
    BY <2>1 DEF Buses
<1>9. ASSUME NEW t \in Threads
      PROVE  Equipped(t) /\ Delivering(t)
  <2>1. thread[t] = Idle /\ opener[t].pc = "closed"
    BY <1>4, <1>5
  <2>2. /\ Idle.pc = "idle" /\ Idle.client = 0 /\ Idle.dispatcher = 0 /\ Idle.at = <<1, 1>>
        /\ Idle.tries = 0 /\ Idle.request = "none"
    BY DEF Idle
  <2>3. Equipped(t)
    BY <1>6, <2>1, <2>2 DEF Equipped
  <2>4. Delivering(t)
    BY <2>1, <2>2 DEF Delivering, In
  <2> QED
    BY <2>3, <2>4
<1> QED
  BY <1>3, <1>7, <1>8, <1>9 DEF ServerInv

LEMMA ServerStays ==
  ASSUME ServerInv, UNCHANGED serverVars
  PROVE  ServerInv'
<1>1. /\ StartupInv /\ ServerTyped
      /\ UNCHANGED <<startupVars, client, dispatcher, subscribers, urls, thread,
                     answered, events>>
  BY DEF ServerInv, serverVars
<1>2. StartupInv' /\ opener' = opener
  BY <1>1, RestKeeps DEF startupVars
<1>3. Grows
  BY <1>1, StayingGrows
<1>4. MemoryTyped' /\ ServerTyped'
  BY <1>1 DEF ServerTyped, MemoryTyped
<1>5. Buses'
  BY <1>1 DEF ServerInv, Buses, Lists
<1>6. ASSUME NEW t \in Threads
      PROVE  Equipped(t)' /\ Delivering(t)'
  BY <1>1, <1>2, <1>3, <1>4, WhoWaitsKeeps
<1> QED
  BY <1>2, <1>4, <1>5, <1>6 DEF ServerInv

LEMMA ServerSteps ==
  ASSUME ServerInv, [ServerNext]_serverVars
  PROVE  ServerInv'
<1>1. CASE UNCHANGED serverVars
  BY <1>1, ServerStays
<1>2. ASSUME NEW t \in Threads, Serve(t)
      PROVE  ServerInv'
  <2>1. CASE GetClient(t) \/ Construct(t) \/ Constructing(t) \/ Constructed(t)
    BY <2>1, GetClientKeeps, ConstructKeeps, ConstructingKeeps, ConstructedKeeps
  <2>2. CASE CheckDispatcher(t) \/ NewDispatcher(t) \/ on_event(t)
    BY <2>2, CheckDispatcherKeeps, NewDispatcherKeeps, OnEventKeeps
  <2>3. CASE Lookup(t) \/ register(t)
    BY <2>3, LookupKeeps, RegisterKeeps
  <2>4. CASE publish(t) \/ Dispatch(t) \/ Post(t) \/ Answer(t)
    BY <2>4, PublishKeeps, DispatchKeeps, PostKeeps, AnswerKeeps
  <2> QED
    BY <1>2, <2>1, <2>2, <2>3, <2>4 DEF Serve
<1>3. ASSUME NEW t \in Threads, post_intents(t) \/ post_webhooks(t)
      PROVE  ServerInv'
  BY <1>3, PostIntentsKeeps, PostWebhooksKeeps
<1> QED
  BY <1>1, <1>2, <1>3, OtherKeeps, RestartKeeps DEF ServerNext

-----------------------------------------------------------------------------
(***************************************************************************)
(* What holds of every server.                                             *)
(***************************************************************************)

(* ServerInv is an invariant of the server: the database is at a place of  *)
(* the scripts that at most one opener is working on (start-up), every     *)
(* thread has what its next step takes, and a URL an event is due to was   *)
(* served or lies ahead of the thread that delivers (lumo/api.py,          *)
(* lumo/db/migrate.py, lumo/monitor/webhooks.py).                          *)
THEOREM ServerInvariant == ServerSpec => []ServerInv
<1>1. ServerInit => ServerInv
  BY ServerInitial
<1>2. ServerInv /\ [ServerNext]_serverVars => ServerInv'
  BY ServerSteps
<1> QED
  BY <1>1, <1>2, PTL DEF ServerSpec

(* Every state of the server is well-typed: a thread refers to clients,    *)
(* dispatchers and URLs that exist, and constructs a client while its      *)
(* opener is at work (the _client and _dispatcher of lumo/api.py).         *)
THEOREM ServerWellTyped == ServerSpec => []ServerTypeOK
<1>1. ServerInv => ServerTypeOK
  <2> SUFFICES ASSUME ServerInv
               PROVE  ServerTypeOK
    OBVIOUS
  <2>1. ServerTyped /\ Buses /\ StartupTypeOK
    BY DEF ServerInv, StartupInv
  <2>2. ASSUME NEW c \in DOMAIN subscribers
        PROVE  Range(subscribers[c]) \subseteq DOMAIN urls
    <3>1. c \in 1..Len(subscribers) /\ subscribers[c] \in Seq(Nat)
      BY <2>1 DEF ServerTyped
    <3>2. DOMAIN urls = 1..Len(urls) /\ DOMAIN subscribers[c] = 1..Len(subscribers[c])
      BY <2>1, <3>1 DEF ServerTyped
    <3>3. \A i \in 1..Len(subscribers[c]) : subscribers[c][i] \in 1..Len(urls)
      BY <2>1, <3>1 DEF Buses
    <3> QED
      BY <3>2, <3>3 DEF Range
  <2>3. ASSUME NEW d \in DOMAIN urls
        PROVE  Range(urls[d]) \subseteq AllUrls
    <3>1. urls[d] \in Seq(AllUrls)
      BY <2>1 DEF ServerTyped
    <3>2. \A j \in DOMAIN urls[d] : urls[d][j] \in AllUrls
      BY <3>1
    <3> QED
      BY <3>2 DEF Range
  <2>4. ASSUME NEW t \in Threads
        PROVE  /\ thread[t].client \in 0..Len(subscribers)
               /\ thread[t].dispatcher \in 0..Len(urls)
               /\ thread[t].tries \in 0..ATTEMPTS - 1
               /\ thread[t].pc = "constructing" <=> opener[t].pc # "closed"
               /\ \A u \in AllUrls : thread[t].failures[u] \in Nat
    <3>1. thread[t] \in ThreadState /\ Equipped(t) /\ Len(subscribers) \in Nat /\ Len(urls) \in Nat
      BY OfThread
    <3>2. thread[t].client <= Len(subscribers) /\ thread[t].dispatcher <= Len(urls)
      BY <3>1 DEF Equipped
    <3>3. thread[t].client \in 0..Len(subscribers) /\ thread[t].dispatcher \in 0..Len(urls)
      BY <3>1, <3>2 DEF ThreadState
    <3>4. thread[t].pc = "constructing" <=> opener[t].pc # "closed"
      BY <3>1 DEF Equipped
    <3> QED
      BY <3>1, <3>3, <3>4 DEF ThreadState
  <2> QED
    BY <2>1, <2>2, <2>3, <2>4 DEF ServerTypeOK, ServerTyped
<1> QED
  BY <1>1, ServerInvariant, PTL

(* However many openers run script 0004_trust_pipeline at the same time    *)
(* and wherever they stop, a row that was committed is in its table or in  *)
(* the copy that is to take its place, but for one that was committed      *)
(* between the copy of its table and its drop (lumo/db/migrate.py).        *)
THEOREM ServerRowsKept == ServerSpec => []RowsKept
<1>1. ServerInv => RowsKept
  BY DEF ServerInv, StartupInv
<1> QED
  BY <1>1, ServerInvariant, PTL

(* A client whose constructor returned finds every script recorded, the    *)
(* whole schema, no leftover of a rebuild, and rules (lumo/sdk.py).        *)
THEOREM ServerOpenIsUpToDate == ServerSpec => []OpenIsUpToDate
<1>1. ServerInv => OpenIsUpToDate
  <2> SUFFICES ASSUME ServerInv
               PROVE  OpenIsUpToDate
    OBVIOUS
  <2>1. PICK v \in 0..5, k \in 0..9 : SchemaAt(v, k)
    BY DEF ServerInv, StartupInv, SchemaInv
  <2>2. applied = 1..Cardinality(applied)
    <3>1. applied = 1..v
      BY <2>1 DEF SchemaAt
    <3>2. Cardinality(1..v) = IF 1 > v THEN 0 ELSE v - 1 + 1
      BY FS_Interval
    <3>3. Cardinality(1..v) = v
      BY <3>2
    <3> QED
      BY <3>1, <3>3
  <2>3. ASSUME NEW o \in Openers, At(o, "open")
        PROVE  /\ applied = Migrations
               /\ DOMAIN tables = Schema(Migrations)
               /\ tables["policy_rules"] # {}
    <3>1. applied = Migrations /\ tables["policy_rules"] # {}
      BY <2>3 DEF ServerInv, StartupInv, OpenerInv, OpenerOK, At
    <3>2. DOMAIN tables = Schema(Migrations)
      BY <2>1, <3>1, OpenSchema, Scripts
    <3> QED
      BY <3>1, <3>2
  <2> QED
    BY <2>2, <2>3 DEF OpenIsUpToDate
<1> QED
  BY <1>1, ServerInvariant, PTL

(* "retry, then drop" (lumo/monitor/webhooks.py): when a proposal is       *)
(* answered its event was taken, refused or failed ATTEMPTS times at every *)
(* URL it was due to, whatever the other threads register meanwhile.       *)
THEOREM ServerDeliveryComplete == ServerSpec => []DeliveryComplete
<1>1. ServerInv => DeliveryComplete
  BY DEF ServerInv, Delivering, Served, DeliveryComplete
<1> QED
  BY <1>1, ServerInvariant, PTL
=============================================================================
