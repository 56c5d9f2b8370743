-------------------------- MODULE ProtocolRowsProofs --------------------------
(* What servers and clients make of the rows of a node, for any number of    *)
(* rows, names, ports and changes.  The prover has no induction over data:   *)
(* what a fold computes is proved of its values one by one, from the least   *)
(* number for which it would fail.                                           *)
EXTENDS ProtocolRows, SequenceTheorems, FiniteSetTheorems, WellFoundedInduction, TLAPS

-----------------------------------------------------------------------------
(* The rows: their ids ascend.                                               *)

\* The options a row may have, and every configuration of them.
Options == {"password", "obfs", "obfs_password", "method", "sni", "version", "private_key",
            "public_key", "uuid", "flow", "short_id", "path", "congestion", "preshared_key",
            "ss_port"}
Configs == UNION {[K -> {"made", "given", "empty"}] : K \in SUBSET Options}
Row == [id : 1..MaxChanges, name : Names, port : Ports, config : Configs, active : BOOLEAN]

RowsInv == /\ rows \in Seq(Row)
           /\ \A i, j \in 1..Len(rows) : i < j => rows[i].id < rows[j].id

LEMMA NamesKnown ==
    \A name \in Names : name \in {"hysteria2", "shadowsocks", "shadowtls", "vless", "vmess",
                                  "trojan", "tuic", "wireguard", "ssh"}
<1>1. Supported \ {"vlessreality"} \subseteq
        {"hysteria2", "shadowsocks", "shadowtls", "vless", "vmess", "trojan", "tuic", "wireguard"}
  BY DEF Supported, XrayNames, SingboxNames
<1>2. Names \subseteq (Supported \ {"vlessreality"}) \union {"ssh"} BY RowsAssumption
<1> HIDE DEF Supported
<1> QED BY <1>1, <1>2

LEMMA ConfigsAre ==
    ASSUME NEW K \in SUBSET Options, NEW c \in [K -> {"made", "given", "empty"}]
    PROVE  c \in Configs
BY DEF Configs

LEMMA ExtrasTyped == ASSUME NEW name PROVE Extras(name) \subseteq Configs
<1>1. Nothing \in Configs
  <2>1. Nothing \in [{} -> {"made", "given", "empty"}] BY DEF Nothing
  <2> QED BY <2>1, ConfigsAre
<1>2. [obfs |-> "empty"] \in Configs
  <2>1. [obfs |-> "empty"] \in [{"obfs"} -> {"made", "given", "empty"}] OBVIOUS
  <2>2. {"obfs"} \in SUBSET Options BY DEF Options
  <2> QED BY <2>1, <2>2, ConfigsAre
<1>3. [obfs_password |-> "given"] \in Configs
  <2>1. [obfs_password |-> "given"] \in [{"obfs_password"} -> {"made", "given", "empty"}] OBVIOUS
  <2>2. {"obfs_password"} \in SUBSET Options BY DEF Options
  <2> QED BY <2>1, <2>2, ConfigsAre
<1>4. [private_key |-> "given"] \in Configs
  <2>1. [private_key |-> "given"] \in [{"private_key"} -> {"made", "given", "empty"}] OBVIOUS
  <2>2. {"private_key"} \in SUBSET Options BY DEF Options
  <2> QED BY <2>1, <2>2, ConfigsAre
<1>5. [ss_port |-> "given"] \in Configs
  <2>1. [ss_port |-> "given"] \in [{"ss_port"} -> {"made", "given", "empty"}] OBVIOUS
  <2>2. {"ss_port"} \in SUBSET Options BY DEF Options
  <2> QED BY <2>1, <2>2, ConfigsAre
<1>6. [password |-> "given"] \in Configs
  <2>1. [password |-> "given"] \in [{"password"} -> {"made", "given", "empty"}] OBVIOUS
  <2>2. {"password"} \in SUBSET Options BY DEF Options
  <2> QED BY <2>1, <2>2, ConfigsAre
<1> HIDE DEF Configs, Nothing
<1> QED BY <1>1, <1>2, <1>3, <1>4, <1>5, <1>6 DEF Extras

LEMMA MergedTyped ==
    ASSUME NEW name \in Names, NEW extra \in Configs
    PROVE  Merged(name, extra) \in Configs
<1>1. Defaults[name] \subseteq Options
  <2>1. CASE name \in {"hysteria2", "shadowsocks", "shadowtls"} BY <2>1 DEF Defaults, Options
  <2>2. CASE name \in {"vless", "vmess", "trojan"} BY <2>2 DEF Defaults, Options
  <2>3. CASE name \in {"tuic", "wireguard", "ssh"} BY <2>3 DEF Defaults, Options
  <2> QED BY NamesKnown, <2>1, <2>2, <2>3
<1>2. PICK K \in SUBSET Options : extra \in [K -> {"made", "given", "empty"}] BY DEF Configs
<1>3. Merged(name, extra) \in [Defaults[name] \union K -> {"made", "given", "empty"}]
  BY <1>2 DEF Merged
<1>4. Defaults[name] \union K \in SUBSET Options BY <1>1, <1>2
<1> QED BY <1>3, <1>4, ConfigsAre

LEMMA RowFields ==
    ASSUME NEW p \in Row
    PROVE  /\ p.id \in 1..MaxChanges /\ p.id \in Nat /\ p.id >= 1
           /\ p.name \in Names /\ p.port \in Ports /\ p.port \in Nat
           /\ p.config \in Configs
<1>1. /\ p.id \in 1..MaxChanges /\ p.name \in Names /\ p.port \in Ports
      /\ p.config \in Configs
  BY DEF Row
<1>2. MaxChanges \in Nat /\ Ports \subseteq Nat BY RowsAssumption
<1>3. p.id \in Nat /\ p.id >= 1 BY <1>1, <1>2
<1>4. p.port \in Nat BY <1>1, <1>2
<1> QED BY <1>1, <1>3, <1>4

LEMMA CreateKeeps ==
    ASSUME RowsInv, NEW name \in Names, NEW port \in Ports, CreateProtocol(name, port)
    PROVE  RowsInv'
<1>1. PICK extra \in Extras(name) :
         rows' = Append(rows, [id |-> NextId, name |-> name, port |-> port,
                               config |-> Merged(name, extra), active |-> TRUE])
  BY DEF CreateProtocol
<1> DEFINE row == [id |-> NextId, name |-> name, port |-> port,
                   config |-> Merged(name, extra), active |-> TRUE]
<1>2. rows \in Seq(Row) /\ Len(rows) \in Nat BY LenProperties DEF RowsInv
<1>3. \A i \in 1..Len(rows) : rows[i] \in Row /\ rows[i].id \in Nat /\ rows[i].id >= 1
  BY <1>2, ElementOfSeq, RowFields
<1>4. NextId \in Nat /\ NextId >= 1 /\ \A i \in 1..Len(rows) : rows[i].id < NextId
  <2>1. CASE rows = << >> BY <2>1, <1>2 DEF NextId
  <2>2. CASE rows # << >>
    <3>1. Len(rows) \in 1..Len(rows) BY <1>2, <2>2, EmptySeq
    <3>2. NextId = rows[Len(rows)].id + 1 BY <2>2 DEF NextId, Last
    <3>3. \A i \in 1..Len(rows) : rows[i].id <= rows[Len(rows)].id
      BY <1>2, <1>3, <3>1 DEF RowsInv
    <3> QED BY <1>3, <3>1, <3>2, <3>3
  <2> QED BY <2>1, <2>2
<1>5. NextId \in 1..MaxChanges
  <2>1. NextId <= MaxChanges BY DEF CreateProtocol
  <2>2. MaxChanges \in Nat BY RowsAssumption
  <2> QED BY <1>4, <2>1, <2>2
<1>6. row \in Row /\ row.id = NextId BY <1>5, ExtrasTyped, MergedTyped DEF Row
<1> HIDE DEF row
<1>7. /\ rows' \in Seq(Row) /\ Len(rows') = Len(rows) + 1 /\ rows'[Len(rows) + 1] = row
      /\ \A i \in 1..Len(rows) : rows'[i] = rows[i]
  BY <1>1, <1>2, <1>6, AppendProperties DEF row
<1>8. ASSUME NEW i \in 1..Len(rows'), NEW j \in 1..Len(rows'), i < j
      PROVE  rows'[i].id < rows'[j].id
  <2>1. i \in 1..Len(rows) BY <1>2, <1>7, <1>8
  <2>2. CASE j = Len(rows) + 1 BY <1>4, <1>6, <1>7, <2>1, <2>2
  <2>3. CASE j # Len(rows) + 1
    <3>1. j \in 1..Len(rows) BY <1>2, <1>7, <2>3
    <3> QED BY <1>7, <1>8, <2>1, <3>1 DEF RowsInv
  <2> QED BY <2>2, <2>3
<1> QED BY <1>7, <1>8 DEF RowsInv

LEMMA UpdateKeeps ==
    ASSUME RowsInv, NEW i \in DOMAIN rows, UpdateProtocol(i)
    PROVE  RowsInv'
<1>1. rows \in Seq(Row) /\ Len(rows) \in Nat /\ DOMAIN rows = 1..Len(rows)
  BY LenProperties DEF RowsInv
<1>2. rows[i] \in Row /\ i \in 1..Len(rows) BY <1>1, ElementOfSeq
<1>3. PICK row \in Row : row.id = rows[i].id /\ rows' = [rows EXCEPT ![i] = row]
  <2>1. CASE \E n \in Names : rows' = [rows EXCEPT ![i].name = n]
    <3>1. PICK n \in Names : rows' = [rows EXCEPT ![i] = [rows[i] EXCEPT !.name = n]] BY <2>1
    <3>2. [rows[i] EXCEPT !.name = n] \in Row /\ [rows[i] EXCEPT !.name = n].id = rows[i].id
      BY <1>2 DEF Row
    <3> QED BY <3>1, <3>2
  <2>2. CASE \E q \in Ports : rows' = [rows EXCEPT ![i].port = q]
    <3>1. PICK q \in Ports : rows' = [rows EXCEPT ![i] = [rows[i] EXCEPT !.port = q]] BY <2>2
    <3>2. [rows[i] EXCEPT !.port = q] \in Row /\ [rows[i] EXCEPT !.port = q].id = rows[i].id
      BY <1>2 DEF Row
    <3> QED BY <3>1, <3>2
  <2>3. CASE rows' = [rows EXCEPT ![i].active = ~@]
    <3>1. rows' = [rows EXCEPT ![i] = [rows[i] EXCEPT !.active = ~rows[i].active]] BY <2>3
    <3>2. /\ [rows[i] EXCEPT !.active = ~rows[i].active] \in Row
          /\ [rows[i] EXCEPT !.active = ~rows[i].active].id = rows[i].id
      BY <1>2 DEF Row
    <3> QED BY <3>1, <3>2
  <2>4. CASE \E c \in Extras(rows[i].name) : rows' = [rows EXCEPT ![i].config = c]
    <3>1. PICK c \in Configs : rows' = [rows EXCEPT ![i] = [rows[i] EXCEPT !.config = c]]
      BY <2>4, ExtrasTyped
    <3>2. [rows[i] EXCEPT !.config = c] \in Row /\ [rows[i] EXCEPT !.config = c].id = rows[i].id
      BY <1>2 DEF Row
    <3> QED BY <3>1, <3>2
  <2> QED BY <2>1, <2>2, <2>3, <2>4 DEF UpdateProtocol
<1>4. /\ rows' \in Seq(Row) /\ Len(rows') = Len(rows)
      /\ \A j \in 1..Len(rows) : rows'[j] = IF j = i THEN row ELSE rows[j]
  BY <1>1, <1>2, <1>3, ExceptSeq
<1>5. \A j \in 1..Len(rows) : rows'[j].id = rows[j].id BY <1>3, <1>4
<1> QED BY <1>4, <1>5 DEF RowsInv

LEMMA DeleteKeeps ==
    ASSUME RowsInv, NEW i \in DOMAIN rows, DeleteProtocol(i)
    PROVE  RowsInv'
<1> DEFINE n == Len(rows)
           before == SubSeq(rows, 1, i - 1)
           after == SubSeq(rows, i + 1, n)
<1>1. rows \in Seq(Row) /\ n \in Nat /\ i \in 1..n BY LenProperties DEF RowsInv
<1>2. \A j \in 1..n : rows[j] \in Row BY <1>1, ElementOfSeq
<1>3. /\ before \in Seq(Row) /\ Len(before) = i - 1
      /\ \A j \in 1..(i - 1) : before[j] = rows[j]
  <2>1. /\ before \in Seq(Row) /\ Len(before) = IF 1 <= i - 1 THEN (i - 1) - 1 + 1 ELSE 0
        /\ \A j \in 1..((i - 1) - 1 + 1) : before[j] = rows[1 + j - 1]
    BY <1>1, <1>2, SubSeqProperties
  <2> QED BY <1>1, <2>1
<1>4. /\ after \in Seq(Row) /\ Len(after) = n - i
      /\ \A j \in 1..(n - i) : after[j] = rows[i + j]
  <2>1. /\ after \in Seq(Row) /\ Len(after) = IF i + 1 <= n THEN n - (i + 1) + 1 ELSE 0
        /\ \A j \in 1..(n - (i + 1) + 1) : after[j] = rows[(i + 1) + j - 1]
    BY <1>1, <1>2, SubSeqProperties
  <2> QED BY <1>1, <2>1
<1>5. rows' = before \o after BY DEF DeleteProtocol, RemoveAt
<1> HIDE DEF before, after, n
<1>6. /\ rows' \in Seq(Row) /\ Len(rows') = n - 1
      /\ \A j \in 1..(n - 1) : rows'[j] = IF j <= i - 1 THEN before[j] ELSE after[j - (i - 1)]
  <2>1. /\ rows' \in Seq(Row) /\ Len(rows') = Len(before) + Len(after)
        /\ \A j \in 1..Len(before) + Len(after) :
              rows'[j] = IF j <= Len(before) THEN before[j] ELSE after[j - Len(before)]
    BY <1>3, <1>4, <1>5, ConcatProperties
  <2>2. Len(before) + Len(after) = n - 1 BY <1>1, <1>3, <1>4
  <2> QED BY <1>3, <2>1, <2>2
<1>7. \A j \in 1..(n - 1) : rows'[j] = IF j < i THEN rows[j] ELSE rows[j + 1]
  <2> SUFFICES ASSUME NEW j \in 1..(n - 1) PROVE rows'[j] = IF j < i THEN rows[j] ELSE rows[j + 1]
    OBVIOUS
  <2>1. CASE j < i BY <1>1, <1>3, <1>6, <2>1
  <2>2. CASE ~(j < i)
    <3>1. j - (i - 1) \in 1..(n - i) /\ i + (j - (i - 1)) = j + 1 BY <1>1, <2>2
    <3>2. rows'[j] = after[j - (i - 1)] BY <1>1, <1>6, <2>2
    <3> QED BY <1>4, <2>2, <3>1, <3>2
  <2> QED BY <2>1, <2>2
<1>8. ASSUME NEW j \in 1..(n - 1), NEW k \in 1..(n - 1), j < k
      PROVE  rows'[j].id < rows'[k].id
  <2> DEFINE old(m) == IF m < i THEN m ELSE m + 1
  <2>1. old(j) \in 1..n /\ old(k) \in 1..n /\ old(j) < old(k) BY <1>1, <1>8
  <2>2. rows'[j] = rows[old(j)] /\ rows'[k] = rows[old(k)] BY <1>7
  <2> QED BY <2>1, <2>2 DEF RowsInv, n
<1> QED BY <1>6, <1>8 DEF RowsInv

LEMMA RowsHold == Spec => []RowsInv
<1>1. Init => RowsInv
  <2> SUFFICES ASSUME Init PROVE RowsInv OBVIOUS
  <2>1. rows \in Seq(Row) /\ Len(rows) = 0 BY EmptySeq DEF Init
  <2> QED BY <2>1 DEF RowsInv
<1>2. RowsInv /\ [Next]_vars => RowsInv'
  <2> SUFFICES ASSUME RowsInv, [Next]_vars PROVE RowsInv' OBVIOUS
  <2>1. CASE UNCHANGED vars BY <2>1 DEF vars, RowsInv
  <2>2. CASE Next BY <2>2, CreateKeeps, UpdateKeeps, DeleteKeeps DEF Next
  <2> QED BY <2>1, <2>2
<1> QED BY <1>1, <1>2, PTL DEF Spec

-----------------------------------------------------------------------------
(* Folds.                                                                    *)

\* Numbers have a least one among them.
LEMMA LeastOf ==
    ASSUME NEW S, S \subseteq Nat, S # {}
    PROVE  \E m \in S : \A n \in S : m <= n
<1> DEFINE R == OpToRel(<, Nat)
<1>1. IsWellFoundedOn(R, Nat) BY NatLessThanWellFounded
<1>2. PICK m \in S : \A n \in S : ~ (<<n, m>> \in R)
  <2> HIDE DEF R
  <2> QED BY <1>1, WFMin
<1>3. \A n \in S : n \in Nat /\ m \in Nat OBVIOUS
<1>4. \A n \in S : ~ (n < m) BY <1>2, <1>3 DEF OpToRel
<1> QED BY <1>3, <1>4

\* Induction for a set of numbers.
LEMMA Inductive ==
    ASSUME NEW S, 0 \in S, \A m \in Nat : m \in S => m + 1 \in S
    PROVE  \A m \in Nat : m \in S
<1> SUFFICES ASSUME NEW k \in Nat, k \notin S PROVE FALSE OBVIOUS
<1> DEFINE out == {m \in Nat : m \notin S}
<1>1. PICK m \in out : \A n \in out : m <= n
  <2>1. out \subseteq Nat /\ out # {} OBVIOUS
  <2> HIDE DEF out
  <2> QED BY <2>1, LeastOf
<1>2. m # 0 /\ m \in Nat OBVIOUS
<1>3. m - 1 \in Nat /\ m - 1 \notin out BY <1>1, <1>2
<1>4. (m - 1) + 1 \in S BY <1>3
<1> QED BY <1>2, <1>4

\* The greatest of the first k numbers, and of a set of them that holds k.
LEMMA MaxIs ==
    ASSUME NEW k \in Nat, NEW s \in SUBSET (1..k), k \in s
    PROVE  Max(s) = k
<1>1. k \in s /\ \A y \in s : k >= y OBVIOUS
<1>2. \A x \in s : (\A y \in s : x >= y) => x = k
  <2> SUFFICES ASSUME NEW x \in s, \A y \in s : x >= y PROVE x = k OBVIOUS
  <2>1. x \in 1..k /\ x >= k BY <1>1
  <2> QED BY <2>1
<1> QED BY <1>1, <1>2 DEF Max

\* One step of the two folds of the model: Inbounds, and Active for no names.
Adds(names, done, p) ==
    IF p.name \notin names THEN done
    ELSE done \o (IF p.name = "shadowtls" THEN <<Paired(p)>> ELSE << >>)
              \o <<Inbound(p, FreshTag(BaseTag[p.name], done))>>
Keeps(done, p) == IF p.active THEN Append(done, p) ELSE done
Step(names, done, p) == IF names = {} THEN Keeps(done, p) ELSE Adds(names, done, p)

\* The values such a fold has, for every set of positions.
Unfolded(names, seq, D, it) ==
    it = [s \in SUBSET D |-> IF s = {} THEN << >>
                             ELSE Step(names, it[s \ {Max(s)}], seq[Max(s)])]

LEMMA UnfoldedExists ==
    ASSUME NEW names, NEW seq
    PROVE  \A m \in Nat : \E it : Unfolded(names, seq, 1..m, it)
<1> DEFINE S == {m \in Nat : \E it : Unfolded(names, seq, 1..m, it)}
<1>1. 0 \in S
  <2>1. 1..0 = {} OBVIOUS
  <2> DEFINE it == [s \in SUBSET (1..0) |-> << >>]
  <2>2. \A s \in SUBSET (1..0) : s = {} BY <2>1
  <2>3. Unfolded(names, seq, 1..0, it) BY <2>2 DEF Unfolded
  <2> QED BY <2>3
<1>2. ASSUME NEW m \in Nat, m \in S PROVE m + 1 \in S
  <2>1. PICK g : Unfolded(names, seq, 1..m, g) BY <1>2
  <2> DEFINE D == 1..(m + 1)
             old(s) == s \ {m + 1}
             it == [s \in SUBSET D |-> IF m + 1 \notin s THEN g[s]
                                       ELSE Step(names, g[old(s)], seq[m + 1])]
  <2>2. \A s \in SUBSET D : m + 1 \notin s => s \in SUBSET (1..m) OBVIOUS
  <2>3. ASSUME NEW s \in SUBSET D
        PROVE  it[s] = IF s = {} THEN << >> ELSE Step(names, it[s \ {Max(s)}], seq[Max(s)])
    <3>1. CASE m + 1 \in s
      <4>1. Max(s) = m + 1 BY <3>1, MaxIs
      <4>2. it[s \ {m + 1}] = g[old(s)] OBVIOUS
      <4>3. it[s] = Step(names, g[old(s)], seq[m + 1]) BY <3>1
      <4> HIDE DEF it, old
      <4> QED BY <3>1, <4>1, <4>2, <4>3
    <3>2. CASE m + 1 \notin s
      <4>1. s \in SUBSET (1..m) BY <2>2, <3>2
      <4>2. it[s] = g[s] BY <3>2
      <4>3. it[s \ {Max(s)}] = g[s \ {Max(s)}] BY <3>2
      <4>4. g[s] = IF s = {} THEN << >> ELSE Step(names, g[s \ {Max(s)}], seq[Max(s)])
        BY <2>1, <4>1 DEF Unfolded
      <4> HIDE DEF it
      <4> QED BY <4>2, <4>3, <4>4
    <3> QED BY <3>1, <3>2
  <2>4. it = [s \in SUBSET D |-> it[s]] OBVIOUS
  <2> HIDE DEF it
  <2>5. Unfolded(names, seq, D, it) BY <2>3, <2>4 DEF Unfolded
  <2> QED BY <2>5
<1> HIDE DEF S
<1>3. \A m \in Nat : m \in S BY <1>1, <1>2, Inductive
<1> QED BY <1>3 DEF S

\* What the fold has for the first k positions, one after the other.
Fold(names, seq, n) == (CHOOSE it : Unfolded(names, seq, 1..n, it))[1..n]

LEMMA FoldSteps ==
    ASSUME NEW names, NEW seq, NEW n \in Nat
    PROVE  \E v : /\ v[0] = << >> /\ v[n] = Fold(names, seq, n)
                  /\ \A k \in Nat : k < n => v[k + 1] = Step(names, v[k], seq[k + 1])
<1> DEFINE it == CHOOSE it : Unfolded(names, seq, 1..n, it)
<1>1. Unfolded(names, seq, 1..n, it) BY UnfoldedExists
<1>2. Fold(names, seq, n) = it[1..n] BY DEF Fold
<1> HIDE DEF it
<1> DEFINE v == [k \in 0..n |-> it[1..k]]
<1>3. v[0] = << >>
  <2>1. 1..0 = {} OBVIOUS
  <2>2. it[{}] = << >> BY <1>1 DEF Unfolded
  <2> QED BY <2>1, <2>2
<1>4. ASSUME NEW k \in Nat, k < n
      PROVE  v[k + 1] = Step(names, v[k], seq[k + 1])
  <2> DEFINE s == 1..(k + 1)
  <2>1. s \in SUBSET (1..n) /\ s # {} BY <1>4
  <2>2. Max(s) = k + 1 BY MaxIs
  <2>3. s \ {k + 1} = 1..k BY <1>4
  <2> HIDE DEF s
  <2>4. it[s] = Step(names, it[s \ {Max(s)}], seq[Max(s)]) BY <1>1, <2>1 DEF Unfolded
  <2>5. v[k + 1] = it[s] /\ v[k] = it[1..k] BY <1>4 DEF s
  <2> HIDE DEF v
  <2> QED BY <2>2, <2>3, <2>4, <2>5
<1>5. v[n] = Fold(names, seq, n) BY <1>2
<1> HIDE DEF v
<1> QED BY <1>3, <1>4, <1>5

\* The two folds of the model are folds of Step.
LEMMA ActiveUnfolds ==
    ASSUME NEW n \in Nat, DOMAIN rows = 1..n
    PROVE  \E v : /\ v[0] = << >> /\ v[n] = Active
                  /\ \A k \in Nat : k < n => v[k + 1] = Keeps(v[k], rows[k + 1])
<1>1. Active = Fold({}, rows, n)
  BY DEF Active, FoldLeft, MapThenFoldSet, Fold, Unfolded, Step, Keeps
<1>2. \A done, p : Step({}, done, p) = Keeps(done, p) BY DEF Step
<1>3. PICK v : /\ v[0] = << >> /\ v[n] = Fold({}, rows, n)
               /\ \A k \in Nat : k < n => v[k + 1] = Step({}, v[k], rows[k + 1])
  BY FoldSteps
<1> QED BY <1>1, <1>2, <1>3

Adding(names, seq, n, v) ==
    /\ v[0] = << >> /\ v[n] = Inbounds(names, seq)
    /\ \A k \in Nat : k < n => v[k + 1] = Adds(names, v[k], seq[k + 1])

LEMMA InboundsUnfold ==
    ASSUME NEW names, names # {}, NEW seq, NEW n \in Nat, DOMAIN seq = 1..n
    PROVE  \E v : Adding(names, seq, n, v)
<1>1. Inbounds(names, seq) = Fold(names, seq, n)
  BY DEF Inbounds, FoldLeft, MapThenFoldSet, Fold, Unfolded, Step, Adds
<1>2. \A done, p : Step(names, done, p) = Adds(names, done, p) BY DEF Step
<1>3. PICK v : /\ v[0] = << >> /\ v[n] = Fold(names, seq, n)
               /\ \A k \in Nat : k < n => v[k + 1] = Step(names, v[k], seq[k + 1])
  BY FoldSteps
<1>4. Adding(names, seq, n, v) BY <1>1, <1>2, <1>3 DEF Adding
<1> QED BY <1>4

\* Active: active rows of the node, at most as many, their ids ascending.
ActiveFacts ==
    /\ Active \in Seq(Row) /\ Len(Active) \in Nat /\ Len(Active) <= Len(rows)
    /\ \A i \in 1..Len(Active) : Active[i] \in Row /\ Active[i].active
    /\ \A i, j \in 1..Len(Active) : i < j => Active[i].id < Active[j].id

LEMMA ActiveIs == RowsInv => ActiveFacts
<1> SUFFICES ASSUME RowsInv PROVE ActiveFacts OBVIOUS
<1> DEFINE n == Len(rows)
<1>1. rows \in Seq(Row) /\ n \in Nat /\ DOMAIN rows = 1..n BY LenProperties DEF RowsInv
<1>2. \A j \in 1..n : rows[j] \in Row /\ rows[j].id \in Nat BY <1>1, ElementOfSeq, RowFields
<1>3. \A i, j \in 1..n : i < j => rows[i].id < rows[j].id BY DEF RowsInv
<1> HIDE DEF n
<1>4. PICK v : /\ v[0] = << >> /\ v[n] = Active
               /\ \A k \in Nat : k < n => v[k + 1] = Keeps(v[k], rows[k + 1])
  BY <1>1, ActiveUnfolds
<1> DEFINE Good(k) ==
      /\ v[k] \in Seq(Row) /\ Len(v[k]) \in Nat /\ Len(v[k]) <= k
      /\ \A i \in 1..Len(v[k]) : v[k][i].active /\ \E j \in 1..k : v[k][i] = rows[j]
      /\ \A i, j \in 1..Len(v[k]) : i < j => v[k][i].id < v[k][j].id
<1> DEFINE S == {k \in Nat : k <= n => Good(k)}
<1>5. 0 \in S
  <2>1. << >> \in Seq(Row) /\ Len(<< >>) = 0 BY EmptySeq
  <2>2. v[0] \in Seq(Row) /\ Len(v[0]) = 0 BY <1>4, <2>1
  <2>3. 1..Len(v[0]) = {} BY <2>2
  <2>4. Good(0) BY <2>2, <2>3
  <2> HIDE DEF Good
  <2> QED BY <2>4
<1>6. ASSUME NEW k \in Nat, k \in S PROVE k + 1 \in S
  <2> SUFFICES ASSUME k + 1 <= n PROVE Good(k + 1) OBVIOUS
  <2>1. Good(k) /\ k < n /\ k + 1 \in 1..n
    <3>1. k <= n BY <1>1
    <3>2. Good(k) BY <1>6, <3>1
    <3> HIDE DEF Good
    <3> QED BY <1>1, <3>1, <3>2
  <2> DEFINE row == rows[k + 1]
             done == v[k]
  <2>2. v[k + 1] = IF row.active THEN Append(done, row) ELSE done BY <1>4, <2>1 DEF Keeps
  <2>3. CASE ~row.active
    <3>1. v[k + 1] = v[k] BY <2>2, <2>3
    <3> QED BY <2>1, <3>1
  <2>4. CASE row.active
    <3>1. row \in Row /\ done \in Seq(Row) /\ Len(done) \in Nat BY <1>2, <2>1
    <3>2. /\ v[k + 1] \in Seq(Row) /\ Len(v[k + 1]) = Len(done) + 1
          /\ v[k + 1][Len(done) + 1] = row
          /\ \A i \in 1..Len(done) : v[k + 1][i] = done[i]
      BY <2>2, <2>4, <3>1, AppendProperties
    <3>3. \A i \in 1..Len(v[k + 1]) : i \in 1..Len(done) \/ i = Len(done) + 1 BY <3>1, <3>2
    <3>4. ASSUME NEW i \in 1..Len(v[k + 1])
          PROVE  v[k + 1][i].active /\ \E j \in 1..(k + 1) : v[k + 1][i] = rows[j]
      <4>1. CASE i = Len(done) + 1 BY <2>4, <3>2, <4>1
      <4>2. CASE i \in 1..Len(done)
        <5>1. PICK j \in 1..k : done[i] = rows[j] BY <2>1, <4>2
        <5>2. done[i].active BY <2>1, <4>2
        <5>3. j \in 1..(k + 1) OBVIOUS
        <5> QED BY <3>2, <4>2, <5>1, <5>2, <5>3
      <4> QED BY <3>3, <4>1, <4>2
    <3>5. ASSUME NEW i \in 1..Len(v[k + 1]), NEW j \in 1..Len(v[k + 1]), i < j
          PROVE  v[k + 1][i].id < v[k + 1][j].id
      <4>1. i \in 1..Len(done) BY <3>1, <3>2, <3>5
      <4>2. CASE j = Len(done) + 1
        <5>1. PICK m \in 1..k : done[i] = rows[m] BY <2>1, <4>1
        <5>2. m \in 1..n /\ m < k + 1 BY <1>1, <2>1
        <5>3. rows[m].id < rows[k + 1].id BY <1>3, <2>1, <5>2
        <5> QED BY <3>2, <4>1, <4>2, <5>1, <5>3
      <4>3. CASE j \in 1..Len(done)
        <5>1. done[i].id < done[j].id BY <2>1, <3>5, <4>1, <4>3
        <5> QED BY <3>2, <4>1, <4>3, <5>1
      <4> QED BY <3>3, <4>2, <4>3
    <3>6. Len(v[k + 1]) \in Nat /\ Len(v[k + 1]) <= k + 1
      <4>1. Len(done) <= k BY <2>1
      <4> QED BY <3>1, <3>2, <4>1
    <3> QED BY <3>2, <3>4, <3>5, <3>6
  <2> QED BY <2>3, <2>4
<1> HIDE DEF S
<1>7. n \in S BY <1>1, <1>5, <1>6, Inductive
<1>8. Good(n) BY <1>1, <1>7 DEF S
<1>9. \A i \in 1..Len(Active) : Active[i] \in Row BY <1>4, <1>8, ElementOfSeq
<1> QED BY <1>4, <1>8, <1>9 DEF ActiveFacts, n

-----------------------------------------------------------------------------
(* What a client and the server make of a row.                               *)

LEMMA ParamsAgree ==
    ASSUME NEW p \in Row, NEW s \in {"clash", "singbox", "uri"}, Exported(s, p), Agreed(p)
    PROVE  ClientParams(s, p) = ServerParams(p)
<1>1. p.name \in {"hysteria2", "shadowsocks", "shadowtls", "vless", "vmess", "trojan", "tuic", "ssh"}
  BY RowFields, NamesKnown DEF Exported
<1>2. CASE p.name = "vless"
  <2>1. {"uuid", "sni", "private_key", "public_key"} \subseteq DOMAIN p.config
    BY <1>2 DEF Agreed, Credentials
  <2>2. p.config.private_key = p.config.public_key BY <1>2 DEF Agreed
  <2>3. \A d, e : Get(p, "uuid", d) = Get(p, "uuid", e) BY <2>1 DEF Get
  <2>4. \A d, e : Get(p, "sni", d) = Get(p, "sni", e) BY <2>1 DEF Get
  <2>5. \A d : Get(p, "public_key", d) = Own(p, "public_key") BY <2>1 DEF Get
  <2>6. \A d : Get(p, "private_key", d) = Own(p, "private_key") BY <2>1 DEF Get
  <2>7. Own(p, "public_key") = Own(p, "private_key") BY <2>2 DEF Own
  <2> QED BY <1>2, <2>3, <2>4, <2>5, <2>6, <2>7 DEF ClientParams, ServerParams
<1>3. CASE p.name = "trojan" BY <1>3 DEF ClientParams, ServerParams
<1>4. CASE p.name = "vmess"
  <2>1. "uuid" \in DOMAIN p.config BY <1>4 DEF Exported
  <2>2. \A d : Get(p, "uuid", d) = Own(p, "uuid") BY <2>1 DEF Get
  <2> QED BY <1>4, <2>2 DEF ClientParams, ServerParams
<1>5. CASE p.name = "hysteria2"
  <2>1. {"password", "obfs", "obfs_password"} \subseteq DOMAIN p.config
    BY <1>5 DEF Agreed, Credentials
  <2>2. \A d, e : Get(p, "password", d) = Get(p, "password", e) BY <2>1 DEF Get
  <2>3. \A d, e : Get(p, "obfs_password", d) = Get(p, "obfs_password", e) BY <2>1 DEF Get
  <2>4. ClientObfs(s, p) = Obfs(p, NoObfs, Fresh) BY <2>1, <2>3 DEF ClientObfs, Obfs
  <2> QED BY <1>5, <2>2, <2>4 DEF ClientParams, ServerParams
<1>6. CASE p.name = "tuic"
  <2>1. {"uuid", "password"} \subseteq DOMAIN p.config BY <1>6 DEF Agreed, Credentials
  <2>2. \A d, e : Get(p, "uuid", d) = Get(p, "uuid", e) BY <2>1 DEF Get
  <2>3. \A d, e : Get(p, "password", d) = Get(p, "password", e) BY <2>1 DEF Get
  <2> QED BY <1>6, <2>2, <2>3 DEF ClientParams, ServerParams
<1>7. CASE p.name = "shadowtls"
  <2>1. "password" \in DOMAIN p.config BY <1>7 DEF Agreed, Credentials
  <2>2. \A d, e : Get(p, "password", d) = Get(p, "password", e) BY <2>1 DEF Get
  <2> QED BY <1>7, <2>2 DEF ClientParams, ServerParams
<1>8. CASE p.name = "shadowsocks"
  <2>1. "password" \in DOMAIN p.config BY <1>8 DEF Agreed, Credentials
  <2>2. \A d, e : Get(p, "password", d) = Get(p, "password", e) BY <2>1 DEF Get
  <2> QED BY <1>8, <2>2 DEF ClientParams, ServerParams
<1>9. CASE p.name = "ssh" BY <1>9 DEF ClientParams, ServerParams
<1> QED BY <1>1, <1>2, <1>3, <1>4, <1>5, <1>6, <1>7, <1>8, <1>9

\* The row an entry names is found by its id.
LEMMA RowOfId ==
    ASSUME ActiveFacts, NEW i \in 1..Len(Active)
    PROVE  (CHOOSE row \in ToSet(Active) : row.id = Active[i].id) = Active[i]
<1>1. DOMAIN Active = 1..Len(Active) BY LenProperties DEF ActiveFacts
<1>2. Active[i] \in ToSet(Active) BY <1>1 DEF ToSet
<1>3. ASSUME NEW row \in ToSet(Active), row.id = Active[i].id PROVE row = Active[i]
  <2>1. PICK j \in 1..Len(Active) : row = Active[j] BY <1>1 DEF ToSet
  <2>2. Active[i].id \in Nat /\ Active[j].id \in Nat BY RowFields DEF ActiveFacts
  <2>3. ~(i < j) /\ ~(j < i) BY <1>3, <2>1, <2>2 DEF ActiveFacts
  <2>4. i = j BY <2>3 DEF ActiveFacts
  <2> QED BY <2>1, <2>4
<1> QED BY <1>2, <1>3

\* A client that imports any format has the port, and the parameters, of the
\* listener of the row (ConfigGenerator beside the two server builders).
THEOREM ClientsCanConnect == Spec => []ClientMatchesServer
<1>1. RowsInv => ClientMatchesServer
  <2> SUFFICES ASSUME RowsInv, NEW f \in Formats, NEW e \in Export(f, Active)
               PROVE  LET p == CHOOSE row \in ToSet(Active) : row.id = e.row IN
                        /\ p.name # "wireguard" /\ e.port = p.port
                        /\ Agreed(p) => e.params = ServerParams(p)
    BY DEF ClientMatchesServer
  <2> DEFINE s == Serializer[f]
  <2>1. ActiveFacts BY ActiveIs
  <2>2. DOMAIN Active = 1..Len(Active) BY <2>1, LenProperties DEF ActiveFacts
  <2>3. s \in {"clash", "singbox", "uri"} BY DEF Serializer
  <2> HIDE DEF s
  <2>4. PICK i \in 1..Len(Active) : Exported(s, Active[i]) /\ e = Entry(s, Active[i])
    BY <2>2 DEF Export, s
  <2>5. Active[i] \in Row BY <2>1, <2>4 DEF ActiveFacts
  <2>6. /\ e.row = Active[i].id /\ e.port = Active[i].port
        /\ e.params = ClientParams(s, Active[i])
    BY <2>4 DEF Entry
  <2>7. (CHOOSE row \in ToSet(Active) : row.id = e.row) = Active[i] BY <2>1, <2>6, RowOfId
  <2>8. Active[i].name # "wireguard" BY <2>4 DEF Exported
  <2>9. Agreed(Active[i]) => e.params = ServerParams(Active[i])
    BY <2>3, <2>4, <2>5, <2>6, ParamsAgree
  <2> QED BY <2>6, <2>7, <2>8, <2>9
<1> QED BY RowsHold, <1>1, PTL

-----------------------------------------------------------------------------
(* The inbounds of a core.                                                   *)

\* Of the tags of a base, one more than there are inbounds, one is free.
LEMMA FreshTagIs ==
    ASSUME NEW X, NEW done \in Seq(X), NEW base
    PROVE  \E m \in 1..Len(done) + 1 :
             FreshTag(base, done) = <<base, m>> /\ <<base, m>> \notin Tags(done)
<1> DEFINE n == Len(done)
           Taken(m) == <<base, m>> \in Tags(done)
           free == {m \in 1..n + 1 : ~Taken(m)}
           Least(m) == ~Taken(m) /\ \A k \in 1..m - 1 : Taken(k)
<1>1. n \in Nat /\ DOMAIN done = 1..n BY LenProperties
<1> HIDE DEF n
<1>2. free # {}
  <2> SUFFICES ASSUME \A m \in 1..n + 1 : Taken(m) PROVE FALSE OBVIOUS
  <2> DEFINE at == [m \in 1..n + 1 |-> CHOOSE i \in 1..n : done[i].tag = <<base, m>>]
  <2>1. \A m \in 1..n + 1 : at[m] \in 1..n /\ done[at[m]].tag = <<base, m>> BY <1>1 DEF Tags
  <2>2. at \in [1..n + 1 -> 1..n] BY <2>1
  <2> HIDE DEF at
  <2>3. /\ IsFiniteSet(1..n + 1) /\ Cardinality(1..n + 1) = n + 1
        /\ IsFiniteSet(1..n) /\ Cardinality(1..n) = n
    BY <1>1, FS_Interval
  <2>4. PICK x \in 1..n + 1, y \in 1..n + 1 : x # y /\ at[x] = at[y]
    <3>1. Cardinality(1..n) < Cardinality(1..n + 1) BY <1>1, <2>3
    <3> QED BY <2>2, <2>3, <3>1, FS_PigeonHole
  <2>5. <<base, x>> = <<base, y>> BY <2>1, <2>4
  <2> QED BY <2>4, <2>5
<1>3. PICK m \in free : \A k \in free : m <= k
  <2>1. free \subseteq Nat BY <1>1
  <2> HIDE DEF free
  <2> QED BY <1>2, <2>1, LeastOf
<1>4. m \in 1..n + 1 /\ Least(m)
  <2>1. \A k \in 1..m - 1 : k \in 1..n + 1 /\ ~(m <= k) BY <1>1
  <2> QED BY <1>3, <2>1
<1>5. FreshTag(base, done) = <<base, CHOOSE k \in 1..n + 1 : Least(k)>> BY DEF FreshTag, n
<1> HIDE DEF Least
<1>6. (CHOOSE k \in 1..n + 1 : Least(k)) \in 1..n + 1 /\ Least(CHOOSE k \in 1..n + 1 : Least(k))
  BY <1>4
<1> QED BY <1>5, <1>6 DEF Least, n

LEMMA ConcatOne ==
    ASSUME NEW X, NEW s \in Seq(X), NEW e \in Seq(X), Len(e) = 1
    PROVE  /\ s \o e \in Seq(X) /\ Len(s \o e) = Len(s) + 1
           /\ (s \o e)[Len(s) + 1] = e[1]
           /\ \A i \in 1..Len(s) : (s \o e)[i] = s[i]
<1>1. Len(s) \in Nat BY LenProperties
<1>2. /\ s \o e \in Seq(X) /\ Len(s \o e) = Len(s) + Len(e)
      /\ \A i \in 1..Len(s) + Len(e) : (s \o e)[i] = IF i <= Len(s) THEN s[i] ELSE e[i - Len(s)]
  BY ConcatProperties
<1>3. /\ Len(s) + 1 \in 1..Len(s) + Len(e) /\ ~(Len(s) + 1 <= Len(s))
      /\ (Len(s) + 1) - Len(s) = 1
  BY <1>1
<1>4. \A i \in 1..Len(s) : i \in 1..Len(s) + Len(e) /\ i <= Len(s) BY <1>1
<1> QED BY <1>2, <1>3, <1>4

\* What one row adds to the inbounds of a core that knows its name.
AddedTo(X, done, p, tag, w) ==
    /\ w \in Seq(X) /\ Len(done) \in Nat /\ Len(w) \in Nat
    /\ Len(done) < Len(w) /\ Len(w) <= Len(done) + 2
    /\ w[Len(w)] = Inbound(p, tag)
    /\ \A i \in 1..Len(done) : w[i] = done[i]
    /\ p.name = "shadowtls" => Len(done) + 1 < Len(w) /\ w[Len(done) + 1] = Paired(p)
    /\ \A i \in 1..Len(w) : \/ i \in 1..Len(done) \/ i = Len(w)
                            \/ p.name = "shadowtls" /\ i = Len(done) + 1

LEMMA AddsIs ==
    ASSUME NEW names, NEW X, NEW done \in Seq(X), NEW p, p.name \in names,
           Inbound(p, FreshTag(BaseTag[p.name], done)) \in X,
           p.name = "shadowtls" => Paired(p) \in X
    PROVE  AddedTo(X, done, p, FreshTag(BaseTag[p.name], done), Adds(names, done, p))
<1> DEFINE tag == FreshTag(BaseTag[p.name], done)
           w == Adds(names, done, p)
<1>w. w = IF p.name \notin names THEN done
          ELSE done \o (IF p.name = "shadowtls" THEN <<Paired(p)>> ELSE << >>)
                    \o <<Inbound(p, tag)>>
  BY DEF Adds
<1>t. Inbound(p, tag) \in X OBVIOUS
<1> SUFFICES AddedTo(X, done, p, tag, w) OBVIOUS
<1> HIDE DEF tag, w
<1> DEFINE n == Len(done)
           last == <<Inbound(p, tag)>>
<1>1. n \in Nat BY LenProperties
<1>2. last \in Seq(X) /\ Len(last) = 1 /\ last[1] = Inbound(p, tag) BY <1>t
<1> HIDE DEF last
<1>3. CASE p.name # "shadowtls"
  <2>1. w = done \o << >> \o last BY <1>w, <1>3 DEF last
  <2>2. w = done \o last BY <2>1, ConcatEmptySeq
  <2>3. /\ w \in Seq(X) /\ Len(w) = n + 1 /\ w[n + 1] = last[1]
        /\ \A i \in 1..n : w[i] = done[i]
    BY <1>2, <2>2, ConcatOne
  <2>6. \A i \in 1..Len(w) : i \in 1..n \/ i = Len(w) BY <1>1, <2>3
  <2> QED BY <1>1, <1>2, <1>3, <2>3, <2>6 DEF AddedTo
<1>4. CASE p.name = "shadowtls"
  <2> DEFINE middle == <<Paired(p)>>
             mid == done \o middle
  <2>1. middle \in Seq(X) /\ Len(middle) = 1 /\ middle[1] = Paired(p) BY <1>4
  <2> HIDE DEF middle
  <2>2. w = mid \o last BY <1>w, <1>4 DEF last, middle
  <2>3. /\ mid \in Seq(X) /\ Len(mid) = n + 1 /\ mid[n + 1] = middle[1]
        /\ \A i \in 1..n : mid[i] = done[i]
    BY <2>1, ConcatOne
  <2> HIDE DEF mid
  <2>4. /\ w \in Seq(X) /\ Len(w) = (n + 1) + 1 /\ w[(n + 1) + 1] = last[1]
        /\ \A i \in 1..n + 1 : w[i] = mid[i]
    BY <1>2, <2>2, <2>3, ConcatOne
  <2>5. w[n + 2] = last[1] BY <1>1, <2>4
  <2>6. w[n + 1] = middle[1] BY <1>1, <2>3, <2>4
  <2>7. \A i \in 1..n : w[i] = done[i] BY <1>1, <2>3, <2>4
  <2>8. Len(w) = n + 2 BY <1>1, <2>4
  <2>9. \A i \in 1..Len(w) : i \in 1..n \/ i = Len(w) \/ i = n + 1 BY <1>1, <2>8
  <2> QED BY <1>1, <1>2, <1>4, <2>1, <2>4, <2>5, <2>6, <2>7, <2>8, <2>9 DEF AddedTo
<1> QED BY <1>3, <1>4

\* The inbounds the first k rows can have.
Publics(names, seq, k) ==
    {Inbound(seq[j], <<BaseTag[seq[j].name], m>>) : j \in {j \in 1..k : seq[j].name \in names}, m \in Nat}
Locals(names, seq, k) ==
    {Paired(seq[j]) : j \in {j \in 1..k : seq[j].name \in names /\ seq[j].name = "shadowtls"}}
OneTls(seq, k) ==
    \A i, j \in 1..k : seq[i].name = "shadowtls" /\ seq[j].name = "shadowtls" => i = j

\* What holds of the inbounds of the first k rows of seq.
Listening(names, seq, k, w) ==
    /\ w \in Seq(Publics(names, seq, k) \union Locals(names, seq, k))
    /\ Len(w) \in Nat /\ Len(w) <= 2 * k
    /\ \A j \in 1..k : seq[j].name \in names =>
         \E i \in 1..Len(w) : w[i].listen = "public" /\ w[i].row = seq[j].id
    /\ \A i, j \in 1..Len(w) :
         w[i].listen = "public" /\ w[j].listen = "public" /\ w[i].row = w[j].row => i = j
Resolving(seq, k, w) == OneTls(seq, k) =>
    /\ \A i, j \in 1..Len(w) : w[i].tag = w[j].tag => i = j
    /\ \A i \in 1..Len(w) : w[i].detour \subseteq Tags(w)

\* Rows with ascending ids.
Ascending(seq, n) == /\ seq \in Seq(Row) /\ n = Len(seq) /\ n \in Nat
                     /\ \A i \in 1..n : seq[i] \in Row
                     /\ \A i, j \in 1..n : i < j => seq[i].id < seq[j].id

LEMMA BaseTagIs ==
    \A name \in Supported : BaseTag[name] # "ss-behind-shadowtls" /\ BaseTag[name] # "api-in"
<1> SUFFICES ASSUME NEW name \in Supported
             PROVE  BaseTag[name] # "ss-behind-shadowtls" /\ BaseTag[name] # "api-in"
  OBVIOUS
<1>1. CASE name \in {"vless", "vlessreality", "trojan"} BY <1>1 DEF BaseTag
<1>2. CASE name \in {"vmess", "hysteria2", "tuic"} BY <1>2 DEF BaseTag
<1>3. CASE name \in {"shadowtls", "shadowsocks", "wireguard"} BY <1>3 DEF BaseTag
<1> QED BY <1>1, <1>2, <1>3 DEF Supported, XrayNames, SingboxNames

LEMMA PossibleInbounds ==
    ASSUME NEW names \in SUBSET Supported, NEW seq, NEW n, Ascending(seq, n), NEW k \in 0..n,
           NEW x \in Publics(names, seq, k) \union Locals(names, seq, k)
    PROVE  \E j \in 1..k : /\ seq[j].name \in names /\ x.row = seq[j].id
                           /\ \/ /\ x.listen = "public" /\ x.port = seq[j].port
                                 /\ x.detour \subseteq {PairedTag} /\ x.tag # PairedTag
                              \/ /\ x.listen = "local" /\ x.tag = PairedTag /\ x.detour = {}
                                 /\ seq[j].name = "shadowtls"
<1>1. CASE x \in Publics(names, seq, k)
  <2>1. PICK j \in 1..k, m \in Nat :
          seq[j].name \in names /\ x = Inbound(seq[j], <<BaseTag[seq[j].name], m>>)
    BY <1>1 DEF Publics
  <2>2. x.row = seq[j].id /\ x.listen = "public" /\ x.port = seq[j].port BY <2>1 DEF Inbound
  <2>3. x.detour \subseteq {PairedTag} BY <2>1 DEF Inbound
  <2>4. x.tag # PairedTag
    <3>1. BaseTag[seq[j].name] # "ss-behind-shadowtls"
      BY <2>1, BaseTagIs
    <3>2. x.tag = <<BaseTag[seq[j].name], m>> BY <2>1 DEF Inbound
    <3> QED BY <3>1, <3>2 DEF PairedTag
  <2> QED BY <2>1, <2>2, <2>3, <2>4
<1>2. CASE x \in Locals(names, seq, k)
  <2>1. PICK j \in 1..k : /\ seq[j].name \in names /\ seq[j].name = "shadowtls"
                          /\ x = Paired(seq[j])
    BY <1>2 DEF Locals
  <2>2. x.row = seq[j].id /\ x.listen = "local" /\ x.tag = PairedTag /\ x.detour = {}
    BY <2>1 DEF Paired
  <2> QED BY <2>1, <2>2
<1> QED BY <1>1, <1>2

LEMMA RowOfInbound ==
    ASSUME NEW names \in SUBSET Supported, NEW seq, NEW n, Ascending(seq, n), NEW k \in 0..n,
           NEW x \in Publics(names, seq, k) \union Locals(names, seq, k)
    PROVE  \E j \in 1..k : x.row = seq[j].id /\ (x.tag # PairedTag \/ seq[j].name = "shadowtls")
<1>1. PICK j \in 1..k : /\ seq[j].name \in names /\ x.row = seq[j].id
                        /\ \/ /\ x.listen = "public" /\ x.port = seq[j].port
                              /\ x.detour \subseteq {PairedTag} /\ x.tag # PairedTag
                           \/ /\ x.listen = "local" /\ x.tag = PairedTag /\ x.detour = {}
                              /\ seq[j].name = "shadowtls"
  BY PossibleInbounds
<1> QED BY <1>1

ListensFor(names, seq, k, x) ==
    \E j \in 1..k : seq[j].name \in names /\ x.row = seq[j].id /\ x.port = seq[j].port

LEMMA RowOfPublic ==
    ASSUME NEW names \in SUBSET Supported, NEW seq, NEW n, Ascending(seq, n), NEW k \in 0..n,
           NEW x \in Publics(names, seq, k) \union Locals(names, seq, k), x.listen = "public"
    PROVE  ListensFor(names, seq, k, x)
<1>1. PICK j \in 1..k : /\ seq[j].name \in names /\ x.row = seq[j].id
                        /\ \/ /\ x.listen = "public" /\ x.port = seq[j].port
                              /\ x.detour \subseteq {PairedTag} /\ x.tag # PairedTag
                           \/ /\ x.listen = "local" /\ x.tag = PairedTag /\ x.detour = {}
                              /\ seq[j].name = "shadowtls"
  BY PossibleInbounds
<1> QED BY <1>1 DEF ListensFor

LEMMA MoreRows ==
    ASSUME NEW names, NEW seq, NEW k \in Nat
    PROVE  Publics(names, seq, k) \union Locals(names, seq, k)
             \subseteq Publics(names, seq, k + 1) \union Locals(names, seq, k + 1)
<1>1. 1..k \subseteq 1..k + 1 OBVIOUS
<1>2. ASSUME NEW x \in Publics(names, seq, k) PROVE x \in Publics(names, seq, k + 1)
  <2>1. PICK j \in {j \in 1..k : seq[j].name \in names}, m \in Nat :
          x = Inbound(seq[j], <<BaseTag[seq[j].name], m>>)
    BY SMTT(30), <1>2 DEF Publics
  <2>2. j \in {i \in 1..k + 1 : seq[i].name \in names} BY <1>1
  <2> QED BY <2>1, <2>2 DEF Publics
<1>3. ASSUME NEW x \in Locals(names, seq, k) PROVE x \in Locals(names, seq, k + 1)
  BY <1>1, <1>3 DEF Locals
<1> QED BY <1>2, <1>3

\* A row whose name the core does not know adds nothing.
LEMMA SkipKeeps ==
    ASSUME NEW names \in SUBSET Supported, NEW seq, NEW n, Ascending(seq, n),
           NEW k \in Nat, k < n, seq[k + 1].name \notin names, NEW w,
           Listening(names, seq, k, w), Resolving(seq, k, w)
    PROVE  Listening(names, seq, k + 1, w) /\ Resolving(seq, k + 1, w)
<1> DEFINE X(m) == Publics(names, seq, m) \union Locals(names, seq, m)
<1>1. 1..k \subseteq 1..k + 1 OBVIOUS
<1>2. X(k) \subseteq X(k + 1) BY MoreRows
<1>3. w \in Seq(X(k + 1)) BY <1>2, SeqMonotonic DEF Listening
<1>4. \A j \in 1..k + 1 : seq[j].name \in names => j \in 1..k OBVIOUS
<1>5. OneTls(seq, k + 1) => OneTls(seq, k) BY <1>1 DEF OneTls
<1>6. Len(w) \in Nat /\ Len(w) <= 2 * (k + 1) BY DEF Listening
<1>7. Listening(names, seq, k + 1, w) BY <1>3, <1>4, <1>6 DEF Listening
<1> QED BY <1>5, <1>7 DEF Resolving

\* A row the core knows adds its listener, and what is local to it.
LEMMA AddKeeps ==
    ASSUME NEW names \in SUBSET Supported, NEW seq, NEW n, Ascending(seq, n),
           NEW k \in Nat, k < n, seq[k + 1].name \in names, NEW done,
           Listening(names, seq, k, done), Resolving(seq, k, done),
           NEW w, w = Adds(names, done, seq[k + 1])
    PROVE  Listening(names, seq, k + 1, w) /\ Resolving(seq, k + 1, w)
<1> DEFINE p == seq[k + 1]
           base == BaseTag[p.name]
           tag == FreshTag(base, done)
           X(m) == Publics(names, seq, m) \union Locals(names, seq, m)
           old == 1..Len(done)
           last == Len(w)
<1>1. n \in Nat /\ k + 1 \in 1..n /\ p \in Row /\ p.id \in Nat
  <2>1. n \in Nat /\ k + 1 \in 1..n BY DEF Ascending
  <2> QED BY <2>1, RowFields DEF Ascending
<1>2. done \in Seq(X(k)) /\ Len(done) \in Nat /\ Len(done) <= 2 * k /\ DOMAIN done = old
  BY LenProperties DEF Listening
<1>3. done \in Seq(X(k + 1)) BY <1>2, MoreRows, SeqMonotonic
<1>4. PICK m \in Nat : tag = <<base, m>> /\ tag \notin Tags(done)
  <2>1. PICK m \in 1..Len(done) + 1 : tag = <<base, m>> /\ <<base, m>> \notin Tags(done)
    BY <1>2, FreshTagIs
  <2> QED BY <1>2, <2>1
<1>5. Inbound(p, tag) \in X(k + 1)
  <2>1. k + 1 \in {j \in 1..k + 1 : seq[j].name \in names} OBVIOUS
  <2> QED BY <1>4, <2>1 DEF Publics
<1>6. p.name = "shadowtls" => Paired(p) \in X(k + 1)
  <2>1. p.name = "shadowtls" =>
          k + 1 \in {j \in 1..k + 1 : seq[j].name \in names /\ seq[j].name = "shadowtls"}
    OBVIOUS
  <2> QED BY <2>1 DEF Locals
<1>0. X(k) = Publics(names, seq, k) \union Locals(names, seq, k) OBVIOUS
<1> HIDE DEF X, tag
<1>7. /\ w \in Seq(X(k + 1)) /\ last \in Nat
      /\ Len(done) < last /\ last <= Len(done) + 2
      /\ w[last] = Inbound(p, tag)
      /\ \A i \in old : w[i] = done[i]
      /\ p.name = "shadowtls" => Len(done) + 1 < last /\ w[Len(done) + 1] = Paired(p)
      /\ \A i \in 1..last : \/ i \in old \/ i = last
                            \/ p.name = "shadowtls" /\ i = Len(done) + 1
  <2>1. AddedTo(X(k + 1), done, p, tag, w) BY <1>3, <1>5, <1>6, AddsIs DEF tag
  <2> QED BY <2>1 DEF AddedTo
<1>8. /\ Inbound(p, tag).listen = "public" /\ Inbound(p, tag).row = p.id
      /\ Inbound(p, tag).tag = tag
      /\ Inbound(p, tag).detour = IF p.name = "shadowtls" THEN {PairedTag} ELSE {}
      /\ Paired(p).listen = "local" /\ Paired(p).tag = PairedTag /\ Paired(p).detour = {}
  BY DEF Inbound, Paired
<1>9. ASSUME NEW i \in old
      PROVE  \E j \in 1..k : /\ done[i].row = seq[j].id /\ done[i].row # p.id
                             /\ done[i].tag = PairedTag => seq[j].name = "shadowtls"
  <2>1. done[i] \in X(k) BY <1>2, ElementOfSeq
  <2>2. k \in 0..n BY <1>1
  <2>3. PICK j \in 1..k : /\ done[i].row = seq[j].id
                          /\ done[i].tag # PairedTag \/ seq[j].name = "shadowtls"
    BY SMTT(20), <1>0, <2>1, <2>2, RowOfInbound
  <2>4. j \in 1..n /\ j < k + 1 BY <1>1
  <2>5. seq[j].id < p.id BY <1>1, <2>4 DEF Ascending
  <2>6. seq[j].id \in Nat BY <2>4, RowFields DEF Ascending
  <2> QED BY <1>1, <2>3, <2>5, <2>6
<1>10. ASSUME NEW j \in 1..k + 1, seq[j].name \in names
       PROVE  \E i \in 1..last : w[i].listen = "public" /\ w[i].row = seq[j].id
  <2>1. CASE j = k + 1
    <3>1. last \in 1..last BY <1>2, <1>7
    <3> QED BY <1>7, <1>8, <2>1, <3>1
  <2>2. CASE j \in 1..k
    <3>1. PICK i \in old : done[i].listen = "public" /\ done[i].row = seq[j].id
      BY <1>10, <2>2 DEF Listening
    <3>2. i \in 1..last BY <1>2, <1>7
    <3> QED BY <1>7, <3>1, <3>2
  <2> QED BY <2>1, <2>2
<1>11. ASSUME NEW i \in 1..last, NEW j \in 1..last,
              w[i].listen = "public", w[j].listen = "public", w[i].row = w[j].row
       PROVE  i = j
  <2>1. \A h \in {i, j} : h \in old \/ h = last
    BY <1>7, <1>8, <1>11
  <2>2. w[last].row = p.id BY <1>7, <1>8
  <2>3. \A h \in old : w[h].row # p.id BY <1>7, <1>9
  <2>4. CASE i \in old /\ j \in old
    <3>1. w[i] = done[i] /\ w[j] = done[j] BY <1>7, <2>4
    <3> QED BY <1>11, <2>4, <3>1 DEF Listening
  <2>5. CASE i = last \/ j = last BY <1>11, <2>1, <2>2, <2>3, <2>5
  <2> QED BY <2>1, <2>4, <2>5
<1>12. Listening(names, seq, k + 1, w)
  <2>1. last <= 2 * (k + 1) BY <1>2, <1>7
  <2> QED BY <1>7, <1>10, <1>11, <2>1 DEF Listening, X
<1>13. DOMAIN w = 1..last BY <1>7, LenProperties
<1>14. tag # PairedTag
  <2>1. base # "ss-behind-shadowtls" BY BaseTagIs
  <2> QED BY <1>4, <2>1 DEF PairedTag
<1>15. ASSUME OneTls(seq, k + 1), p.name = "shadowtls"
       PROVE  \A i \in old : done[i].tag # PairedTag
  <2> SUFFICES ASSUME NEW i \in old, done[i].tag = PairedTag PROVE FALSE OBVIOUS
  <2>1. PICK j \in 1..k : seq[j].name = "shadowtls" BY <1>9
  <2>2. j \in 1..k + 1 /\ k + 1 \in 1..k + 1 /\ j # k + 1 OBVIOUS
  <2> QED BY <1>15, <2>1, <2>2 DEF OneTls
<1>16. ASSUME OneTls(seq, k + 1), NEW i \in 1..last, NEW j \in 1..last, w[i].tag = w[j].tag
       PROVE  i = j
  <2>1. OneTls(seq, k) BY <1>16 DEF OneTls
  <2>2. \A h \in old : w[h].tag = done[h].tag /\ w[h].tag # tag
    BY <1>2, <1>4, <1>7 DEF Tags
  <2>3. w[last].tag = tag BY <1>7, <1>8
  <2>4. p.name = "shadowtls" => w[Len(done) + 1].tag = PairedTag BY <1>7, <1>8
  <2>5. p.name = "shadowtls" => \A h \in old : w[h].tag # PairedTag BY <1>15, <1>16, <2>2
  <2>6. \A h \in {i, j} : \/ h \in old \/ h = last
                          \/ p.name = "shadowtls" /\ h = Len(done) + 1
    BY <1>7
  <2>7. CASE i \in old /\ j \in old BY <1>16, <2>1, <2>2, <2>7 DEF Resolving
  <2>8. CASE i = last \/ j = last BY <1>14, <1>16, <2>2, <2>3, <2>4, <2>6, <2>8
  <2>9. CASE p.name = "shadowtls" /\ (i = Len(done) + 1 \/ j = Len(done) + 1)
    BY <1>14, <1>16, <2>3, <2>4, <2>5, <2>6, <2>9
  <2> QED BY <2>6, <2>7, <2>8, <2>9
<1>17. Tags(done) \subseteq Tags(w)
  <2>1. \A i \in old : i \in 1..last /\ w[i].tag = done[i].tag BY <1>2, <1>7
  <2> QED BY <1>2, <1>13, <2>1 DEF Tags
<1>18. ASSUME OneTls(seq, k + 1), NEW i \in 1..last
       PROVE  w[i].detour \subseteq Tags(w)
  <2>1. CASE i \in old
    <3>1. OneTls(seq, k) BY <1>18 DEF OneTls
    <3>2. w[i].detour = done[i].detour BY <1>7, <2>1
    <3> QED BY <1>17, <2>1, <3>1, <3>2 DEF Resolving
  <2>2. CASE p.name = "shadowtls" /\ i = Len(done) + 1
    BY <1>7, <1>8, <2>2
  <2>3. CASE i = last /\ p.name = "shadowtls"
    <3>1. Len(done) + 1 \in 1..last BY <1>2, <1>7, <2>3
    <3>2. w[Len(done) + 1].tag = PairedTag BY <1>7, <1>8, <2>3
    <3>3. PairedTag \in Tags(w) BY <1>13, <3>1, <3>2 DEF Tags
    <3> QED BY <1>7, <1>8, <2>3, <3>3
  <2>4. CASE i = last /\ p.name # "shadowtls"
    BY <1>7, <1>8, <2>4
  <2> QED BY <1>7, <2>1, <2>2, <2>3, <2>4
<1> QED BY <1>12, <1>16, <1>18 DEF Resolving

LEMMA InboundsAre ==
    ASSUME NEW names \in SUBSET Supported, names # {}, NEW seq, NEW n, Ascending(seq, n)
    PROVE  /\ Listening(names, seq, n, Inbounds(names, seq))
           /\ Resolving(seq, n, Inbounds(names, seq))
<1>1. n \in Nat /\ DOMAIN seq = 1..n BY LenProperties DEF Ascending
<1> PICK v : Adding(names, seq, n, v) BY <1>1, InboundsUnfold
<1>2. /\ v[0] = << >> /\ v[n] = Inbounds(names, seq)
      /\ \A k \in Nat : k < n => v[k + 1] = Adds(names, v[k], seq[k + 1])
  BY DEF Adding
<1> DEFINE Good(k) == Listening(names, seq, k, v[k]) /\ Resolving(seq, k, v[k])
           S == {k \in Nat : k <= n => Good(k)}
<1>3. 0 \in S
  <2> DEFINE X == Publics(names, seq, 0) \union Locals(names, seq, 0)
  <2>1. << >> \in Seq(X) /\ Len(<< >>) = 0 BY EmptySeq
  <2> HIDE DEF X
  <2>2. v[0] \in Seq(X) /\ Len(v[0]) = 0 BY <1>2, <2>1
  <2>3. 1..Len(v[0]) = {} /\ 1..0 = {} BY <2>2
  <2>4. Listening(names, seq, 0, v[0]) BY <2>2, <2>3 DEF Listening, X
  <2>5. Resolving(seq, 0, v[0]) BY <2>3 DEF Resolving
  <2> QED BY <2>4, <2>5
<1>4. ASSUME NEW k \in Nat, k \in S PROVE k + 1 \in S
  <2> SUFFICES ASSUME k + 1 <= n PROVE Good(k + 1) OBVIOUS
  <2>1. k < n BY <1>1
  <2>2. Good(k) BY <1>1, <1>4, <2>1
  <2>3. v[k + 1] = Adds(names, v[k], seq[k + 1]) BY <1>2, <2>1
  <2>4. CASE seq[k + 1].name \notin names
    <3>1. v[k + 1] = v[k] BY <2>3, <2>4 DEF Adds
    <3> QED BY <2>1, <2>2, <2>4, <3>1, SkipKeeps
  <2>5. CASE seq[k + 1].name \in names BY <2>1, <2>2, <2>3, <2>5, AddKeeps
  <2> QED BY <2>4, <2>5
<1> HIDE DEF S
<1>5. n \in S BY <1>1, <1>3, <1>4, Inductive
<1> QED BY <1>1, <1>2, <1>5 DEF S

-----------------------------------------------------------------------------
(* The cores.                                                                *)

Serves(names, core) ==
    /\ DOMAIN core = 1..Len(core) /\ Len(core) \in Nat /\ Len(core) <= 2 * Len(rows) + 1
    /\ \A i \in 1..Len(core) : core[i].listen = "public" =>
         \E j \in 1..Len(Active) : /\ Active[j].name \in names
                                   /\ core[i].row = Active[j].id /\ core[i].port = Active[j].port
    /\ \A j \in 1..Len(Active) : Active[j].name \in names =>
         \E i \in 1..Len(core) : core[i].listen = "public" /\ core[i].row = Active[j].id
    /\ \A i, j \in 1..Len(core) :
         core[i].listen = "public" /\ core[j].listen = "public" /\ core[i].row = core[j].row => i = j
Resolves(core) == OneTls(Active, Len(Active)) =>
    /\ \A i, j \in 1..Len(core) : core[i].tag = core[j].tag => i = j
    /\ \A i \in 1..Len(core) : core[i].detour \subseteq Tags(core)

\* The inbounds of rows, as Serves needs them.
LEMMA InboundsServe ==
    ASSUME RowsInv, NEW names \in SUBSET Supported, names # {}, NEW w, w = Inbounds(names, Active)
    PROVE  /\ Serves(names, w) /\ Resolves(w) /\ Len(w) <= 2 * Len(rows)
           /\ \A i \in 1..Len(w) : w[i].tag # <<"api-in", 1>>
           /\ \E X : w \in Seq(X)
<1> DEFINE n == Len(Active)
           X == Publics(names, Active, n) \union Locals(names, Active, n)
<1>1. ActiveFacts BY ActiveIs
<1>2. Ascending(Active, n) /\ n \in Nat /\ n <= Len(rows) BY <1>1 DEF ActiveFacts, Ascending
<1>3. Listening(names, Active, n, w) /\ Resolving(Active, n, w) BY <1>2, InboundsAre
<1>4. Len(rows) \in Nat BY LenProperties DEF RowsInv
<1> HIDE DEF n
<1>5. w \in Seq(X) /\ Len(w) \in Nat /\ Len(w) <= 2 * n /\ DOMAIN w = 1..Len(w)
  BY <1>3, LenProperties DEF Listening
<1>6. \A i \in 1..Len(w) : w[i] \in X BY <1>5, ElementOfSeq
<1> HIDE DEF X
<1>7. n \in 0..n BY <1>2
<1>8. ASSUME NEW i \in 1..Len(w), w[i].listen = "public"
      PROVE  \E j \in 1..n : /\ Active[j].name \in names
                             /\ w[i].row = Active[j].id /\ w[i].port = Active[j].port
  <2>1. w[i] \in Publics(names, Active, n) \union Locals(names, Active, n) BY <1>6 DEF X
  <2>2. ListensFor(names, Active, n, w[i]) BY <1>2, <1>7, <1>8, <2>1, RowOfPublic
  <2> QED BY <2>2 DEF ListensFor
<1>9. ASSUME NEW i \in 1..Len(w) PROVE w[i].tag # <<"api-in", 1>>
  <2>1. CASE w[i] \in Publics(names, Active, n)
    <3>1. PICK j \in {j \in 1..n : Active[j].name \in names}, m \in Nat :
            w[i] = Inbound(Active[j], <<BaseTag[Active[j].name], m>>)
      BY <2>1 DEF Publics
    <3>2. w[i].tag = <<BaseTag[Active[j].name], m>> BY <3>1 DEF Inbound
    <3>3. BaseTag[Active[j].name] # "api-in" BY BaseTagIs
    <3> QED BY <3>2, <3>3
  <2>2. CASE w[i] \in Locals(names, Active, n)
    <3>1. PICK j \in 1..n : w[i] = Paired(Active[j]) BY <2>2 DEF Locals
    <3> QED BY <3>1 DEF Paired, PairedTag
  <2> QED BY <1>6, <2>1, <2>2 DEF X
<1>10. Len(w) <= 2 * Len(rows) BY <1>2, <1>4, <1>5
<1>11. Serves(names, w)
  <2>1. Len(w) <= 2 * Len(rows) + 1 BY <1>4, <1>5, <1>10
  <2>2. \A j \in 1..n : Active[j].name \in names =>
          \E i \in 1..Len(w) : w[i].listen = "public" /\ w[i].row = Active[j].id
    BY <1>3 DEF Listening
  <2>3. \A i, j \in 1..Len(w) :
          w[i].listen = "public" /\ w[j].listen = "public" /\ w[i].row = w[j].row => i = j
    BY <1>3 DEF Listening
  <2> QED BY <1>5, <1>8, <2>1, <2>2, <2>3 DEF Serves, n
<1>12. Resolves(w) BY <1>3 DEF Resolving, Resolves, n
<1> QED BY <1>5, <1>9, <1>10, <1>11, <1>12

LEMMA SingboxServes == RowsInv => Serves(SingboxNames, Singbox(Active)) /\ Resolves(Singbox(Active))
<1>1. SingboxNames \in SUBSET Supported /\ SingboxNames # {} BY DEF Supported, SingboxNames
<1> QED BY <1>1, InboundsServe DEF Singbox

\* The inbound of the statistics service goes before those of the rows.
LEMMA XrayServes == RowsInv => Serves(XrayNames, Xray(Active)) /\ Resolves(Xray(Active))
<1> SUFFICES ASSUME RowsInv PROVE Serves(XrayNames, Xray(Active)) /\ Resolves(Xray(Active)) OBVIOUS
<1> DEFINE w == Inbounds(XrayNames, Active)
           core == Xray(Active)
           n == Len(w)
           api == <<ApiInbound>>
<1>1. XrayNames \in SUBSET Supported /\ XrayNames # {} BY DEF Supported, XrayNames
<1>2. /\ Serves(XrayNames, w) /\ Resolves(w) /\ n <= 2 * Len(rows)
      /\ \A i \in 1..n : w[i].tag # <<"api-in", 1>>
      /\ \E X : w \in Seq(X)
  BY <1>1, InboundsServe
<1>3. core = api \o w BY DEF Xray
<1> HIDE DEF w, core
<1>4. PICK X : w \in Seq(X) BY <1>2
<1> DEFINE Y == X \union {ApiInbound}
<1>5. w \in Seq(Y) BY <1>4, SeqMonotonic
<1>6. api \in Seq(Y) /\ Len(api) = 1 /\ api[1] = ApiInbound OBVIOUS
<1> HIDE DEF Y, api
<1>7. n \in Nat /\ Len(rows) \in Nat BY <1>5, LenProperties DEF RowsInv
<1>8. /\ core \in Seq(Y) /\ Len(core) = n + 1 /\ core[1] = ApiInbound
      /\ \A i \in 1..n : core[i + 1] = w[i]
  <2>1. /\ api \o w \in Seq(Y) /\ Len(api \o w) = Len(api) + n
        /\ \A i \in 1..Len(api) + n : (api \o w)[i] = IF i <= Len(api) THEN api[i] ELSE w[i - Len(api)]
    BY <1>5, <1>6, ConcatProperties
  <2>2. core[1] = ApiInbound
    <3>1. 1 \in 1..Len(api) + n /\ 1 <= Len(api) BY <1>6, <1>7
    <3> QED BY <1>3, <1>6, <2>1, <3>1
  <2>3. ASSUME NEW i \in 1..n PROVE core[i + 1] = w[i]
    <3>1. i + 1 \in 1..Len(api) + n /\ ~(i + 1 <= Len(api)) /\ (i + 1) - Len(api) = i BY <1>6, <1>7
    <3> QED BY <1>3, <2>1, <3>1
  <2>4. Len(api) + n = n + 1 BY <1>6, <1>7
  <2> QED BY <1>3, <2>1, <2>2, <2>3, <2>4
<1>9. DOMAIN core = 1..n + 1 BY <1>7, <1>8, LenProperties
<1>10. \A i \in 1..n + 1 : i = 1 \/ (i - 1 \in 1..n /\ core[i] = w[i - 1])
  <2> SUFFICES ASSUME NEW i \in 1..n + 1, i # 1 PROVE i - 1 \in 1..n /\ core[i] = w[i - 1] OBVIOUS
  <2>1. i - 1 \in 1..n /\ (i - 1) + 1 = i BY <1>7
  <2> QED BY <1>8, <2>1
<1>11. /\ core[1].listen = "local" /\ core[1].tag = <<"api-in", 1>> /\ core[1].detour = {}
  BY <1>8 DEF ApiInbound
<1>12. \A i \in 1..n : i + 1 \in 1..n + 1 BY <1>7
<1>13. Serves(XrayNames, core)
  <2>1. n + 1 \in Nat /\ n + 1 <= 2 * Len(rows) + 1 BY <1>2, <1>7
  <2>2. ASSUME NEW i \in 1..n + 1, core[i].listen = "public"
        PROVE  \E j \in 1..Len(Active) : /\ Active[j].name \in XrayNames
                 /\ core[i].row = Active[j].id /\ core[i].port = Active[j].port
    <3>1. i - 1 \in 1..n /\ core[i] = w[i - 1] BY <1>10, <1>11, <2>2
    <3> QED BY <1>2, <2>2, <3>1 DEF Serves
  <2>3. ASSUME NEW j \in 1..Len(Active), Active[j].name \in XrayNames
        PROVE  \E i \in 1..n + 1 : core[i].listen = "public" /\ core[i].row = Active[j].id
    <3>1. PICK i \in 1..n : w[i].listen = "public" /\ w[i].row = Active[j].id
      BY <1>2, <2>3 DEF Serves
    <3> QED BY <1>8, <1>12, <3>1
  <2>4. ASSUME NEW i \in 1..n + 1, NEW j \in 1..n + 1, core[i].listen = "public",
               core[j].listen = "public", core[i].row = core[j].row
        PROVE  i = j
    <3>1. i - 1 \in 1..n /\ core[i] = w[i - 1] BY <1>10, <1>11, <2>4
    <3>2. j - 1 \in 1..n /\ core[j] = w[j - 1] BY <1>10, <1>11, <2>4
    <3>3. i - 1 = j - 1 BY <1>2, <2>4, <3>1, <3>2 DEF Serves
    <3> QED BY <1>7, <3>3
  <2> QED BY <1>8, <1>9, <2>1, <2>2, <2>3, <2>4 DEF Serves
<1>14. Tags(w) \subseteq Tags(core)
  <2>1. DOMAIN w = 1..n BY <1>2 DEF Serves
  <2>2. \A i \in 1..n : i + 1 \in DOMAIN core /\ core[i + 1].tag = w[i].tag BY <1>8, <1>9, <1>12
  <2> QED BY <2>1, <2>2 DEF Tags
<1>15. Resolves(core)
  <2> SUFFICES ASSUME OneTls(Active, Len(Active))
               PROVE  /\ \A i, j \in 1..n + 1 : core[i].tag = core[j].tag => i = j
                      /\ \A i \in 1..n + 1 : core[i].detour \subseteq Tags(core)
    BY <1>8 DEF Resolves
  <2>1. /\ \A i, j \in 1..n : w[i].tag = w[j].tag => i = j
        /\ \A i \in 1..n : w[i].detour \subseteq Tags(w)
    BY <1>2 DEF Resolves
  <2>2. ASSUME NEW i \in 1..n + 1, NEW j \in 1..n + 1, core[i].tag = core[j].tag PROVE i = j
    <3>1. CASE i = 1 \/ j = 1 BY <1>2, <1>10, <1>11, <2>2, <3>1
    <3>2. CASE i # 1 /\ j # 1
      <4>1. i - 1 \in 1..n /\ core[i] = w[i - 1] /\ j - 1 \in 1..n /\ core[j] = w[j - 1]
        BY <1>10, <3>2
      <4>2. i - 1 = j - 1 BY <2>1, <2>2, <4>1
      <4> QED BY <1>7, <4>2
    <3> QED BY <3>1, <3>2
  <2>3. ASSUME NEW i \in 1..n + 1 PROVE core[i].detour \subseteq Tags(core)
    BY <1>10, <1>11, <1>14, <2>1
  <2> QED BY <2>2, <2>3
<1> QED BY <1>13, <1>15 DEF core

-----------------------------------------------------------------------------
(* The promises of the rows.                                                 *)

\* A row that a core knows has its listener in that core alone.
LEMMA OneListener ==
    ASSUME RowsInv, ActiveFacts, NEW k \in 1..Len(Active), Active[k].name \in Supported,
           NEW core, NEW names, NEW other, NEW others,
           Cores = {core, other}, Serves(names, core), Serves(others, other),
           Active[k].name \in names, Active[k].name \notin others
    PROVE  LET p == Active[k] IN
             /\ Cardinality(Listeners(p)) = 1
             /\ \A x \in Listeners(p) : x[1][x[2]].port = p.port
<1> DEFINE p == Active[k]
<1>1. PICK i \in 1..Len(core) : core[i].listen = "public" /\ core[i].row = p.id BY DEF Serves
<1>2. ASSUME NEW j \in 1..Len(Active), Active[j].id = p.id PROVE j = k
  <2>1. Active[j].id \in Nat /\ p.id \in Nat BY RowFields DEF ActiveFacts
  <2>2. ~(j < k) /\ ~(k < j) BY <1>2, <2>1 DEF ActiveFacts
  <2> QED BY <2>2 DEF ActiveFacts
<1>3. ASSUME NEW c \in Cores, NEW m \in DOMAIN c, c[m].listen = "public", c[m].row = p.id
      PROVE  c = core /\ m = i /\ c[m].port = p.port
  <2>1. ASSUME c = other, c # core PROVE FALSE
    <3>1. PICK j \in 1..Len(Active) : Active[j].name \in others /\ c[m].row = Active[j].id
      BY <1>3, <2>1 DEF Serves
    <3> QED BY <1>2, <1>3, <3>1
  <2>2. c = core BY <2>1
  <2>3. m \in 1..Len(core) BY <2>2 DEF Serves
  <2>4. m = i BY <1>1, <1>3, <2>2, <2>3 DEF Serves
  <2>5. PICK j \in 1..Len(Active) : c[m].row = Active[j].id /\ c[m].port = Active[j].port
    BY <1>3, <2>2, <2>3 DEF Serves
  <2> QED BY <1>2, <1>3, <2>2, <2>4, <2>5
<1>4. i \in 1..2 * Len(rows) + 1 /\ i \in DOMAIN core
  <2>1. Len(core) <= 2 * Len(rows) + 1 /\ Len(core) \in Nat /\ DOMAIN core = 1..Len(core)
    BY DEF Serves
  <2>2. Len(rows) \in Nat BY LenProperties DEF RowsInv
  <2> QED BY <2>1, <2>2
<1> HIDE DEF p
<1>5. Listeners(p) = {<<core, i>>}
  <2>1. <<core, i>> \in Listeners(p) BY <1>1, <1>4 DEF Listeners
  <2>2. ASSUME NEW x \in Listeners(p) PROVE x = <<core, i>>
    <3>1. /\ x \in Cores \X (1..2 * Len(rows) + 1) /\ x[2] \in DOMAIN x[1]
          /\ x[1][x[2]].listen = "public" /\ x[1][x[2]].row = p.id
      BY DEF Listeners
    <3>2. x = <<x[1], x[2]>> /\ x[1] \in Cores BY <3>1
    <3>3. x[1] = core /\ x[2] = i BY <1>3, <3>1, <3>2
    <3> QED BY <3>2, <3>3
  <2> QED BY <2>1, <2>2
<1>6. core[i].port = p.port BY <1>1, <1>3, <1>4
<1>7. Cardinality(Listeners(p)) = 1 BY <1>5, FS_Singleton
<1>8. \A x \in Listeners(p) : x[1][x[2]].port = p.port BY <1>5, <1>6
<1> QED BY <1>7, <1>8 DEF p

\* Every row that can be served has one public listener, on its port and in one
\* core, whatever the other rows (build_xray_server_config and
\* build_singbox_server_config).
THEOREM RowsHaveTheirListener == Spec => []OneListenerPerRow
<1>1. RowsInv => OneListenerPerRow
  <2> SUFFICES ASSUME RowsInv, NEW k \in DOMAIN Active, Active[k].name \in Supported
               PROVE  LET p == Active[k] IN
                        /\ Cardinality(Listeners(p)) = 1
                        /\ \A x \in Listeners(p) : x[1][x[2]].port = p.port
    BY DEF OneListenerPerRow
  <2>1. ActiveFacts BY ActiveIs
  <2>2. k \in 1..Len(Active) BY <2>1, LenProperties DEF ActiveFacts
  <2>3. Serves(XrayNames, Xray(Active)) /\ Serves(SingboxNames, Singbox(Active))
    BY XrayServes, SingboxServes
  <2>4. /\ Cores = {Xray(Active), Singbox(Active)}
        /\ Cores = {Singbox(Active), Xray(Active)}
    BY DEF Cores
  <2>5. CASE Active[k].name \in XrayNames
    <3>1. Active[k].name \notin SingboxNames BY <2>5 DEF XrayNames, SingboxNames
    <3> QED BY <2>1, <2>2, <2>3, <2>4, <2>5, <3>1, OneListener
  <2>6. CASE Active[k].name \in SingboxNames
    <3>1. Active[k].name \notin XrayNames BY <2>6 DEF XrayNames, SingboxNames
    <3> QED BY <2>1, <2>2, <2>3, <2>4, <2>6, <3>1, OneListener
  <2> QED BY <2>5, <2>6 DEF Supported
<1> QED BY RowsHold, <1>1, PTL

LEMMA OneShadowTls ==
    ASSUME ActiveFacts, Cardinality(ShadowTls) <= 1
    PROVE  OneTls(Active, Len(Active))
<1> DEFINE n == Len(Active)
<1>1. n \in Nat /\ DOMAIN Active = 1..n BY LenProperties DEF ActiveFacts
<1>2. IsFiniteSet(ShadowTls)
  <2>1. IsFiniteSet(1..n) BY <1>1, FS_Interval
  <2>2. ShadowTls \in SUBSET (1..n) BY <1>1 DEF ShadowTls
  <2> QED BY <2>1, <2>2, FS_Subset
<1>3. ASSUME NEW i \in ShadowTls, NEW j \in ShadowTls PROVE i = j
  <2>1. IsFiniteSet(ShadowTls \ {i}) /\ Cardinality(ShadowTls \ {i}) = Cardinality(ShadowTls) - 1
    BY <1>2, FS_RemoveElement
  <2>2. Cardinality(ShadowTls \ {i}) \in Nat /\ Cardinality(ShadowTls) \in Nat
    BY <1>2, <2>1, FS_CardinalityType
  <2>3. Cardinality(ShadowTls \ {i}) = 0 BY <2>1, <2>2
  <2>4. ShadowTls \ {i} = {} BY <2>1, <2>3, FS_EmptySet
  <2> QED BY <2>4
<1> QED BY <1>1, <1>3 DEF OneTls, ShadowTls

\* With at most one ShadowTLS row, no core has a tag twice or a detour to none
\* (the tags of the server builders).
THEOREM CoresAcceptTags == Spec => []TagsResolve
<1>1. RowsInv => TagsResolve
  <2> SUFFICES ASSUME RowsInv, Cardinality(ShadowTls) <= 1, NEW core \in Cores
               PROVE  /\ \A i, j \in DOMAIN core : core[i].tag = core[j].tag => i = j
                      /\ \A i \in DOMAIN core : core[i].detour \subseteq Tags(core)
    BY DEF TagsResolve
  <2>1. OneTls(Active, Len(Active)) BY ActiveIs, OneShadowTls
  <2>2. Resolves(core) /\ DOMAIN core = 1..Len(core)
    BY XrayServes, SingboxServes DEF Cores, Serves
  <2> QED BY <2>1, <2>2 DEF Resolves
<1> QED BY RowsHold, <1>1, PTL
==============================================================================
