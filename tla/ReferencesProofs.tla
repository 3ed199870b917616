--------------------------- MODULE ReferencesProofs ---------------------------
(***************************************************************************)
(* What a resolution of references sets, for any resources, targets and    *)
(* surroundings.  A resolution is one step, or for several references one  *)
(* step for each: the invariant says what such a call has read so far.     *)
(***************************************************************************)
EXTENDS References, TLAPS

\* The types of the variables.
ResolveTyped ==
  /\ kind \in Kinds /\ IsSpec(kind, field, refs) /\ deleted \in BOOLEAN
  /\ targets \in [Targets -> {-1, 0} \cup Values]
  /\ changes \in Nat /\ resolved \in Int /\ resolved <= changes

\* What the map holds of the first n references: each of its keys comes with one of them.
Holding(m, rs, n) == /\ DOMAIN m \subseteq Nat
                     /\ \A v \in DOMAIN m : \E j \in 1 .. n : m[v] = rs[j]

\* The map is of targets as they are.
Current(m, rs, n) == /\ \A v \in DOMAIN m : \E j \in 1 .. n : m[v] = rs[j] /\ targets[Target(rs[j])] = v
                     /\ \A j \in 1 .. n : Target(rs[j]) \in Present /\ targets[Target(rs[j])] \in DOMAIN m

\* A resolution of several references works on a resource that is not changed meanwhile.
InCall(c) ==
  /\ c = [step |-> c.step, refs |-> c.refs, next |-> c.next, map |-> c.map, since |-> c.since]
  /\ kind.multi /\ ~deleted /\ ~IsNoOp(FromPtrValues(field), refs)
  /\ c.refs = Forgotten(refs) /\ c.step = IF Forgotten(refs) = <<>> THEN "list" ELSE "get"
  /\ c.next \in 1 .. Len(c.refs) + 1 /\ c.since \in Nat /\ c.since <= changes
  /\ Holding(c.map, c.refs, c.next - 1)
  /\ c.since = changes => Current(c.map, c.refs, c.next - 1)

ResolveInv == ResolveTyped /\ (call = NoCall \/ InCall(call))

\* The references are in the order of the values they lead to, and the values are in the field.
Led(f, rs) ==
  /\ \A i \in DOMAIN rs : Target(rs[i]) \in Present
  /\ \A i, j \in DOMAIN rs : i < j => targets[Target(rs[i])] < targets[Target(rs[j])]
  /\ f = Filled(ToPtrValues([i \in DOMAIN rs |-> targets[Target(rs[i])]]))

\* The field and the references are what the selector gives.
Picked(f, rs) ==
  \/ ~kind.multi /\ Selected = {} /\ f = <<>> /\ rs = <<>>
  \/ ~kind.multi /\ \E t \in Selected : f = Filled(ToPtrValues(<<targets[t]>>)) /\ rs = <<ReferenceTo(t)>>
  \/ kind.multi /\ \E m \in ListMaps : \E keys \in sortMapByKeys(m) :
                     f = ToPtrValues(keys) /\ rs = [i \in DOMAIN keys |-> m[keys[i]]]

\* Resolving again gives the same.
Settled(f, rs) ==
  /\ Filled(ToPtrValues(FromPtrValues(f))) = f
  /\ \/ deleted \/ IsNoOp(FromPtrValues(f), rs)
     \/ Forgotten(rs) # <<>> /\ Led(f, rs)
     \/ Forgotten(rs) = <<>> /\ Picked(f, rs)

\* No reference of a resource with a selector is optional.
Owned(k, rs) == k.selector.on => \A i \in DOMAIN rs : ~rs[i].optional

StableInv == Owned(kind, refs) /\ (resolved = changes => Settled(field, refs))

\* The elements of a list grow.
Increasing(k) == \A i, j \in DOMAIN k : i < j => k[i] < k[j]

\* Two lists with the same elements are the same.
LEMMA SameList ==
  ASSUME NEW S, NEW s \in Seq(S), NEW t \in Seq(S), Len(s) = Len(t), \A i \in 1 .. Len(s) : s[i] = t[i]
  PROVE  s = t
<1>1. s = [i \in 1 .. Len(s) |-> s[i]]  OBVIOUS
<1>2. t = [i \in 1 .. Len(t) |-> t[i]]  OBVIOUS
<1> QED  BY <1>1, <1>2

-----------------------------------------------------------------------------
(* The adapters.                                                           *)

\* One value of the field as the string it is read as, and as it is written.
Read(f) == IF kind.type = "float" THEN FromFloatPtrValue(f) ELSE FromIntPtrValue(f)
Written(v) == IF kind.type = "string" THEN ToPtrValue(v) ELSE ToIntPtrValue(v)

\* Reading: rounding to a number.
LEMMA Halves ==
  ASSUME NEW f \in Nat, f >= 2
  PROVE  /\ FromFloatPtrValue(f) \in Nat \ {0} /\ FromIntPtrValue(f) \in Nat \ {0}
         /\ f % 2 = 0 => 2 * FromIntPtrValue(f) = f
         /\ f \notin (2 * Word - 1) .. (2 * Word + 1)
              => FromIntPtrValue(f) # Word /\ FromFloatPtrValue(f) # Word
<1>1. Word \in Nat  BY TargetsAssumption, Zenon
<1> QED  BY <1>1 DEF FromFloatPtrValue, FromIntPtrValue

\* Writing: a number is a number of halves.
LEMMA Doubles ==
  ASSUME NEW v \in Nat
  PROVE  /\ FromFloatPtrValue(2 * v) = v /\ FromIntPtrValue(2 * v) = v
         /\ 2 * v \in Nat /\ (2 * v) % 2 = 0 /\ (2 * v = 0 \/ 2 * v >= 2)
         /\ v # Word => 2 * v \notin (2 * Word - 1) .. (2 * Word + 1)
<1>1. Word \in Nat  BY TargetsAssumption, Zenon
<1> QED  BY <1>1 DEF FromFloatPtrValue, FromIntPtrValue

\* A value that is there is read as a string that is not empty, and comes back if it has no fraction.
LEMMA Reads ==
  ASSUME kind \in Kinds, NEW f \in Nat, Holds(kind, f)
  PROVE  Read(f) \in Nat /\ (Read(f) = 0 <=> f = 0) /\ (kind.type # "float" => Written(Read(f)) = f)
<1>1. kind.type \in {"string", "int", "float"}  BY DEF Kinds
<1>2. Word # 0  BY TargetsAssumption, Zenon
<1>3. CASE f = 0
  <2>1. FromIntPtrValue(0) = 0 /\ FromFloatPtrValue(0) = 0  BY DEF FromFloatPtrValue, FromIntPtrValue
  <2>2. ToPtrValue(0) = 0 /\ ToIntPtrValue(0) = 0  BY <1>2 DEF ToPtrValue, ToIntPtrValue
  <2> QED  BY <1>3, <2>1, <2>2 DEF Read, Written
<1>4. CASE f # 0
  <2>1. f >= 2  BY <1>4 DEF Holds
  <2>2. kind.type # "float" => f % 2 = 0  BY <1>4 DEF Holds
  <2>3. kind.type # "string" => f \notin (2 * Word - 1) .. (2 * Word + 1)  BY <1>4 DEF Holds
  <2>4. kind.type # "float" => Written(Read(f)) = f
    BY <1>1, <2>1, <2>2, <2>3, Halves DEF Read, Written, ToPtrValue, ToIntPtrValue
  <2> QED  BY <1>1, <1>4, <2>1, <2>4, Halves DEF Read
<1> QED  BY <1>3, <1>4

\* What is written is read and written again as it is.
LEMMA Writes ==
  ASSUME kind \in Kinds, NEW v \in Nat
  PROVE  /\ Written(v) \in Nat /\ (Written(v) = 0 \/ Holds(kind, Written(v)))
         /\ Written(Read(Written(v))) = Written(v) /\ Read(0) = 0 /\ Written(0) = 0
<1>1. kind.type \in {"string", "int", "float"}  BY DEF Kinds
<1>2. Word # 0  BY TargetsAssumption, Zenon
<1>3. Read(0) = 0  BY DEF Read, FromFloatPtrValue, FromIntPtrValue
<1>4. Written(0) = 0  BY <1>2 DEF Written, ToPtrValue, ToIntPtrValue
<1>5. \/ Written(v) = 0
      \/ Written(v) = 2 * v /\ (kind.type = "string" \/ v # Word)
  BY DEF Written, ToPtrValue, ToIntPtrValue
<1>6. CASE Written(v) = 0  BY <1>3, <1>4, <1>6
<1>7. CASE Written(v) = 2 * v /\ (kind.type = "string" \/ v # Word)
  <2>1. Read(2 * v) = v  BY Doubles DEF Read
  <2>2. 2 * v = 0 \/ Holds(kind, 2 * v)
    BY <1>7, Doubles DEF Holds
  <2> QED  BY <1>3, <1>4, <1>7, <2>1, <2>2, Doubles
<1> QED  BY <1>5, <1>6, <1>7

\* The values of a field.
LEMMA ReadsAll ==
  ASSUME NEW f \in Seq(Nat), kind \in Kinds, \A i \in DOMAIN f : Holds(kind, f[i])
  PROVE  /\ FromPtrValues(f) \in Seq(Nat) /\ Len(FromPtrValues(f)) = Len(f)
         /\ \A i \in 1 .. Len(f) : FromPtrValues(f)[i] = Read(f[i])
<1>1. \A i \in 1 .. Len(f) : f[i] \in Nat /\ Read(f[i]) \in Nat  BY Reads
<1>2. FromPtrValues(f) = [i \in 1 .. Len(f) |-> Read(f[i])]  BY DEF FromPtrValues, Read
<1>3. FromPtrValues(f) \in [1 .. Len(f) -> Nat]  BY <1>1, <1>2
<1> QED  BY <1>2, <1>3

\* A field of values.
LEMMA WritesAll ==
  ASSUME NEW v \in Seq(Nat), kind \in Kinds
  PROVE  /\ ToPtrValues(v) \in Seq(Nat) /\ Len(ToPtrValues(v)) = Len(v)
         /\ \A i \in 1 .. Len(v) : ToPtrValues(v)[i] = Written(v[i])
<1>0. \A w \in Nat : Written(w) \in Nat  BY Writes
<1>1. ASSUME NEW i \in 1 .. Len(v) PROVE v[i] \in Nat /\ Written(v[i]) \in Nat
  <2>1. v[i] \in Nat  OBVIOUS
  <2> QED  BY <1>0, <2>1, Zenon
<1>2. ToPtrValues(v) = [i \in 1 .. Len(v) |-> Written(v[i])]  BY DEF ToPtrValues, Written
<1>3. ToPtrValues(v) \in [1 .. Len(v) -> Nat]  BY <1>1, <1>2
<1> QED  BY <1>2, <1>3

\* What Filled gives for one value and for several.
LEMMA FilledIs ==
  ASSUME NEW f \in Seq(Nat), kind.multi \in BOOLEAN, ~kind.multi => Len(f) <= 1
  PROVE  /\ Filled(f) \in Seq(Nat) /\ Len(Filled(f)) <= Len(f)
         /\ kind.multi => Filled(f) = f
         /\ ~kind.multi /\ Len(f) = 1 /\ f[1] = 0 => Filled(f) = <<>>
         /\ Len(f) = 0 \/ (Len(f) = 1 /\ f[1] # 0) => Filled(f) = f
         /\ \A i \in DOMAIN Filled(f) : i \in DOMAIN f /\ Filled(f)[i] = f[i] /\ (kind.multi \/ f[i] # 0)
<1>1. CASE kind.multi  BY <1>1 DEF Filled
<1>2. CASE ~kind.multi /\ Len(f) = 0
  BY <1>2 DEF Filled
<1>3. CASE ~kind.multi /\ Len(f) = 1
  <2>1. f = <<f[1]>>  BY <1>3
  <2>2. f = <<0>> <=> f[1] = 0  BY <1>3, <2>1
  <2>3. CASE f[1] = 0
    <3>1. Filled(f) = <<>>  BY <1>3, <2>2, <2>3 DEF Filled
    <3> QED  BY <1>3, <2>3, <3>1
  <2>4. CASE f[1] # 0
    <3>1. Filled(f) = f  BY <2>2, <2>4 DEF Filled
    <3>2. \A i \in DOMAIN f : i = 1  BY <1>3
    <3>3. \A i \in DOMAIN Filled(f) : i \in DOMAIN f /\ Filled(f)[i] = f[i] /\ f[i] # 0  BY <2>4, <3>1, <3>2
    <3>4. Filled(f) \in Seq(Nat) /\ Len(Filled(f)) <= Len(f)  BY <3>1
    <3> QED  BY <1>3, <2>4, <3>1, <3>3, <3>4
  <2> QED  BY <2>3, <2>4
<1>4. Len(f) \in Nat /\ \A n \in Nat : n <= 1 => n = 0 \/ n = 1  OBVIOUS
<1> QED  BY <1>1, <1>2, <1>3, <1>4, Zenon

\* What a resource sets is a field again, and would be read and set again as it is.
LEMMA SetsField ==
  ASSUME kind \in Kinds, NEW values \in Seq(Nat), NEW rs \in Seq(Reference),
         ~kind.multi => Len(values) <= 1 /\ Len(rs) <= 1
  PROVE  LET f == Filled(ToPtrValues(values))
         IN  IsSpec(kind, f, rs) /\ Filled(ToPtrValues(FromPtrValues(f))) = f
<1> DEFINE t == ToPtrValues(values)
           f == Filled(t)
<1>1. t \in Seq(Nat) /\ Len(t) = Len(values) /\ \A i \in 1 .. Len(values) : t[i] = Written(values[i])
  BY WritesAll
<1>2. kind.multi \in BOOLEAN  BY DEF Kinds
<1> HIDE DEF t
<1>3. f \in Seq(Nat) /\ Len(f) <= Len(t)  BY <1>1, <1>2, FilledIs
<1>4. \A i \in DOMAIN f : i \in DOMAIN t /\ f[i] = t[i] /\ (kind.multi \/ t[i] # 0)  BY <1>1, <1>2, FilledIs
<1> HIDE DEF f
<1>5. ASSUME NEW i \in DOMAIN f PROVE Holds(kind, f[i]) /\ Written(Read(f[i])) = f[i]
  <2>1. values[i] \in Nat /\ f[i] = Written(values[i])  BY <1>1, <1>4, <1>5
  <2>2. f[i] = 0 \/ Holds(kind, f[i])  BY <2>1, Writes
  <2>3. Written(Read(f[i])) = f[i]  BY <2>1, Writes
  <2>4. f[i] = 0 => kind.multi  BY <1>4
  <2> QED  BY <2>2, <2>3, <2>4 DEF Holds
<1>6. IsSpec(kind, f, rs)  BY <1>1, <1>3, <1>5 DEF IsSpec
<1> DEFINE v == FromPtrValues(f)
           g == ToPtrValues(v)
<1>7. v \in Seq(Nat) /\ Len(v) = Len(f) /\ \A i \in 1 .. Len(f) : v[i] = Read(f[i])
  BY <1>3, <1>5, ReadsAll
<1> HIDE DEF v
<1>8. g \in Seq(Nat) /\ Len(g) = Len(v) /\ \A i \in 1 .. Len(v) : g[i] = Written(v[i])  BY <1>7, WritesAll
<1> HIDE DEF g
<1>9. \A i \in 1 .. Len(f) : g[i] = f[i]  BY <1>3, <1>5, <1>7, <1>8
<1>10. g = f  BY <1>3, <1>7, <1>8, <1>9, SameList
<1>11. Filled(f) = f
  <2>1. f # <<0>> \/ kind.multi
    <3>1. f = <<0>> => 1 \in DOMAIN f /\ f[1] = 0  BY <1>3
    <3> QED  BY <1>4, <3>1
  <2> QED  BY <2>1 DEF Filled
<1> QED  BY <1>6, <1>10, <1>11 DEF f, g, t, v

\* Setting the field to what was read of it leaves it empty or not, as it was; if it has no fraction
\* it stays as it is.
LEMMA NoOpKeeps ==
  ASSUME kind \in Kinds, IsSpec(kind, field, refs)
  PROVE  LET f == Filled(ToPtrValues(FromPtrValues(field)))
         IN  /\ FromPtrValues(field) \in Seq(Nat) /\ Len(FromPtrValues(field)) = Len(field)
             /\ (f = <<>> <=> field = <<>>) /\ (kind.type # "float" => f = field)
<1> DEFINE v == FromPtrValues(field)
           g == ToPtrValues(v)
<1>1. field \in Seq(Nat) /\ \A i \in DOMAIN field : Holds(kind, field[i])  BY DEF IsSpec
<1>2. v \in Seq(Nat) /\ Len(v) = Len(field) /\ \A i \in 1 .. Len(field) : v[i] = Read(field[i])
  BY <1>1, ReadsAll
<1> HIDE DEF v
<1>3. g \in Seq(Nat) /\ Len(g) = Len(v) /\ \A i \in 1 .. Len(v) : g[i] = Written(v[i])  BY <1>2, WritesAll
<1> HIDE DEF g
<1>4. kind.multi \in BOOLEAN /\ (~kind.multi => Len(g) <= 1)  BY <1>2, <1>3 DEF Kinds, IsSpec
<1>5. ASSUME ~kind.multi, Len(g) = 1 PROVE g[1] # 0
  <2>1. 1 \in DOMAIN field /\ field[1] \in Nat /\ field[1] # 0 /\ field[1] >= 2
    <3>1. Len(field) = 1  BY <1>2, <1>3, <1>5
    <3>2. 1 \in DOMAIN field /\ field[1] \in Nat
      <4>1. field \in Seq(Nat)  BY <1>1
      <4> QED  BY <3>1, <4>1
    <3>3. Holds(kind, field[1])  BY <1>1, <3>2
    <3> QED  BY <1>5, <3>2, <3>3 DEF Holds
  <2>2. Read(field[1]) \in Nat \ {0}  BY <1>1, <2>1, Reads
  <2>3. g[1] = Written(Read(field[1]))  BY <1>2, <1>3, <1>5
  <2>4. kind.type # "string" => Read(field[1]) # Word
    <3>1. kind.type # "string" => field[1] \notin (2 * Word - 1) .. (2 * Word + 1)
      BY <1>1, <2>1 DEF Holds
    <3> QED  BY <2>1, <3>1, Halves DEF Read
  <2> QED  BY <2>2, <2>3, <2>4 DEF Written, ToPtrValue, ToIntPtrValue
<1>6. Filled(g) = g
  <2>1. Len(g) <= 1 => Len(g) = 0 \/ Len(g) = 1  BY <1>3
  <2>2. kind.multi \/ Len(g) = 0 \/ (Len(g) = 1 /\ g[1] # 0)  BY <1>4, <1>5, <2>1, Zenon
  <2> QED  BY <1>3, <1>4, <2>2, FilledIs, Zenon
<1>7. kind.type # "float" => g = field
  <2>1. ASSUME kind.type # "float", NEW i \in 1 .. Len(field) PROVE g[i] = field[i]
    <3>1. g[i] = Written(Read(field[i]))  BY <1>2, <1>3
    <3>2. field[i] \in Nat /\ Holds(kind, field[i])  BY <1>1
    <3> QED  BY <2>1, <3>1, <3>2, Reads
  <2> QED  BY <1>1, <1>2, <1>3, <2>1, SameList
<1>8. g = <<>> <=> field = <<>>  BY <1>1, <1>2, <1>3
<1> QED  BY <1>2, <1>6, <1>7, <1>8 DEF g, v

-----------------------------------------------------------------------------
(* What a resolution may come to.                                          *)

NoOp == deleted \/ IsNoOp(FromPtrValues(field), refs)

Sets(f, rs, since) == field' = f /\ refs' = rs /\ resolved' = since

\* The values, in order, of references that the resource has; if no target changed meanwhile, of all
\* of them.
LedBy(values, rs) ==
  /\ values \in Seq(Nat) /\ rs \in Seq(Reference) /\ Len(values) = Len(rs) /\ rs # <<>>
  /\ ~kind.multi => Len(values) <= 1
  /\ \A i \in DOMAIN rs : InRange(rs[i], refs)
  /\ Increasing(values)
  /\ Undisturbed => /\ \A i \in DOMAIN rs : Target(rs[i]) \in Present /\ values[i] = targets[Target(rs[i])]
                    /\ \A i \in DOMAIN refs : \E k \in DOMAIN rs : values[k] = targets[Target(refs[i])]

\* An optional reference leads nowhere.
Nowhere == Forgotten(refs) # <<>> /\ \E j \in DOMAIN refs : refs[j].optional /\ Target(refs[j]) \notin Present

Outcome(since) ==
  \/ UNCHANGED <<field, refs, resolved>>
  \/ NoOp /\ Sets(Filled(ToPtrValues(FromPtrValues(field))), refs, since)
  \/ ~NoOp /\ Nowhere /\ Sets(<<>>, <<>>, since)
  \/ /\ ~NoOp /\ Forgotten(refs) # <<>>
     /\ \E values, rs : LedBy(values, rs) /\ Sets(Filled(ToPtrValues(values)), rs, since)
  \/ /\ ~NoOp /\ Forgotten(refs) = <<>> /\ Selector.on
     /\ \E f, rs : Picked(f, rs) /\ Sets(f, rs, since)

\* An error changes nothing; else the resource sets the response.
LEMMA Setting ==
  ASSUME NEW rsp, NEW since, SetResolved(rsp, since)
  PROVE  IF rsp.err THEN UNCHANGED <<field, refs, resolved>>
         ELSE Sets(Filled(ToPtrValues(rsp.values)), rsp.refs, since)
  BY DEF SetResolved, Sets

\* A string that nothing is read from is written as none.
LEMMA NothingWritten == ToPtrValues(<<>>) = <<>> /\ Filled(<<>>) = <<>>
<1>1. DOMAIN ToPtrValues(<<>>) = {}  BY DEF ToPtrValues
<1> QED  BY <1>1 DEF ToPtrValues, Filled

\* Without a selector that chooses again, what is left of the references are the references.
LEMMA NotForgotten ==
  /\ Forgotten(refs) # <<>> => Forgotten(refs) = refs /\ ~Chosen
  /\ Forgotten(refs) = <<>> /\ ~NoOp => Selector.on
  BY DEF Forgotten, Chosen, NoOp, IsNoOp

\* The values of targets that are there are numbers.
LEMMA ValuesOfTargets ==
  ASSUME targets \in [Targets -> {-1, 0} \cup Values], NEW t \in Present
  PROVE  targets[t] \in Nat
<1>1. t \in Targets /\ targets[t] >= 0  BY DEF Present
<1>2. targets[t] \in {-1, 0} \cup Values  BY <1>1
<1>3. Values \subseteq Nat
  <2>1. Word \in Nat /\ Values \subseteq 1 .. Word  BY TargetsAssumption, Zenon
  <2> QED  BY <2>1
<1>4. targets[t] # -1  BY <1>1
<1>5. targets[t] = 0 \/ targets[t] \in Values  BY <1>2, <1>4
<1>6. 0 \in Nat  OBVIOUS
<1> QED  BY <1>3, <1>5, <1>6, Zenon

\* A resolution of one reference.
LEMMA OneOutcome ==
  ASSUME ResolveInv, ResolveOne, ~kind.multi
  PROVE  Outcome(changes)
<1>1. call = NoCall /\ Undisturbed  BY DEF ResolveOne, Undisturbed
<1>2. PICK rsp \in Responses(FromPtrValues(field), refs) : SetResolved(rsp, changes)  BY DEF ResolveOne
<1>3. IF rsp.err THEN UNCHANGED <<field, refs, resolved>>
      ELSE Sets(Filled(ToPtrValues(rsp.values)), rsp.refs, changes)
  BY <1>2, Setting
<1>4. CASE NoOp
  <2>1. rsp = Response(FromPtrValues(field), refs, FALSE)  BY <1>2, <1>4, Zenon DEF Responses, NoOp
  <2>2. Sets(Filled(ToPtrValues(FromPtrValues(field))), refs, changes)  BY <1>3, <2>1 DEF Response
  <2> QED  BY <1>4, <2>2 DEF Outcome
<1>5. CASE ~NoOp /\ Forgotten(refs) # <<>>
  <2>1. Forgotten(refs) = refs  BY <1>5, NotForgotten
  <2>2. refs \in Seq(Reference) /\ Len(refs) <= 1  BY DEF ResolveInv, ResolveTyped, IsSpec
  <2>3. Len(refs) = 1 /\ refs = <<refs[1]>>
    <3>1. refs # <<>>  BY <1>5, <2>1
    <3>2. Len(refs) \in Nat /\ Len(refs) # 0  BY <2>2, <3>1
    <3>3. Len(refs) = 1  BY <2>2, <3>2
    <3> QED  BY <2>2, <3>3
  <2>4. rsp = ResolveReference(refs[1])  BY <1>2, <1>5, <2>1 DEF Responses, NoOp
  <2> DEFINE r == refs[1]
             v == targets[Target(r)]
  <2>5. CASE Target(r) \notin Present
    <3>1. rsp = Response(<<>>, <<>>, getResolutionError(r.optional, TRUE))  BY <2>4, <2>5 DEF ResolveReference
    <3>2. CASE ~r.optional  BY <1>3, <3>1, <3>2, Zenon DEF Response, getResolutionError, Outcome
    <3>3. CASE r.optional
      <4>1. Sets(<<>>, <<>>, changes)  BY <1>3, <3>1, <3>3, NothingWritten, Zenon DEF Response, getResolutionError
      <4>2. Nowhere  BY <1>5, <2>3, <2>5, <3>3 DEF Nowhere
      <4> QED  BY <1>5, <4>1, <4>2 DEF Outcome
    <3> QED  BY <3>2, <3>3
  <2>6. CASE Target(r) \in Present
    <3>1. rsp = Response(<<v>>, <<r>>, getResolutionError(r.optional, v = 0))  BY <2>4, <2>6 DEF ResolveReference
    <3>2. rsp.values = <<v>> /\ rsp.refs = refs  BY <2>3, <3>1 DEF Response
    <3>3. v \in Nat  BY <2>6, ValuesOfTargets DEF ResolveInv, ResolveTyped
    <3>4. LedBy(<<v>>, refs)
      <4>1. <<v>> \in Seq(Nat) /\ Len(<<v>>) = 1 /\ Increasing(<<v>>)  BY <3>3 DEF Increasing
      <4>2. \A i \in DOMAIN refs : i = 1 /\ InRange(refs[i], refs)  BY <2>3 DEF InRange
      <4>3. \A i \in DOMAIN refs : Target(refs[i]) \in Present /\ <<v>>[i] = targets[Target(refs[i])]
        BY <2>6, <4>2
      <4>4. refs # <<>>  BY <1>5, <2>1
      <4> HIDE DEF v
      <4> QED  BY <2>2, <2>3, <4>1, <4>2, <4>3, <4>4 DEF LedBy
    <3>5. CASE rsp.err  BY <1>3, <3>5 DEF Outcome
    <3>6. CASE ~rsp.err
      <4>1. Sets(Filled(ToPtrValues(<<v>>)), refs, changes)  BY <1>3, <3>2, <3>6
      <4> HIDE DEF v
      <4> QED  BY <1>5, <3>4, <4>1 DEF Outcome
    <3> QED  BY <3>5, <3>6
  <2> QED  BY <2>5, <2>6
<1>6. CASE ~NoOp /\ Forgotten(refs) = <<>>
  <2>1. rsp \in ResolveSelector  BY <1>2, <1>6 DEF Responses, NoOp
  <2>2. Selector.on  BY <1>6, NotForgotten
  <2>3. CASE rsp.err  BY <1>3, <2>3 DEF Outcome
  <2>4. CASE ~rsp.err
    <3>1. Sets(Filled(ToPtrValues(rsp.values)), rsp.refs, changes)  BY <1>3, <2>4
    <3>2. CASE Selected = {}
      <4>1. rsp.values = <<>> /\ rsp.refs = <<>>  BY <2>1, <3>2 DEF ResolveSelector, Response
      <4>2. Sets(<<>>, <<>>, changes)  BY <3>1, <4>1, NothingWritten
      <4>3. Picked(<<>>, <<>>)  BY <3>2 DEF Picked
      <4> QED  BY <1>6, <2>2, <4>2, <4>3 DEF Outcome
    <3>3. CASE Selected # {}
      <4>1. PICK t \in Selected : rsp = Response(<<targets[t]>>, <<ReferenceTo(t)>>,
                                                 getResolutionError(Selector.optional, targets[t] = 0))
        BY <2>1, <3>3, Zenon DEF ResolveSelector
      <4>2. rsp.values = <<targets[t]>> /\ rsp.refs = <<ReferenceTo(t)>>  BY <4>1 DEF Response
      <4>3. Picked(Filled(ToPtrValues(<<targets[t]>>)), <<ReferenceTo(t)>>)  BY DEF Picked
      <4> QED  BY <1>6, <2>2, <3>1, <4>2, <4>3 DEF Outcome
    <3> QED  BY <3>2, <3>3
  <2> QED  BY <2>3, <2>4
<1> QED  BY <1>4, <1>5, <1>6

\* A resolution of several references that begins, or ends at once.
LEMMA BeginOutcome ==
  ASSUME ResolveInv, BeginMultiple, kind.multi
  PROVE  Outcome(changes) /\ Undisturbed /\ (call' = NoCall \/ InCall(call'))
<1>1. call = NoCall /\ Undisturbed  BY DEF BeginMultiple, Undisturbed
<1>2. CASE NoOp
  <2>1. SetResolved(Response(FromPtrValues(field), refs, FALSE), changes) /\ UNCHANGED call
    BY <1>2, Zenon DEF BeginMultiple, NoOp
  <2>2. Sets(Filled(ToPtrValues(FromPtrValues(field))), refs, changes)  BY <2>1, Setting DEF Response
  <2> QED  BY <1>1, <1>2, <2>1, <2>2 DEF Outcome
<1>3. CASE ~NoOp
  <2>1. UNCHANGED <<field, refs, resolved>>  BY <1>3 DEF BeginMultiple, NoOp
  <2>2. call' = [step |-> IF Forgotten(refs) = <<>> THEN "list" ELSE "get", refs |-> Forgotten(refs), next |-> 1,
                 map |-> <<>>, since |-> changes]
    BY <1>3, Zenon DEF BeginMultiple, NoOp, NoCall
  <2>3. changes \in Nat /\ refs \in Seq(Reference)  BY DEF ResolveInv, ResolveTyped, IsSpec
  <2>4. Len(Forgotten(refs)) \in Nat  BY <2>3 DEF Forgotten
  <2>5. DOMAIN <<>> = {}  OBVIOUS
  <2>6. Holding(<<>>, Forgotten(refs), 0) /\ Current(<<>>, Forgotten(refs), 0)
    BY <2>5 DEF Holding, Current
  <2>7. InCall(call')  BY <1>3, <2>2, <2>3, <2>4, <2>6 DEF InCall, NoOp
  <2> QED  BY <1>1, <2>1, <2>7 DEF Outcome
<1> QED  BY <1>2, <1>3

\* The map with one more reference in it.
LEMMA Puts ==
  ASSUME NEW m, NEW rs, NEW n \in Nat, NEW v \in Nat, Holding(m, rs, n)
  PROVE  /\ Holding(Put(m, v, rs[n + 1]), rs, n + 1)
         /\ Current(m, rs, n) /\ Target(rs[n + 1]) \in Present /\ v = targets[Target(rs[n + 1])]
              => Current(Put(m, v, rs[n + 1]), rs, n + 1)
<1> DEFINE p == Put(m, v, rs[n + 1])
<1>1. DOMAIN p = DOMAIN m \cup {v}  BY DEF Put
<1>2. p[v] = rs[n + 1] /\ \A w \in DOMAIN m : w # v => p[w] = m[w]  BY DEF Put
<1> HIDE DEF p
<1>3. \A j : j \in 1 .. n + 1 <=> j \in 1 .. n \/ j = n + 1  OBVIOUS
<1>4. Holding(p, rs, n + 1)
  <2>1. DOMAIN p \subseteq Nat  BY <1>1 DEF Holding
  <2>2. ASSUME NEW w \in DOMAIN p PROVE \E j \in 1 .. n + 1 : p[w] = rs[j]
    BY <1>1, <1>2, <1>3 DEF Holding
  <2> QED  BY <2>1, <2>2 DEF Holding
<1>5. ASSUME Current(m, rs, n), Target(rs[n + 1]) \in Present, v = targets[Target(rs[n + 1])]
      PROVE  Current(p, rs, n + 1)
  <2>1. ASSUME NEW w \in DOMAIN p PROVE \E j \in 1 .. n + 1 : p[w] = rs[j] /\ targets[Target(rs[j])] = w
    BY <1>1, <1>2, <1>3, <1>5, Zenon DEF Current
  <2>2. ASSUME NEW j \in 1 .. n + 1 PROVE Target(rs[j]) \in Present /\ targets[Target(rs[j])] \in DOMAIN p
    BY <1>1, <1>3, <1>5, Zenon DEF Current
  <2> QED  BY <2>1, <2>2 DEF Current
<1> QED  BY <1>4, <1>5 DEF p

\* The next reference is read, or ends the resolution.
LEMMA GetOutcome ==
  ASSUME ResolveInv, GetNext
  PROVE  Outcome(call.since) /\ (call' = NoCall \/ InCall(call'))
<1>1. call # NoCall /\ call.step = "get" /\ call.next <= Len(call.refs)  BY DEF GetNext, NoCall
<1>2. InCall(call)  BY <1>1 DEF ResolveInv
<1>3. ~NoOp /\ Forgotten(refs) # <<>>  BY <1>1, <1>2 DEF InCall, NoOp
<1>4. call.refs = refs  BY <1>2, <1>3, NotForgotten DEF InCall
<1>5. refs \in Seq(Reference)  BY DEF ResolveInv, ResolveTyped, IsSpec
<1>6. call.next \in Nat \ {0} /\ call.next \in DOMAIN refs
  <2>1. call.next \in 1 .. Len(refs) + 1  BY <1>2, <1>4 DEF InCall
  <2> QED  BY <1>1, <1>4, <1>5, <2>1
<1> DEFINE r == refs[call.next]
           v == targets[Target(r)]
<1>7. CASE Target(r) \in Present
  <2>1. call' = [call EXCEPT !.next = @ + 1, !.map = Put(@, v, r)] /\ UNCHANGED <<field, refs, resolved>>
    BY <1>4, <1>7 DEF GetNext
  <2>2. call = [step |-> call.step, refs |-> call.refs, next |-> call.next, map |-> call.map, since |-> call.since]
    BY <1>2 DEF InCall
  <2>3. call' = [step |-> call.step, refs |-> call.refs, next |-> call.next + 1, map |-> Put(call.map, v, r),
                 since |-> call.since]
    BY <2>1, <2>2, Zenon
  <2>4. v \in Nat  BY <1>7, ValuesOfTargets DEF ResolveInv, ResolveTyped
  <2> DEFINE n == call.next - 1
  <2>5. n \in Nat /\ n + 1 = call.next /\ call.next + 1 - 1 = n + 1  BY <1>6
  <2>6. Holding(call.map, refs, n) /\ (call.since = changes => Current(call.map, refs, n))  BY <1>2, <1>4 DEF InCall
  <2> HIDE DEF n
  <2>7. /\ Holding(Put(call.map, v, r), refs, n + 1)
        /\ call.since = changes => Current(Put(call.map, v, r), refs, n + 1)
    BY <1>7, <2>4, <2>5, <2>6, Puts
  <2>8. call.next + 1 \in 1 .. Len(refs) + 1  BY <1>5, <1>6
  <2>9. InCall(call')
    <3>1. call'.refs = refs /\ call'.next = call.next + 1 /\ call'.map = Put(call.map, v, r)
          /\ call'.since = call.since /\ call'.step = call.step
      BY <1>4, <2>3
    <3>2. call' = [step |-> call'.step, refs |-> call'.refs, next |-> call'.next, map |-> call'.map, since |-> call'.since]
      BY <2>3
    <3>3. Holding(call'.map, call'.refs, call'.next - 1)  BY <2>5, <2>7, <3>1
    <3>4. call'.since = changes => Current(call'.map, call'.refs, call'.next - 1)  BY <2>5, <2>7, <3>1
    <3> QED  BY <1>2, <1>4, <2>8, <3>1, <3>2, <3>3, <3>4 DEF InCall
  <2> QED  BY <2>1, <2>9 DEF Outcome
<1>8. CASE Target(r) \notin Present
  <2>1. Finish(Response(<<>>, <<>>, getResolutionError(r.optional, TRUE)))  BY <1>4, <1>8, Zenon DEF GetNext
  <2>2. call' = NoCall  BY <2>1 DEF Finish
  <2>3. CASE ~r.optional
    <3>1. UNCHANGED <<field, refs, resolved>>
      <4>1. Response(<<>>, <<>>, getResolutionError(r.optional, TRUE)).err  BY <2>3, Zenon DEF Response, getResolutionError
      <4>2. SetResolved(Response(<<>>, <<>>, getResolutionError(r.optional, TRUE)), call.since)  BY <2>1, Zenon DEF Finish
      <4> QED  BY <4>1, <4>2, Setting, Zenon
    <3> QED  BY <2>2, <3>1 DEF Outcome
  <2>4. CASE r.optional
    <3>1. Sets(<<>>, <<>>, call.since)
      <4> DEFINE rsp == Response(<<>>, <<>>, getResolutionError(r.optional, TRUE))
      <4>1. ~rsp.err /\ rsp.values = <<>> /\ rsp.refs = <<>>  BY <2>4, Zenon DEF Response, getResolutionError
      <4>2. SetResolved(rsp, call.since)  BY <2>1, Zenon DEF Finish
      <4> HIDE DEF rsp
      <4> QED  BY <4>1, <4>2, Setting, NothingWritten
    <3>2. Nowhere  BY <1>3, <1>6, <1>8, <2>4 DEF Nowhere
    <3> QED  BY <1>3, <2>2, <3>1, <3>2 DEF Outcome
  <2> QED  BY <2>3, <2>4
<1> QED  BY <1>7, <1>8

\* The keys of a map in order: a list of them all.
LEMMA Keys ==
  ASSUME NEW m, DOMAIN m \subseteq Nat, NEW keys \in sortMapByKeys(m)
  PROVE  /\ keys \in Seq(Nat) /\ Increasing(keys)
         /\ \A i \in DOMAIN keys : keys[i] \in DOMAIN m
         /\ \A v \in DOMAIN m : \E i \in DOMAIN keys : keys[i] = v
<1>1. PICK n \in 0 .. Word + 1 : keys \in [1 .. n -> DOMAIN m]  BY DEF sortMapByKeys, ListsOf
<1>2. n \in Nat
  <2>1. Word \in Nat  BY TargetsAssumption, Zenon
  <2> QED  BY <2>1
<1>3. keys \in [1 .. n -> Nat]  BY <1>1
<1>4. keys \in Seq(Nat)  BY <1>2, <1>3
<1> QED  BY <1>1, <1>4 DEF sortMapByKeys, ListsOf, Increasing

\* The response that a map gives.
LEMMA MappedIs ==
  ASSUME NEW m, NEW rsp \in Mapped(m)
  PROVE  \E keys \in sortMapByKeys(m) :
           /\ rsp.values = keys /\ rsp.refs = [i \in DOMAIN keys |-> m[keys[i]]]
           /\ rsp = Response(rsp.values, rsp.refs, Validate(rsp.values, rsp.refs))
<1>1. PICK keys \in sortMapByKeys(m) : rsp = LET rs == [i \in DOMAIN keys |-> m[keys[i]]]
                                             IN  Response(keys, rs, Validate(keys, rs))
  BY DEF Mapped
<1>2. rsp.values = keys /\ rsp.refs = [i \in DOMAIN keys |-> m[keys[i]]]  BY <1>1 DEF Response
<1>3. rsp = Response(keys, [i \in DOMAIN keys |-> m[keys[i]]], Validate(keys, [i \in DOMAIN keys |-> m[keys[i]]]))
  BY <1>1
<1> QED  BY <1>2, <1>3

\* All references are read.
LEMMA GotOutcome ==
  ASSUME ResolveInv, AllGot
  PROVE  Outcome(call.since) /\ call' = NoCall
<1>1. call # NoCall /\ call.step = "get" /\ call.next > Len(call.refs)  BY DEF AllGot, NoCall
<1>2. InCall(call)  BY <1>1 DEF ResolveInv
<1>3. ~NoOp /\ Forgotten(refs) # <<>>  BY <1>1, <1>2 DEF InCall, NoOp
<1>4. call.refs = refs  BY <1>2, <1>3, NotForgotten DEF InCall
<1>5. refs \in Seq(Reference)  BY DEF ResolveInv, ResolveTyped, IsSpec
<1>6. call.next - 1 = Len(refs)
  <2>1. call.next \in 1 .. Len(refs) + 1  BY <1>2, <1>4 DEF InCall
  <2> QED  BY <1>1, <1>4, <1>5, <2>1
<1> DEFINE m == call.map
<1>7. Holding(m, refs, Len(refs)) /\ (call.since = changes => Current(m, refs, Len(refs)))
  BY <1>2, <1>4, <1>6 DEF InCall
<1>8. PICK rsp \in Mapped(m) : Finish(rsp)  BY DEF AllGot
<1>9. call' = NoCall /\ SetResolved(rsp, call.since)  BY <1>8 DEF Finish
<1> HIDE DEF m
<1>10. PICK keys \in sortMapByKeys(m) :
         /\ rsp.values = keys /\ rsp.refs = [i \in DOMAIN keys |-> m[keys[i]]]
         /\ rsp = Response(rsp.values, rsp.refs, Validate(rsp.values, rsp.refs))
  BY MappedIs
<1> DEFINE rs == rsp.refs
<1>11. CASE rsp.err
  <2>1. UNCHANGED <<field, refs, resolved>>  BY <1>9, <1>11, Setting
  <2> QED  BY <1>9, <2>1 DEF Outcome
<1>12. CASE ~rsp.err
  <2>1. Sets(Filled(ToPtrValues(keys)), rs, call.since)  BY <1>9, <1>10, <1>12, Setting
  <2>2. ~Validate(keys, rs)  BY <1>10, <1>12 DEF Response
  <2>3. keys # <<>>  BY <2>2 DEF Validate
  <2>4. DOMAIN m \subseteq Nat  BY <1>7 DEF Holding
  <2>5. /\ keys \in Seq(Nat) /\ Increasing(keys)
        /\ \A i \in DOMAIN keys : keys[i] \in DOMAIN m
        /\ \A v \in DOMAIN m : \E i \in DOMAIN keys : keys[i] = v
    BY <2>4, Keys
  <2>6. DOMAIN rs = DOMAIN keys /\ \A i \in DOMAIN keys : rs[i] = m[keys[i]]  BY <1>10
  <2>7. ASSUME NEW i \in DOMAIN keys PROVE \E j \in DOMAIN refs : rs[i] = refs[j]
    <3>1. PICK j \in 1 .. Len(refs) : m[keys[i]] = refs[j]  BY <1>7, <2>5 DEF Holding
    <3> QED  BY <1>5, <2>6, <3>1
  <2>8. rs \in Seq(Reference) /\ Len(rs) = Len(keys)
    <3>1. \A i \in DOMAIN keys : rs[i] \in Reference  BY <1>5, <2>7
    <3>2. DOMAIN keys = 1 .. Len(keys) /\ Len(keys) \in Nat  BY <2>5
    <3>3. rs = [i \in 1 .. Len(keys) |-> m[keys[i]]]  BY <1>10, <3>2
    <3>4. rs \in [1 .. Len(keys) -> Reference]  BY <2>6, <3>1, <3>2, <3>3
    <3> HIDE DEF rs
    <3> QED  BY <3>2, <3>4
  <2>9. rs # <<>>
    <3>1. keys \in Seq(Nat) /\ Len(keys) # 0  BY <2>3, <2>5
    <3> HIDE DEF rs
    <3> QED  BY <2>8, <3>1
  <2>10. ASSUME Undisturbed
         PROVE  /\ \A i \in DOMAIN rs : Target(rs[i]) \in Present /\ keys[i] = targets[Target(rs[i])]
                /\ \A i \in DOMAIN refs : \E k \in DOMAIN rs : keys[k] = targets[Target(refs[i])]
    <3>1. Current(m, refs, Len(refs))  BY <1>1, <1>7, <2>10 DEF Undisturbed
    <3>2. ASSUME NEW i \in DOMAIN keys PROVE Target(rs[i]) \in Present /\ keys[i] = targets[Target(rs[i])]
      <4>1. PICK j \in 1 .. Len(refs) : m[keys[i]] = refs[j] /\ targets[Target(refs[j])] = keys[i]
        BY <2>5, <3>1, Zenon DEF Current
      <4>2. Target(refs[j]) \in Present  BY <3>1, Zenon DEF Current
      <4>3. rs[i] = refs[j]  BY <2>6, <4>1
      <4> QED  BY <4>1, <4>2, <4>3, Zenon
    <3>3. ASSUME NEW i \in DOMAIN refs PROVE \E k \in DOMAIN keys : keys[k] = targets[Target(refs[i])]
      <4>1. i \in 1 .. Len(refs)  BY <1>5
      <4>2. targets[Target(refs[i])] \in DOMAIN m  BY <3>1, <4>1, Zenon DEF Current
      <4> QED  BY <2>5, <4>2, Zenon
    <3> QED  BY <2>6, <3>2, <3>3, Zenon
  <2>11. LedBy(keys, rs)
    <3>1. \A i \in DOMAIN rs : InRange(rs[i], refs)  BY <2>6, <2>7, Zenon DEF InRange
    <3>2. kind.multi  BY <1>2 DEF InCall
    <3> HIDE DEF rs
    <3> QED  BY <2>5, <2>8, <2>9, <2>10, <3>1, <3>2, Zenon DEF LedBy
  <2> HIDE DEF rs
  <2> QED  BY <1>3, <1>9, <2>1, <2>11, Zenon DEF Outcome
<1> QED  BY <1>11, <1>12

\* The targets that the selector selects are listed.
LEMMA ListOutcome ==
  ASSUME ResolveInv, ListSelected
  PROVE  Outcome(call.since) /\ call' = NoCall
<1>1. call # NoCall /\ call.step = "list"  BY DEF ListSelected, NoCall
<1>2. InCall(call)  BY <1>1 DEF ResolveInv
<1>3. ~NoOp /\ Forgotten(refs) = <<>>  BY <1>1, <1>2 DEF InCall, NoOp
<1>4. Selector.on  BY <1>3, NotForgotten
<1>m. PICK m \in ListMaps : \E rsp \in Mapped(m) : Finish([rsp EXCEPT !.err = getResolutionError(Selector.optional, @)])
  BY DEF ListSelected
<1>5. PICK rsp \in Mapped(m) : Finish([rsp EXCEPT !.err = getResolutionError(Selector.optional, @)])
  BY <1>m
<1> DEFINE given == [rsp EXCEPT !.err = getResolutionError(Selector.optional, @)]
<1>6. call' = NoCall /\ SetResolved(given, call.since)  BY <1>5 DEF Finish
<1>7. PICK keys \in sortMapByKeys(m) :
        /\ rsp.values = keys /\ rsp.refs = [i \in DOMAIN keys |-> m[keys[i]]]
        /\ rsp = Response(rsp.values, rsp.refs, Validate(rsp.values, rsp.refs))
  BY MappedIs
<1>8. given.values = keys /\ given.refs = [i \in DOMAIN keys |-> m[keys[i]]]  BY <1>7 DEF Response
<1> HIDE DEF given
<1>9. CASE given.err
  <2>1. UNCHANGED <<field, refs, resolved>>  BY <1>6, <1>9, Setting
  <2> QED  BY <1>6, <2>1 DEF Outcome
<1>10. CASE ~given.err
  <2>1. Sets(Filled(ToPtrValues(keys)), given.refs, call.since)  BY <1>6, <1>8, <1>10, Setting
  <2>2. kind.multi  BY <1>2 DEF InCall
  <2>3. Filled(ToPtrValues(keys)) = ToPtrValues(keys)  BY <2>2 DEF Filled
  <2>4. Picked(ToPtrValues(keys), given.refs)  BY <1>8, <2>2 DEF Picked
  <2> QED  BY <1>3, <1>4, <1>6, <2>1, <2>3, <2>4 DEF Outcome
<1> QED  BY <1>9, <1>10

-----------------------------------------------------------------------------
(* What a selector gives.                                                  *)

\* The reference made of a target leads to it.
LEMMA SelectedIs ==
  ASSUME kind \in Kinds, NEW t \in Selected
  PROVE  /\ t \in Present /\ t \in Labelled /\ t[1] = Scope(Selector.namespace)
         /\ ControllersMustMatch => t \in Siblings
         /\ ReferenceTo(t) \in Reference /\ ~ReferenceTo(t).optional /\ Target(ReferenceTo(t)) = t
<1>1. /\ t \in Present /\ t \in Labelled /\ t[1] = Scope(Selector.namespace)
      /\ ControllersMustMatch => t \in Siblings
  BY DEF Selected
<1>2. t \in Targets  BY <1>1 DEF Present
<1>3. t \in STRING \X STRING /\ t[1] # ""  BY <1>2, TargetsAssumption, Zenon
<1>4. t = <<t[1], t[2]>> /\ t[1] \in STRING /\ t[2] \in STRING
  <2>1. t \in STRING \X STRING  BY <1>3, Zenon
  <2> QED  BY <2>1
<1>5. ReferenceTo(t) \in Reference /\ ~ReferenceTo(t).optional
  <2>1. (IF kind.namespaced THEN t[1] ELSE "") \in {""} \cup STRING  BY <1>4, Zenon
  <2> QED  BY <1>4, <2>1, Zenon DEF ReferenceTo, Reference
<1>6. ReferenceTo(t).name = t[2] /\ ReferenceTo(t).namespace = IF kind.namespaced THEN t[1] ELSE ""  BY DEF ReferenceTo
<1>7. Scope(ReferenceTo(t).namespace) = t[1]
  <2>1. CASE kind.namespaced  BY <1>3, <1>6, <2>1, Zenon DEF Scope
  <2>2. CASE ~kind.namespaced  BY <1>1, <2>2 DEF Scope
  <2> QED  BY <2>1, <2>2
<1>8. Target(ReferenceTo(t)) = t  BY <1>4, <1>6, <1>7, Zenon DEF Target
<1> QED  BY <1>1, <1>5, <1>8

\* A map of what is listed has the values of the selected targets, each with a reference to one.
LEMMA ListMapIs ==
  ASSUME ResolveTyped, NEW m \in ListMaps
  PROVE  /\ DOMAIN m \subseteq Nat /\ DOMAIN m = {targets[t] : t \in Selected}
         /\ \A v \in DOMAIN m : \E t \in Selected : targets[t] = v /\ m[v] = ReferenceTo(t)
<1>1. DOMAIN m = {targets[t] : t \in Selected}  BY DEF ListMaps
<1>2. \A v \in DOMAIN m : \E t \in Selected : targets[t] = v /\ m[v] = ReferenceTo(t)  BY <1>1 DEF ListMaps
<1>3. \A t \in Selected : targets[t] \in Nat  BY ValuesOfTargets DEF ResolveTyped, Selected
<1> QED  BY <1>1, <1>2, <1>3

\* What is picked are references to selected targets, with their values.
LEMMA PickedIs ==
  ASSUME ResolveTyped, NEW f, NEW rs, Picked(f, rs)
  PROVE  /\ rs \in Seq(Reference)
         /\ \E values \in Seq(Nat) :
              /\ Len(values) = Len(rs) /\ f = Filled(ToPtrValues(values)) /\ (~kind.multi => Len(values) <= 1)
              /\ \A i \in DOMAIN rs : \E t \in Selected : rs[i] = ReferenceTo(t) /\ values[i] = targets[t]
<1>1. kind \in Kinds  BY DEF ResolveTyped
<1>2. CASE ~kind.multi /\ Selected = {} /\ f = <<>> /\ rs = <<>>
  <2>1. <<>> \in Seq(Nat) /\ Len(<<>>) = 0 /\ DOMAIN <<>> = {} /\ <<>> \in Seq(Reference)  OBVIOUS
  <2>2. Len(<<>>) <= 1  BY <2>1
  <2>3. f = Filled(ToPtrValues(<<>>))  BY <1>2, NothingWritten
  <2> QED  BY <1>2, <2>1, <2>2, <2>3, Zenon
<1>3. ASSUME ~kind.multi, NEW t \in Selected, f = Filled(ToPtrValues(<<targets[t]>>)), rs = <<ReferenceTo(t)>>
      PROVE  /\ rs \in Seq(Reference)
             /\ \E values \in Seq(Nat) :
                  /\ Len(values) = Len(rs) /\ f = Filled(ToPtrValues(values)) /\ (~kind.multi => Len(values) <= 1)
                  /\ \A i \in DOMAIN rs : \E u \in Selected : rs[i] = ReferenceTo(u) /\ values[i] = targets[u]
  <2>1. ReferenceTo(t) \in Reference /\ t \in Present  BY <1>1, SelectedIs
  <2>2. targets[t] \in Nat  BY <2>1, ValuesOfTargets DEF ResolveTyped
  <2>3. rs \in Seq(Reference) /\ Len(rs) = 1 /\ \A i \in DOMAIN rs : i = 1 /\ rs[i] = ReferenceTo(t)  BY <1>3, <2>1
  <2>4. <<targets[t]>> \in Seq(Nat) /\ Len(<<targets[t]>>) = 1 /\ <<targets[t]>>[1] = targets[t]  BY <2>2
  <2>5. \A i \in DOMAIN rs : \E u \in Selected : rs[i] = ReferenceTo(u) /\ <<targets[t]>>[i] = targets[u]
    BY <2>3, <2>4
  <2>6. Len(<<targets[t]>>) = Len(rs) /\ Len(<<targets[t]>>) <= 1  BY <2>3, <2>4
  <2> QED  BY <1>3, <2>3, <2>4, <2>5, <2>6, Zenon
<1>4. ASSUME kind.multi, NEW m \in ListMaps, NEW keys \in sortMapByKeys(m), f = ToPtrValues(keys),
             rs = [i \in DOMAIN keys |-> m[keys[i]]]
      PROVE  /\ rs \in Seq(Reference)
             /\ \E values \in Seq(Nat) :
                  /\ Len(values) = Len(rs) /\ f = Filled(ToPtrValues(values)) /\ (~kind.multi => Len(values) <= 1)
                  /\ \A i \in DOMAIN rs : \E u \in Selected : rs[i] = ReferenceTo(u) /\ values[i] = targets[u]
  <2>1. /\ DOMAIN m \subseteq Nat
        /\ \A v \in DOMAIN m : \E t \in Selected : targets[t] = v /\ m[v] = ReferenceTo(t)
    BY ListMapIs, Zenon
  <2>2. keys \in Seq(Nat) /\ \A i \in DOMAIN keys : keys[i] \in DOMAIN m  BY <2>1, Keys
  <2>3. DOMAIN rs = DOMAIN keys /\ \A i \in DOMAIN keys : rs[i] = m[keys[i]]  BY <1>4
  <2>4. \A i \in DOMAIN rs : \E u \in Selected : rs[i] = ReferenceTo(u) /\ keys[i] = targets[u]
    BY <2>1, <2>2, <2>3
  <2>5. \A i \in DOMAIN rs : rs[i] \in Reference  BY <1>1, <2>4, SelectedIs
  <2>6. DOMAIN keys = 1 .. Len(keys) /\ Len(keys) \in Nat  BY <2>2
  <2>7. rs = [i \in 1 .. Len(keys) |-> m[keys[i]]]  BY <1>4, <2>6
  <2>8. rs \in [1 .. Len(keys) -> Reference]  BY <2>3, <2>5, <2>6, <2>7
  <2>9. rs \in Seq(Reference) /\ Len(rs) = Len(keys)  BY <2>6, <2>8
  <2>10. f = Filled(ToPtrValues(keys))  BY <1>4 DEF Filled
  <2> QED  BY <1>4, <2>2, <2>4, <2>9, <2>10, Zenon
<1> QED  BY <1>2, <1>3, <1>4, Zenon DEF Picked

\* What a resolution sets is as it should be.
LEMMA OutcomeSets ==
  ASSUME ResolveTyped, NEW since, Outcome(since)
  PROVE  \/ UNCHANGED <<field, refs, resolved>>
         \/ /\ IsSpec(kind, field', refs') /\ resolved' = since
            /\ Filled(ToPtrValues(FromPtrValues(field'))) = field'
<1>1. kind \in Kinds /\ IsSpec(kind, field, refs)  BY DEF ResolveTyped
<1>2. CASE UNCHANGED <<field, refs, resolved>>  BY <1>2
<1>3. CASE Sets(Filled(ToPtrValues(FromPtrValues(field))), refs, since)
  <2>1. FromPtrValues(field) \in Seq(Nat) /\ Len(FromPtrValues(field)) = Len(field)  BY <1>1, NoOpKeeps
  <2>2. refs \in Seq(Reference) /\ (~kind.multi => Len(field) <= 1 /\ Len(refs) <= 1)  BY <1>1 DEF IsSpec
  <2> DEFINE f == Filled(ToPtrValues(FromPtrValues(field)))
  <2>3. IsSpec(kind, f, refs) /\ Filled(ToPtrValues(FromPtrValues(f))) = f  BY <1>1, <2>1, <2>2, SetsField
  <2> HIDE DEF f
  <2>4. field' = f /\ refs' = refs /\ resolved' = since  BY <1>3 DEF Sets, f
  <2> QED  BY <2>3, <2>4
<1>4. ASSUME NEW values \in Seq(Nat), NEW rs \in Seq(Reference), ~kind.multi => Len(values) <= 1,
             Len(values) = Len(rs), Sets(Filled(ToPtrValues(values)), rs, since)
      PROVE  /\ IsSpec(kind, field', refs') /\ resolved' = since
             /\ Filled(ToPtrValues(FromPtrValues(field'))) = field'
  <2> DEFINE f == Filled(ToPtrValues(values))
  <2>1. IsSpec(kind, f, rs) /\ Filled(ToPtrValues(FromPtrValues(f))) = f  BY <1>1, <1>4, SetsField
  <2>2. field' = f /\ refs' = rs /\ resolved' = since  BY <1>4 DEF Sets
  <2> HIDE DEF f
  <2> QED  BY <2>1, <2>2
<1>5. CASE Sets(<<>>, <<>>, since)
  <2>1. <<>> \in Seq(Nat) /\ Len(<<>>) = 0 /\ <<>> \in Seq(Reference)  OBVIOUS
  <2>2. Sets(Filled(ToPtrValues(<<>>)), <<>>, since)  BY <1>5, NothingWritten
  <2>3. ~kind.multi => Len(<<>>) <= 1  BY <2>1
  <2> QED  BY <1>4, <2>1, <2>2, <2>3, Zenon
<1>6. ASSUME NEW f, NEW rs, Picked(f, rs), Sets(f, rs, since)
      PROVE  /\ IsSpec(kind, field', refs') /\ resolved' = since
             /\ Filled(ToPtrValues(FromPtrValues(field'))) = field'
  <2>1. rs \in Seq(Reference)  BY <1>6, PickedIs
  <2>2. PICK values \in Seq(Nat) : /\ Len(values) = Len(rs) /\ f = Filled(ToPtrValues(values))
                                   /\ ~kind.multi => Len(values) <= 1
    BY <1>6, PickedIs
  <2>3. Sets(Filled(ToPtrValues(values)), rs, since)  BY <1>6, <2>2
  <2> HIDE DEF Sets
  <2> QED  BY <1>4, <2>1, <2>2, <2>3
<1>7. ASSUME NEW values, NEW rs, LedBy(values, rs), Sets(Filled(ToPtrValues(values)), rs, since)
      PROVE  /\ IsSpec(kind, field', refs') /\ resolved' = since
             /\ Filled(ToPtrValues(FromPtrValues(field'))) = field'
  BY <1>4, <1>7, Zenon DEF LedBy
<1> QED  BY <1>2, <1>3, <1>5, <1>6, <1>7, Zenon DEF Outcome

-----------------------------------------------------------------------------
(* The invariant.                                                          *)

\* A resolution in progress depends on nothing but the resource and, while nothing changes, the targets.
LEMMA InCallKept ==
  ASSUME UNCHANGED <<kind, field, refs, deleted>>, changes \in Nat, InCall(call'),
         \/ UNCHANGED <<targets, changes>>
         \/ changes' = changes + 1
  PROVE  InCall(call)'
<1> DEFINE c == call'
<1>1. IsNoOp(FromPtrValues(field), refs)' <=> IsNoOp(FromPtrValues(field), refs)
  BY DEF IsNoOp, FromPtrValues, alwaysResolve, Selector
<1>2. Forgotten(refs)' = Forgotten(refs)  BY DEF Forgotten, Selector
<1>3. c.since \in Nat /\ c.since <= changes /\ Holding(c.map, c.refs, c.next - 1)  BY DEF InCall
<1>4. ASSUME c.since = changes' PROVE Current(call.map, call.refs, call.next - 1)'
  <2>1. UNCHANGED <<targets, changes>>  BY <1>3, <1>4
  <2>2. Current(c.map, c.refs, c.next - 1)  BY <1>4, <2>1 DEF InCall
  <2>3. \A r : Target(r)' = Target(r)  BY DEF Target, Scope
  <2>4. Present' = Present  BY <2>1 DEF Present
  <2> QED  BY <2>1, <2>2, <2>4, Zenon DEF Current, Target, Scope
<1>5. c.since <= changes'  BY <1>3
<1>6. Holding(call.map, call.refs, call.next - 1)'  BY <1>3 DEF Holding
<1> QED  BY <1>1, <1>2, <1>3, <1>4, <1>5, <1>6 DEF InCall

\* Every step keeps the invariant.
LEMMA ResolveKeeps == ResolveInv /\ [ResolveNext]_resolveVars => ResolveInv'
<1> SUFFICES ASSUME ResolveInv, [ResolveNext]_resolveVars PROVE ResolveInv'  OBVIOUS
<1>1. ResolveTyped /\ (call = NoCall \/ InCall(call))  BY DEF ResolveInv
<1>2. changes \in Nat /\ resolved \in Int /\ resolved <= changes  BY <1>1 DEF ResolveTyped
<1>3. ASSUME NEW since \in Nat, since <= changes, Outcome(since), UNCHANGED <<kind, deleted, targets, changes>>
      PROVE  ResolveTyped'
  <2>1. IsSpec(kind, field', refs') /\ resolved' \in Int /\ resolved' <= changes
    BY <1>1, <1>2, <1>3, OutcomeSets DEF ResolveTyped
  <2>2. IsSpec(kind, field, refs)'  BY <1>3, <2>1 DEF IsSpec, Holds
  <2> QED  BY <1>1, <1>3, <2>1, <2>2 DEF ResolveTyped
<1>4. CASE ResolveOne /\ ~kind.multi
  <2>1. Outcome(changes) /\ call' = NoCall  BY <1>4, OneOutcome DEF ResolveOne
  <2>2. UNCHANGED <<kind, deleted, targets, changes>>  BY <1>4 DEF ResolveOne
  <2> QED  BY <1>2, <1>3, <2>1, <2>2 DEF ResolveInv, NoCall
<1>5. CASE BeginMultiple /\ kind.multi
  <2>1. Outcome(changes) /\ (call' = NoCall \/ InCall(call'))  BY <1>5, BeginOutcome
  <2>2. UNCHANGED <<kind, deleted, targets, changes>>  BY <1>5 DEF BeginMultiple
  <2>3. ResolveTyped'  BY <1>2, <1>3, <2>1, <2>2
  <2>4. CASE UNCHANGED call  BY <1>5, <2>3, <2>4 DEF ResolveInv, BeginMultiple, NoCall
  <2>5. CASE call' # call
    <3>1. UNCHANGED <<field, refs>>  BY <1>5, <2>5, Zenon DEF BeginMultiple
    <3>2. call = NoCall  BY <1>5 DEF BeginMultiple
    <3>3. InCall(call')  BY <2>1, <2>5, <3>2
    <3> QED  BY <1>2, <2>2, <2>3, <3>1, <3>3, InCallKept DEF ResolveInv
  <2> QED  BY <2>4, <2>5
<1>6. CASE GetNext
  <2>1. Outcome(call.since) /\ (call' = NoCall \/ InCall(call'))  BY <1>6, GetOutcome
  <2>2. UNCHANGED <<kind, deleted, targets, changes>>  BY <1>6, Zenon DEF GetNext, Finish
  <2>3. call.since \in Nat /\ call.since <= changes  BY <1>1, <1>6 DEF GetNext, NoCall, InCall
  <2>4. ResolveTyped'  BY <1>3, <2>1, <2>2, <2>3
  <2>5. CASE call' = NoCall  BY <2>4, <2>5 DEF ResolveInv, NoCall
  <2>6. CASE call' # NoCall
    <3>1. UNCHANGED <<field, refs>>  BY <1>6, <2>6, Zenon DEF GetNext, Finish
    <3> QED  BY <1>2, <2>1, <2>2, <2>4, <2>6, <3>1, InCallKept DEF ResolveInv
  <2> QED  BY <2>5, <2>6
<1>7. CASE AllGot \/ ListSelected
  <2>1. Outcome(call.since) /\ call' = NoCall  BY <1>7, GotOutcome, ListOutcome
  <2>2. UNCHANGED <<kind, deleted, targets, changes>>  BY <1>7, Zenon DEF AllGot, ListSelected, Finish
  <2>3. call.since \in Nat /\ call.since <= changes  BY <1>1, <1>7 DEF AllGot, ListSelected, NoCall, InCall
  <2> QED  BY <1>3, <2>1, <2>2, <2>3 DEF ResolveInv, NoCall
<1>8. CASE Fail
  <2>1. ResolveTyped'  BY <1>1, <1>8 DEF ResolveTyped, Fail, IsSpec, Holds
  <2> QED  BY <1>8, <2>1 DEF Fail, ResolveInv, NoCall
<1>9. CASE TargetChanges
  <2>1. UNCHANGED <<kind, call, resolved, field, refs, deleted>> /\ changes' = changes + 1  BY <1>9 DEF TargetChanges, Change
  <2>2. targets' \in [Targets -> {-1, 0} \cup Values]  BY <1>1, <1>9 DEF TargetChanges, ResolveTyped
  <2>3. IsSpec(kind, field, refs)'  BY <1>1, <2>1 DEF ResolveTyped, IsSpec, Holds
  <2>4. ResolveTyped'  BY <1>1, <1>2, <2>1, <2>2, <2>3 DEF ResolveTyped
  <2>5. CASE call = NoCall  BY <2>1, <2>4, <2>5 DEF ResolveInv, NoCall
  <2>6. CASE InCall(call)
    <3>1. InCall(call')  BY <2>1, <2>6
    <3> QED  BY <1>2, <2>1, <2>4, <3>1, InCallKept DEF ResolveInv
  <2> QED  BY <1>1, <2>5, <2>6
<1>10. CASE UserClears \/ UserDeletesResource
  <2>1. UNCHANGED <<kind, call, resolved, refs, targets>> /\ changes' = changes + 1 /\ call = NoCall
    BY <1>10 DEF UserClears, UserDeletesResource, Change
  <2>2. (field' = field \/ field' = <<>>) /\ deleted' \in BOOLEAN
    BY <1>1, <1>10, Zenon DEF UserClears, UserDeletesResource, ResolveTyped
  <2>3. IsSpec(kind, field, refs)'
    <3>1. CASE field' = field  BY <1>1, <2>1, <3>1 DEF ResolveTyped, IsSpec, Holds
    <3>2. CASE field' = <<>>  BY <1>1, <2>1, <3>2 DEF ResolveTyped, IsSpec
    <3> QED  BY <2>2, <3>1, <3>2
  <2>4. ResolveTyped'  BY <1>1, <1>2, <2>1, <2>2, <2>3 DEF ResolveTyped
  <2> QED  BY <2>1, <2>4 DEF ResolveInv, NoCall
<1>11. CASE UNCHANGED resolveVars
  <2>1. UNCHANGED <<kind, field, refs, deleted, targets, call, resolved, changes>>  BY <1>11 DEF resolveVars
  <2>2. ResolveTyped'  BY <1>1, <2>1 DEF ResolveTyped, IsSpec, Holds
  <2>3. CASE call = NoCall  BY <2>1, <2>2, <2>3 DEF ResolveInv, NoCall
  <2>4. CASE InCall(call)
    <3>1. InCall(call')  BY <2>1, <2>4
    <3> QED  BY <1>2, <2>1, <2>2, <3>1, InCallKept DEF ResolveInv
  <2> QED  BY <1>1, <2>3, <2>4
<1> QED
  BY <1>4, <1>5, <1>6, <1>7, <1>8, <1>9, <1>10, <1>11
     DEF ResolveNext, Step, Resolve, NamespacedResolve, ResolveMultiple, NamespacedResolveMultiple

\* It holds at first.
LEMMA ResolveStart == ResolveInit => ResolveInv
<1> SUFFICES ASSUME ResolveInit PROVE ResolveInv  OBVIOUS
<1>1. PICK r \in Resources : kind = r.kind /\ field = r.field /\ refs = r.refs  BY DEF ResolveInit
<1>2. kind \in Kinds /\ IsSpec(kind, field, refs)  BY <1>1, ResourcesAssumption
<1>3. targets \in [Targets -> {-1, 0} \cup Values]  BY TargetsAssumption, Zenon DEF ResolveInit
<1>4. deleted \in BOOLEAN /\ call = NoCall  BY Zenon DEF ResolveInit
<1>5. changes = 0 /\ resolved = -1  BY DEF ResolveInit
<1>6. changes \in Nat /\ resolved \in Int /\ resolved <= changes  BY <1>5
<1> QED  BY <1>2, <1>3, <1>4, <1>6 DEF ResolveInv, ResolveTyped

\* The invariant holds of every call of Resolve, and of every sequence of them.
LEMMA Resolution == ResolveSpec => []ResolveInv
  BY ResolveStart, ResolveKeeps, PTL DEF ResolveSpec

-----------------------------------------------------------------------------
(* What every resolution keeps to.                                         *)

\* What a step of a resolution comes to.
LEMMA StepOutcome ==
  ASSUME ResolveInv, Step
  PROVE  /\ UNCHANGED <<kind, deleted, targets, changes>>
         /\ \E since \in Nat : Outcome(since) /\ (Undisturbed <=> since = changes)
<1>1. ResolveTyped /\ (call = NoCall \/ InCall(call)) /\ changes \in Nat  BY DEF ResolveInv, ResolveTyped
<1>2. CASE ResolveOne /\ ~kind.multi
  <2>1. Outcome(changes) /\ Undisturbed  BY <1>2, OneOutcome DEF ResolveOne, Undisturbed
  <2>2. UNCHANGED <<kind, deleted, targets, changes>>  BY <1>2 DEF ResolveOne
  <2> QED  BY <1>1, <2>1, <2>2
<1>3. CASE BeginMultiple /\ kind.multi
  <2>1. Outcome(changes) /\ Undisturbed  BY <1>3, BeginOutcome
  <2>2. UNCHANGED <<kind, deleted, targets, changes>>  BY <1>3 DEF BeginMultiple
  <2> QED  BY <1>1, <2>1, <2>2
<1>4. CASE GetNext \/ AllGot \/ ListSelected
  <2>1. Outcome(call.since)  BY <1>4, GetOutcome, GotOutcome, ListOutcome
  <2>2. UNCHANGED <<kind, deleted, targets, changes>>
    <3>1. CASE GetNext  BY <3>1, Zenon DEF GetNext, Finish
    <3>2. CASE AllGot  BY <3>2 DEF AllGot, Finish
    <3>3. CASE ListSelected  BY <3>3 DEF ListSelected, Finish
    <3> QED  BY <1>4, <3>1, <3>2, <3>3
  <2>3. call # NoCall
    <3>1. call.step = "get" \/ call.step = "list"  BY <1>4, Zenon DEF GetNext, AllGot, ListSelected
    <3> QED  BY <3>1 DEF NoCall
  <2>4. call.since \in Nat /\ (Undisturbed <=> call.since = changes)  BY <1>1, <2>3 DEF InCall, Undisturbed
  <2> QED  BY <2>1, <2>2, <2>4
<1> QED  BY <1>2, <1>3, <1>4 DEF Step, Resolve, NamespacedResolve, ResolveMultiple, NamespacedResolveMultiple

\* Only a resolution changes the references.
LEMMA OthersKeepRefs ==
  ASSUME [ResolveNext]_resolveVars, ~Step
  PROVE  UNCHANGED refs
  BY DEF ResolveNext, Fail, TargetChanges, UserClears, UserDeletesResource, resolveVars

\* The five outcomes.
LEMMA Outcomes ==
  ASSUME ResolveTyped, NEW since, Outcome(since), refs' # refs
  PROVE  \/ ~NoOp /\ Nowhere /\ refs' = <<>>
         \/ /\ ~NoOp /\ Forgotten(refs) # <<>>
            /\ \E values : LedBy(values, refs') /\ field' = Filled(ToPtrValues(values))
         \/ ~NoOp /\ Forgotten(refs) = <<>> /\ Selector.on /\ Picked(field', refs')
  BY Zenon DEF Outcome, Sets

\* ValuesOfReferences of a step.
LEMMA StepValues ==
  ASSUME ResolveInv, Step, Undisturbed, refs' # refs, refs' # <<>>
  PROVE  field' = Filled(ToPtrValues([i \in DOMAIN refs' |-> targets[Target(refs'[i])]]))
<1>1. ResolveTyped  BY DEF ResolveInv
<1>2. PICK since \in Nat : Outcome(since)  BY StepOutcome
<1>3. ASSUME NEW values \in Seq(Nat), refs' \in Seq(Reference), Len(values) = Len(refs'),
             field' = Filled(ToPtrValues(values)), \A i \in DOMAIN refs' : values[i] = targets[Target(refs'[i])]
      PROVE  field' = Filled(ToPtrValues([i \in DOMAIN refs' |-> targets[Target(refs'[i])]]))
  <2>1. values = [i \in 1 .. Len(values) |-> values[i]]  BY <1>3
  <2>2. DOMAIN refs' = 1 .. Len(values)  BY <1>3
  <2>3. values = [i \in DOMAIN refs' |-> targets[Target(refs'[i])]]  BY <1>3, <2>1, <2>2
  <2> QED  BY <1>3, <2>3
<1>4. ASSUME NEW values, LedBy(values, refs'), field' = Filled(ToPtrValues(values))
      PROVE  field' = Filled(ToPtrValues([i \in DOMAIN refs' |-> targets[Target(refs'[i])]]))
  BY <1>3, <1>4, Zenon DEF LedBy
<1>5. ASSUME Picked(field', refs')
      PROVE  field' = Filled(ToPtrValues([i \in DOMAIN refs' |-> targets[Target(refs'[i])]]))
  <2>1. refs' \in Seq(Reference)  BY <1>1, <1>5, PickedIs
  <2>2. PICK values \in Seq(Nat) :
          /\ Len(values) = Len(refs') /\ field' = Filled(ToPtrValues(values))
          /\ \A i \in DOMAIN refs' : \E t \in Selected : refs'[i] = ReferenceTo(t) /\ values[i] = targets[t]
    BY <1>1, <1>5, PickedIs
  <2>3. ASSUME NEW i \in DOMAIN refs' PROVE values[i] = targets[Target(refs'[i])]
    <3>1. PICK t \in Selected : refs'[i] = ReferenceTo(t) /\ values[i] = targets[t]  BY <2>2
    <3>2. Target(ReferenceTo(t)) = t  BY <1>1, SelectedIs DEF ResolveTyped
    <3> QED  BY <3>1, <3>2
  <2> QED  BY <1>3, <2>1, <2>2, <2>3
<1> QED  BY <1>1, <1>2, <1>4, <1>5, Outcomes, Zenon

\* SelectedInScope of a step.
LEMMA StepInScope ==
  ASSUME ResolveInv, Step, NEW i \in DOMAIN refs', ~InRange(refs'[i], refs)
  PROVE  /\ Target(refs'[i]) \in Labelled \cap Present /\ Target(refs'[i])[1] = Scope(Selector.namespace)
         /\ Selector.controller => Target(refs'[i]) \in Siblings
<1>1. ResolveTyped  BY DEF ResolveInv
<1>2. PICK since \in Nat : Outcome(since)  BY StepOutcome
<1>3. refs' # refs  BY DEF InRange
<1>4. CASE refs' = <<>>  BY <1>4
<1>5. ASSUME NEW values, LedBy(values, refs') PROVE FALSE  BY <1>5 DEF LedBy
<1>6. ASSUME Picked(field', refs'), Selector.on
      PROVE  /\ Target(refs'[i]) \in Labelled \cap Present /\ Target(refs'[i])[1] = Scope(Selector.namespace)
             /\ Selector.controller => Target(refs'[i]) \in Siblings
  <2>1. PICK t \in Selected : refs'[i] = ReferenceTo(t)  BY <1>1, <1>6, PickedIs
  <2>2. /\ t \in Present /\ t \in Labelled /\ t[1] = Scope(Selector.namespace)
        /\ ControllersMustMatch => t \in Siblings /\ Target(ReferenceTo(t)) = t
    BY <1>1, SelectedIs DEF ResolveTyped
  <2>3. Target(refs'[i]) = t  BY <1>1, <2>1, SelectedIs DEF ResolveTyped
  <2> QED  BY <1>6, <2>2, <2>3 DEF ControllersMustMatch
<1> QED  BY <1>1, <1>2, <1>3, <1>4, <1>5, <1>6, Outcomes, Zenon

\* RequiredKept of a step.
LEMMA StepKeepsRequired ==
  ASSUME ResolveInv, Step, NEW i \in DOMAIN refs, Undisturbed, ~Chosen, ~refs[i].optional, ~InRange(refs[i], refs')
  PROVE  \E j \in DOMAIN refs \ {i} : \/ refs[j].optional /\ Target(refs[j]) \notin Present
                                      \/ targets[Target(refs[j])] = targets[Target(refs[i])]
<1>1. ResolveTyped  BY DEF ResolveInv
<1>2. PICK since \in Nat : Outcome(since)  BY StepOutcome
<1>3. refs' # refs  BY DEF InRange
<1>4. CASE Nowhere
  <2>1. PICK j \in DOMAIN refs : refs[j].optional /\ Target(refs[j]) \notin Present  BY <1>4 DEF Nowhere
  <2>2. j # i  BY <2>1
  <2> QED  BY <2>1, <2>2
<1>5. ASSUME NEW values, LedBy(values, refs')
      PROVE  \E j \in DOMAIN refs \ {i} : targets[Target(refs[j])] = targets[Target(refs[i])]
  <2>1. PICK k \in DOMAIN refs' : values[k] = targets[Target(refs[i])]  BY <1>5 DEF LedBy
  <2>2. values[k] = targets[Target(refs'[k])] /\ InRange(refs'[k], refs)  BY <1>5 DEF LedBy
  <2>3. PICK j \in DOMAIN refs : refs[j] = refs'[k]  BY <2>2 DEF InRange
  <2>4. j # i  BY <2>3 DEF InRange
  <2>5. targets[Target(refs[j])] = targets[Target(refs[i])]  BY <2>1, <2>2, <2>3
  <2> QED  BY <2>4, <2>5
<1>6. CASE Forgotten(refs) = <<>>  BY <1>6 DEF Forgotten, Chosen
<1> QED  BY <1>1, <1>2, <1>3, <1>4, <1>5, <1>6, Outcomes, Zenon

\* SetValuesStay of a step.
LEMMA StepLeavesSet ==
  ASSUME ResolveInv, Step, field # <<>>, ~Always
  PROVE  UNCHANGED refs /\ (UNCHANGED field \/ kind.type = "float")
<1>1. ResolveTyped  BY DEF ResolveInv
<1>2. kind \in Kinds /\ IsSpec(kind, field, refs) /\ field \in Seq(Nat)  BY <1>1 DEF ResolveTyped, IsSpec
<1>3. PICK since \in Nat : Outcome(since)  BY StepOutcome
<1>4. FromPtrValues(field) \in Seq(Nat) /\ Len(FromPtrValues(field)) = Len(field)  BY <1>2, NoOpKeeps
<1>5. Len(field) # 0  BY <1>2
<1>6. FromPtrValues(field) # <<>>  BY <1>4, <1>5
<1>7. NoOp  BY <1>6 DEF NoOp, IsNoOp, Always, alwaysResolve
<1>8. \/ UNCHANGED <<field, refs>>
      \/ field' = Filled(ToPtrValues(FromPtrValues(field))) /\ refs' = refs
  BY <1>3, <1>7 DEF Outcome, Sets
<1> QED  BY <1>2, <1>8, NoOpKeeps

\* Whatever the resources, targets and references: values are those of the references they are
\* resolved from, a selector selects in its scope, no required reference is lost, and a value that is
\* set stays unless the policy is to resolve always.
THEOREM ResolvesTruly == ResolveSpec => ValuesOfReferences /\ SelectedInScope /\ RequiredKept /\ SetValuesStay
<1>1. ASSUME ResolveInv, [ResolveNext]_resolveVars
      PROVE  [Step /\ Undisturbed /\ refs' # refs /\ refs' # <<>>
                => field' = Filled(ToPtrValues([i \in DOMAIN refs' |-> targets[Target(refs'[i])]]))]_resolveVars
  BY <1>1, StepValues
<1>2. ASSUME ResolveInv, [ResolveNext]_resolveVars
      PROVE  [\A i \in DOMAIN refs' : ~InRange(refs'[i], refs)
                => /\ Target(refs'[i]) \in Labelled \cap Present /\ Target(refs'[i])[1] = Scope(Selector.namespace)
                   /\ Selector.controller => Target(refs'[i]) \in Siblings]_resolveVars
  <2>1. CASE Step  BY <1>2, <2>1, StepInScope
  <2>2. CASE ~Step
    <3>1. UNCHANGED refs  BY <1>2, <2>2, OthersKeepRefs
    <3> QED  BY <3>1 DEF InRange
  <2> QED  BY <2>1, <2>2
<1>3. ASSUME ResolveInv, [ResolveNext]_resolveVars
      PROVE  [\A i \in DOMAIN refs : Undisturbed /\ ~Chosen /\ ~refs[i].optional /\ ~InRange(refs[i], refs')
                => \E j \in DOMAIN refs \ {i} : \/ refs[j].optional /\ Target(refs[j]) \notin Present
                                                \/ targets[Target(refs[j])] = targets[Target(refs[i])]]_resolveVars
  <2>1. CASE Step  BY <1>3, <2>1, StepKeepsRequired, Zenon
  <2>2. CASE ~Step
    <3>1. UNCHANGED refs  BY <1>3, <2>2, OthersKeepRefs
    <3> QED  BY <3>1 DEF InRange
  <2> QED  BY <2>1, <2>2
<1>4. ASSUME ResolveInv, [ResolveNext]_resolveVars
      PROVE  [Step /\ field # <<>> /\ ~Always => UNCHANGED refs /\ (UNCHANGED field \/ kind.type = "float")]_resolveVars
  BY <1>4, StepLeavesSet
<1> QED
  BY <1>1, <1>2, <1>3, <1>4, Resolution, PTL
     DEF ResolveSpec, ValuesOfReferences, SelectedInScope, RequiredKept, SetValuesStay

-----------------------------------------------------------------------------
(* Resolving again.                                                        *)

\* The premise: no resource with a selector is given an optional reference.
SelectorsAlone == \A r \in Resources : Owned(r.kind, r.refs)

-----------------------------------------------------------------------------
(* There is one order of a set of numbers, since every set of them has a  *)
(* least.                                                                 *)

LOCAL INSTANCE WellFoundedInduction

\* Every set of numbers that is not empty has a least element.
LEMMA Least == ASSUME NEW S \in SUBSET Nat, S # {}
               PROVE  \E n \in S : \A m \in S : n <= m
<1>1. IsWellFoundedOn(OpToRel(<, Nat), Nat)  BY NatLessThanWellFounded, Zenon
<1>2. PICK n \in S : \A m \in S : <<m, n>> \notin OpToRel(<, Nat)  BY <1>1, WFMin, Zenon
<1>3. ASSUME NEW m \in S PROVE n <= m
  <2>1. <<m, n>> \notin OpToRel(<, Nat)  BY <1>2, Zenon
  <2>2. ~(m < n)  BY <2>1 DEF OpToRel
  <2> QED  BY <2>2
<1> QED  BY <1>3

\* Of two increasing lists of the same numbers, the first is the beginning of the second.
LEMMA Begins ==
  ASSUME NEW n \in Nat, NEW m \in Nat, NEW k \in [1 .. n -> Nat], NEW l \in [1 .. m -> Nat],
         Increasing(k), Increasing(l),
         \A i \in 1 .. n : \E j \in 1 .. m : k[i] = l[j],
         \A j \in 1 .. m : \E i \in 1 .. n : k[i] = l[j]
  PROVE  \A i \in 1 .. n : i <= m /\ k[i] = l[i]
<1> DEFINE D == {i \in 1 .. n : ~(i <= m /\ k[i] = l[i])}
<1>1. SUFFICES ASSUME D # {} PROVE FALSE  BY Zenon
<1>2. PICK i \in D : \A j \in D : i <= j
  <2>1. D \in SUBSET Nat  OBVIOUS
  <2> HIDE DEF D
  <2> QED  BY <1>1, <2>1, Least, Zenon
<1>3. ASSUME NEW p \in 1 .. n, p < i PROVE p <= m /\ k[p] = l[p]
  <2>1. p \notin D  BY <1>2, <1>3
  <2> QED  BY <2>1
<1>4. PICK j \in 1 .. m : k[i] = l[j]  OBVIOUS
<1>5. i < j
  <2>1. CASE j < i  BY <2>1, <1>3, <1>4 DEF Increasing
  <2>2. CASE j = i  BY <2>2, <1>4, <1>2
  <2> QED  BY <2>1, <2>2
<1>6. i \in 1 .. m /\ l[i] < k[i]  BY <1>4, <1>5 DEF Increasing
<1>7. PICK p \in 1 .. n : k[p] = l[i]  BY <1>6
<1>8. p < i
  <2>1. CASE i < p  BY <2>1, <1>6, <1>7 DEF Increasing
  <2>2. CASE i = p  BY <2>2, <1>6, <1>7
  <2> QED  BY <2>1, <2>2
<1> QED  BY <1>3, <1>6, <1>7, <1>8 DEF Increasing

\* There is only one increasing list of the same numbers.
LEMMA OneOrder ==
  ASSUME NEW n \in Nat, NEW m \in Nat, NEW k \in [1 .. n -> Nat], NEW l \in [1 .. m -> Nat],
         Increasing(k), Increasing(l),
         \A i \in 1 .. n : \E j \in 1 .. m : k[i] = l[j],
         \A j \in 1 .. m : \E i \in 1 .. n : k[i] = l[j]
  PROVE  n = m /\ k = l
<1>1. \A i \in 1 .. n : i <= m /\ k[i] = l[i]  BY Begins, Zenon
<1>2. \A i \in 1 .. m : i <= n /\ l[i] = k[i]
  <2>1. \A j \in 1 .. m : \E i \in 1 .. n : l[j] = k[i]  OBVIOUS
  <2>2. \A i \in 1 .. n : \E j \in 1 .. m : l[j] = k[i]  OBVIOUS
  <2> QED  BY <2>1, <2>2, Begins, Zenon
<1>3. n = m
  <2>1. n > 0 => n <= m  BY <1>1
  <2>2. m > 0 => m <= n  BY <1>2
  <2> QED  BY <2>1, <2>2
<1> QED  BY <1>1, <1>3

\* There is only one list of the elements of a set in order.
LEMMA OneList ==
  ASSUME NEW S, NEW k \in Seq(Nat), NEW l \in Seq(Nat), Increasing(k), Increasing(l),
         \A i \in DOMAIN k : k[i] \in S, \A v \in S : \E i \in DOMAIN k : k[i] = v,
         \A i \in DOMAIN l : l[i] \in S, \A v \in S : \E i \in DOMAIN l : l[i] = v
  PROVE  k = l
<1> DEFINE n == Len(k)
           m == Len(l)
<1>1. n \in Nat /\ m \in Nat  OBVIOUS
<1>2. DOMAIN k = 1 .. n /\ DOMAIN l = 1 .. m  OBVIOUS
<1>3. k \in [1 .. n -> Nat]  OBVIOUS
<1>4. l \in [1 .. m -> Nat]  OBVIOUS
<1> HIDE DEF n, m
<1>5. \A i \in 1 .. n : \E j \in 1 .. m : k[i] = l[j]  BY <1>2
<1>6. \A j \in 1 .. m : \E i \in 1 .. n : k[i] = l[j]  BY <1>2
<1>7. n = m /\ k = l  BY <1>1, <1>3, <1>4, <1>5, <1>6, OneOrder, Zenon
<1> QED  BY <1>7

\* If they are unambiguous, there is only one list of what is selected.
LEMMA OnePick ==
  ASSUME ResolveTyped, Selector.on, ~Ambiguous, NEW f, NEW rs, NEW g, NEW us, Picked(f, rs), Picked(g, us)
  PROVE  f = g /\ rs = us
<1>1. CASE ~kind.multi
  <2>1. \A t, u \in Selected : t = u  BY <1>1 DEF Ambiguous
  <2>2. CASE Selected = {}  BY <1>1, <2>2 DEF Picked
  <2>3. CASE Selected # {}
    <3>1. PICK t \in Selected : f = Filled(ToPtrValues(<<targets[t]>>)) /\ rs = <<ReferenceTo(t)>>
      BY <1>1, <2>3, Zenon DEF Picked
    <3>2. PICK u \in Selected : g = Filled(ToPtrValues(<<targets[u]>>)) /\ us = <<ReferenceTo(u)>>
      BY <1>1, <2>3, Zenon DEF Picked
    <3>3. t = u  BY <2>1
    <3> QED  BY <3>1, <3>2, <3>3, Zenon
  <2> QED  BY <2>2, <2>3
<1>2. CASE kind.multi
  <2>1. \A t, u \in Selected : targets[t] = targets[u] => t = u  BY Zenon DEF Ambiguous
  <2>2. PICK m \in ListMaps : \E keys \in sortMapByKeys(m) : f = ToPtrValues(keys) /\ rs = [i \in DOMAIN keys |-> m[keys[i]]]
    BY <1>2, Zenon DEF Picked
  <2>3. PICK keys \in sortMapByKeys(m) : f = ToPtrValues(keys) /\ rs = [i \in DOMAIN keys |-> m[keys[i]]]  BY <2>2
  <2>4. PICK n \in ListMaps : \E k \in sortMapByKeys(n) : g = ToPtrValues(k) /\ us = [i \in DOMAIN k |-> n[k[i]]]
    BY <1>2, Zenon DEF Picked
  <2>5. PICK k \in sortMapByKeys(n) : g = ToPtrValues(k) /\ us = [i \in DOMAIN k |-> n[k[i]]]  BY <2>4
  <2>6. /\ DOMAIN m \subseteq Nat /\ DOMAIN m = {targets[t] : t \in Selected}
        /\ \A v \in DOMAIN m : \E t \in Selected : targets[t] = v /\ m[v] = ReferenceTo(t)
    BY ListMapIs, Zenon
  <2>7. /\ DOMAIN n \subseteq Nat /\ DOMAIN n = DOMAIN m
        /\ \A v \in DOMAIN n : \E t \in Selected : targets[t] = v /\ n[v] = ReferenceTo(t)
    BY <2>6, ListMapIs, Zenon
  <2>8. ASSUME NEW v \in DOMAIN m PROVE m[v] = n[v]
    <3>1. PICK t \in Selected : targets[t] = v /\ m[v] = ReferenceTo(t)  BY <2>6
    <3>2. PICK u \in Selected : targets[u] = v /\ n[v] = ReferenceTo(u)  BY <2>7
    <3>3. t = u  BY <2>1, <3>1, <3>2
    <3> QED  BY <3>1, <3>2, <3>3
  <2>9. /\ keys \in Seq(Nat) /\ Increasing(keys)
        /\ \A i \in DOMAIN keys : keys[i] \in DOMAIN m
        /\ \A v \in DOMAIN m : \E i \in DOMAIN keys : keys[i] = v
    <3>1. DOMAIN m \subseteq Nat  BY <2>6
    <3> QED  BY <3>1, Keys
  <2>10. /\ k \in Seq(Nat) /\ Increasing(k)
         /\ \A i \in DOMAIN k : k[i] \in DOMAIN m
         /\ \A v \in DOMAIN m : \E i \in DOMAIN k : k[i] = v
    BY <2>7, Keys
  <2>11. k = keys  BY <2>9, <2>10, OneList, Zenon
  <2>12. \A i \in DOMAIN keys : m[keys[i]] = n[keys[i]]  BY <2>8, <2>9
  <2> QED  BY <2>3, <2>5, <2>11, <2>12
<1> QED  BY <1>1, <1>2

\* References that lead to the values in the field, in order, are resolved to themselves.
LEMMA OneLead ==
  ASSUME ResolveTyped, Led(field, refs), Undisturbed, NEW values, NEW rs, LedBy(values, rs)
  PROVE  Filled(ToPtrValues(values)) = field /\ rs = refs
<1> DEFINE w == [i \in DOMAIN refs |-> targets[Target(refs[i])]]
<1>1. refs \in Seq(Reference) /\ values \in Seq(Nat) /\ rs \in Seq(Reference) /\ Len(values) = Len(rs)
  BY DEF ResolveTyped, IsSpec, LedBy
<1>2. DOMAIN refs = 1 .. Len(refs) /\ DOMAIN rs = 1 .. Len(rs) /\ Len(refs) \in Nat /\ Len(rs) \in Nat  BY <1>1
<1>3. ASSUME NEW i \in DOMAIN refs PROVE w[i] \in Nat
  <2>1. Target(refs[i]) \in Present  BY DEF Led
  <2> QED  BY <2>1, ValuesOfTargets DEF ResolveTyped
<1>4. w \in [1 .. Len(refs) -> Nat]  BY <1>2, <1>3
<1>5. Increasing(w)  BY DEF Increasing, Led
<1>6. /\ \A i \in DOMAIN rs : values[i] = targets[Target(rs[i])]
      /\ \A i \in DOMAIN refs : \E k \in DOMAIN rs : values[k] = targets[Target(refs[i])]
      /\ \A i \in DOMAIN rs : InRange(rs[i], refs)
      /\ Increasing(values)
  BY DEF LedBy
<1>7. ASSUME NEW i \in DOMAIN rs PROVE \E j \in DOMAIN refs : rs[i] = refs[j] /\ values[i] = w[j]
  <2>1. PICK j \in DOMAIN refs : refs[j] = rs[i]  BY <1>6 DEF InRange
  <2> QED  BY <1>6, <2>1
<1>8. \A j \in DOMAIN refs : \E i \in DOMAIN rs : values[i] = w[j]  BY <1>6
<1>9. field = Filled(ToPtrValues(w))  BY DEF Led
<1> HIDE DEF w
<1>10. values \in [1 .. Len(rs) -> Nat]  BY <1>1
<1>11. Len(rs) = Len(refs) /\ values = w
  <2>1. \A i \in 1 .. Len(rs) : \E j \in 1 .. Len(refs) : values[i] = w[j]  BY <1>2, <1>7
  <2>2. \A j \in 1 .. Len(refs) : \E i \in 1 .. Len(rs) : values[i] = w[j]  BY <1>2, <1>8
  <2> QED  BY <1>2, <1>4, <1>5, <1>6, <1>10, <2>1, <2>2, OneOrder, Zenon
<1>12. ASSUME NEW i \in 1 .. Len(rs) PROVE rs[i] = refs[i]
  <2>1. PICK j \in DOMAIN refs : rs[i] = refs[j] /\ values[i] = w[j]  BY <1>2, <1>7
  <2>2. w[i] = w[j] /\ i \in DOMAIN refs  BY <1>2, <1>11, <2>1
  <2>3. ~(i < j) /\ ~(j < i)
    <3>1. i < j => w[i] < w[j]  BY <1>2, <1>4, <1>5, <2>2 DEF Increasing
    <3>2. j < i => w[j] < w[i]  BY <1>2, <1>4, <1>5, <2>2 DEF Increasing
    <3>3. w[i] \in Nat /\ w[j] \in Nat  BY <1>2, <1>4, <2>2
    <3> QED  BY <2>2, <3>1, <3>2, <3>3
  <2>4. i = j  BY <1>2, <2>3
  <2> QED  BY <2>1, <2>4
<1>13. rs = refs  BY <1>1, <1>11, <1>12, SameList
<1> QED  BY <1>9, <1>11, <1>13

\* Stable of a step.
LEMMA StepStable ==
  ASSUME ResolveInv, StableInv, Step, Undisturbed, resolved = changes, ~Ambiguous
  PROVE  UNCHANGED <<field, refs>>
<1>1. ResolveTyped /\ Settled(field, refs)  BY DEF ResolveInv, StableInv
<1>2. PICK since \in Nat : Outcome(since)  BY StepOutcome
<1>3. CASE UNCHANGED <<field, refs, resolved>>  BY <1>3
<1>4. CASE Sets(Filled(ToPtrValues(FromPtrValues(field))), refs, since)  BY <1>1, <1>4 DEF Sets, Settled
<1>5. CASE ~NoOp /\ Nowhere
  <2>1. Led(field, refs)  BY <1>1, <1>5 DEF Settled, NoOp, Nowhere
  <2> QED  BY <1>5, <2>1 DEF Led, Nowhere
<1>6. ASSUME ~NoOp, Forgotten(refs) # <<>>, NEW values, NEW rs, LedBy(values, rs),
             Sets(Filled(ToPtrValues(values)), rs, since)
      PROVE  UNCHANGED <<field, refs>>
  <2>1. Led(field, refs)  BY <1>1, <1>6 DEF Settled, NoOp
  <2>2. Filled(ToPtrValues(values)) = field /\ rs = refs  BY <1>1, <1>6, <2>1, OneLead
  <2> QED  BY <1>6, <2>2 DEF Sets
<1>7. ASSUME ~NoOp, Forgotten(refs) = <<>>, Selector.on, NEW f, NEW rs, Picked(f, rs), Sets(f, rs, since)
      PROVE  UNCHANGED <<field, refs>>
  <2>1. Picked(field, refs)  BY <1>1, <1>7 DEF Settled, NoOp
  <2>2. f = field /\ rs = refs  BY <1>1, <1>7, <2>1, OnePick
  <2> QED  BY <1>7, <2>2 DEF Sets
<1> QED  BY <1>2, <1>3, <1>4, <1>5, <1>6, <1>7, Zenon DEF Outcome

\* What is settled stays so while targets do not change.
LEMMA SettledKept ==
  ASSUME UNCHANGED <<kind, deleted, targets>>, Settled(field', refs')
  PROVE  Settled(field, refs)'
<1>1. Filled(ToPtrValues(FromPtrValues(field)))' = Filled(ToPtrValues(FromPtrValues(field')))
  BY DEF Filled, ToPtrValues, FromPtrValues
<1>2. IsNoOp(FromPtrValues(field), refs)' <=> IsNoOp(FromPtrValues(field'), refs')
  BY DEF IsNoOp, FromPtrValues, alwaysResolve, Selector
<1>3. Forgotten(refs)' = Forgotten(refs')  BY DEF Forgotten, Selector
<1>4. Present' = Present  BY DEF Present
<1>5. Led(field', refs') => Led(field, refs)'
  BY <1>4, ZenonT(30) DEF Led, Target, Scope, Filled, ToPtrValues
<1>6. Selected' = Selected
  BY <1>4 DEF Selected, Scope, Selector, ControllersMustMatch
<1>7. ListMaps' = ListMaps  BY <1>6 DEF ListMaps, ReferenceTo
<1>8. Picked(field', refs') => Picked(field, refs)'
  <2>1. CASE ~kind.multi /\ Selected = {} /\ field' = <<>> /\ refs' = <<>>  BY <1>6, <2>1 DEF Picked
  <2>2. ASSUME ~kind.multi, NEW t \in Selected, field' = Filled(ToPtrValues(<<targets[t]>>)), refs' = <<ReferenceTo(t)>>
        PROVE  Picked(field, refs)'
    <3>1. field' = Filled(ToPtrValues(<<targets[t]>>))'  BY <2>2 DEF Filled, ToPtrValues
    <3>2. refs' = <<ReferenceTo(t)>>'  BY <2>2, Zenon DEF ReferenceTo
    <3>3. ~kind'.multi /\ t \in Selected'  BY <1>6, <2>2, SMTT(30)
    <3> QED  BY <3>1, <3>2, <3>3 DEF Picked
  <2>3. ASSUME kind.multi, NEW m \in ListMaps, NEW keys \in sortMapByKeys(m), field' = ToPtrValues(keys),
               refs' = [i \in DOMAIN keys |-> m[keys[i]]]
        PROVE  Picked(field, refs)'
    <3>1. field' = ToPtrValues(keys)'  BY <2>3 DEF ToPtrValues
    <3>2. kind'.multi /\ m \in ListMaps'  BY <1>7, <2>3
    <3> QED  BY <2>3, <3>1, <3>2, SMTT(30) DEF Picked
  <2> QED  BY <2>1, <2>2, <2>3, Zenon DEF Picked
<1> QED  BY <1>1, <1>2, <1>3, <1>5, <1>8, Zenon DEF Settled

\* What a resolution sets, if nothing changed meanwhile, is settled.
LEMMA StepSettles ==
  ASSUME ResolveInv, Owned(kind, refs), NEW since, Outcome(since), Undisturbed, field' # field \/ refs' # refs \/ resolved' # resolved
  PROVE  Settled(field', refs')
<1>1. ResolveTyped /\ kind \in Kinds /\ IsSpec(kind, field, refs)  BY DEF ResolveInv, ResolveTyped
<1>2. IsSpec(kind, field', refs') /\ Filled(ToPtrValues(FromPtrValues(field'))) = field'  BY <1>1, OutcomeSets
<1>3. CASE NoOp /\ Sets(Filled(ToPtrValues(FromPtrValues(field))), refs, since)
  <2>1. refs' = refs /\ field' = Filled(ToPtrValues(FromPtrValues(field)))  BY <1>3 DEF Sets
  <2>2. field' = <<>> <=> field = <<>>  BY <1>1, <2>1, NoOpKeeps
  <2>3. FromPtrValues(field) # <<>> => FromPtrValues(field') # <<>>
    <3>1. FromPtrValues(field) \in Seq(Nat) /\ Len(FromPtrValues(field)) = Len(field) /\ field \in Seq(Nat)
      BY <1>1, NoOpKeeps DEF IsSpec
    <3>2. field' \in Seq(Nat) /\ \A i \in DOMAIN field' : Holds(kind, field'[i])  BY <1>2 DEF IsSpec
    <3>3. FromPtrValues(field') \in Seq(Nat) /\ Len(FromPtrValues(field')) = Len(field')  BY <1>1, <3>2, ReadsAll
    <3>4. FromPtrValues(field) # <<>> => field # <<>>  BY <3>1
    <3>5. field' # <<>> => FromPtrValues(field') # <<>>  BY <3>2, <3>3
    <3> QED  BY <2>2, <3>4, <3>5
  <2>4. deleted \/ IsNoOp(FromPtrValues(field'), refs')  BY <1>3, <2>1, <2>3 DEF NoOp, IsNoOp
  <2> QED  BY <1>2, <2>4 DEF Settled
<1>4. CASE Nowhere /\ Sets(<<>>, <<>>, since)
  <2>1. refs' = <<>> /\ ~Selector.on  BY <1>4 DEF Sets, Nowhere, Owned, Selector
  <2>2. IsNoOp(FromPtrValues(field'), refs')  BY <2>1 DEF IsNoOp
  <2> QED  BY <1>2, <2>2 DEF Settled
<1>5. ASSUME Forgotten(refs) # <<>>, NEW values, NEW rs, LedBy(values, rs), Sets(Filled(ToPtrValues(values)), rs, since)
      PROVE  Settled(field', refs')
  <2>1. field' = Filled(ToPtrValues(values)) /\ refs' = rs  BY <1>5 DEF Sets
  <2>2. Forgotten(rs) = rs /\ rs # <<>>  BY <1>5 DEF Forgotten, LedBy
  <2>3. values \in Seq(Nat) /\ rs \in Seq(Reference) /\ Len(values) = Len(rs) /\ Increasing(values)  BY <1>5 DEF LedBy
  <2>4. \A i \in DOMAIN rs : Target(rs[i]) \in Present /\ values[i] = targets[Target(rs[i])]  BY <1>5 DEF LedBy
  <2>5. DOMAIN rs = DOMAIN values /\ DOMAIN rs = 1 .. Len(values) /\ values = [i \in 1 .. Len(values) |-> values[i]]
    BY <2>3
  <2>6. values = [i \in DOMAIN rs |-> targets[Target(rs[i])]]  BY <2>4, <2>5
  <2>7. \A i, j \in DOMAIN rs : i < j => targets[Target(rs[i])] < targets[Target(rs[j])]
    BY <2>3, <2>4, <2>5 DEF Increasing
  <2>8. Led(field', refs')  BY <2>1, <2>4, <2>6, <2>7 DEF Led
  <2> QED  BY <1>2, <2>1, <2>2, <2>8 DEF Settled
<1>6. ASSUME Selector.on, Picked(field', refs') PROVE Settled(field', refs')
  <2>1. CASE Selector.always \/ refs' = <<>>
    <3>1. Forgotten(refs') = <<>>  BY <1>6, <2>1 DEF Forgotten
    <3> QED  BY <1>2, <1>6, <3>1 DEF Settled
  <2>2. CASE ~Selector.always /\ refs' # <<>> /\ kind.multi
    <3>1. PICK values \in Seq(Nat) : Len(values) = Len(refs') /\ field' = Filled(ToPtrValues(values))
      BY <1>1, <1>6, PickedIs
    <3>2. refs' \in Seq(Reference)  BY <1>1, <1>6, PickedIs
    <3>3. field' = ToPtrValues(values)  BY <2>2, <3>1 DEF Filled
    <3>4. Len(field') = Len(refs') /\ field' \in Seq(Nat)  BY <1>1, <3>1, <3>3, WritesAll
    <3>5. \A i \in DOMAIN field' : Holds(kind, field'[i])  BY <1>2 DEF IsSpec
    <3>6. FromPtrValues(field') \in Seq(Nat) /\ Len(FromPtrValues(field')) = Len(field')  BY <1>1, <3>4, <3>5, ReadsAll
    <3>7. Len(refs') # 0  BY <2>2, <3>2
    <3>8. FromPtrValues(field') # <<>>  BY <3>4, <3>6, <3>7
    <3>9. IsNoOp(FromPtrValues(field'), refs')  BY <1>6, <2>2, <3>8 DEF IsNoOp, alwaysResolve
    <3> QED  BY <1>2, <3>9, SMTT(30) DEF Settled
  <2>3. CASE ~Selector.always /\ refs' # <<>> /\ ~kind.multi
    <3>1. PICK t \in Selected : field' = Filled(ToPtrValues(<<targets[t]>>)) /\ refs' = <<ReferenceTo(t)>>
      BY <1>6, <2>3, Zenon DEF Picked
    <3>2. t \in Present /\ Target(ReferenceTo(t)) = t  BY <1>1, SelectedIs
    <3>3. DOMAIN refs' = {1} /\ refs'[1] = ReferenceTo(t) /\ DOMAIN refs' = 1 .. 1  BY <3>1
    <3>4. <<targets[t]>> = [i \in 1 .. 1 |-> targets[t]]  OBVIOUS
    <3>5. [i \in DOMAIN refs' |-> targets[Target(refs'[i])]] = <<targets[t]>>  BY <3>2, <3>3, <3>4
    <3>6. \A i \in DOMAIN refs' : Target(refs'[i]) \in Present  BY <3>2, <3>3
    <3>7. \A i, j \in DOMAIN refs' : ~(i < j)  BY <3>3
    <3>8. Led(field', refs')  BY <3>1, <3>5, <3>6, <3>7, Zenon DEF Led
    <3>9. Forgotten(refs') # <<>>  BY <2>3 DEF Forgotten
    <3> QED  BY <1>2, <3>8, <3>9 DEF Settled
  <2> QED  BY <2>1, <2>2, <2>3
<1>7. ASSUME Selector.on, NEW f, NEW rs, Picked(f, rs), Sets(f, rs, since) PROVE Settled(field', refs')
  <2>1. field' = f /\ refs' = rs  BY <1>7 DEF Sets
  <2>2. Picked(field', refs')  BY <1>7, <2>1
  <2> QED  BY <1>6, <1>7, <2>2
<1>8. ~UNCHANGED <<field, refs, resolved>>  OBVIOUS
<1> QED  BY <1>3, <1>4, <1>5, <1>7, <1>8, Zenon DEF Outcome

\* No resolution gives a resource with a selector an optional reference.
LEMMA StaysOwned ==
  ASSUME ResolveInv, Owned(kind, refs), Step
  PROVE  Owned(kind, refs')
<1>1. ResolveTyped /\ kind \in Kinds  BY DEF ResolveInv, ResolveTyped
<1>2. PICK since \in Nat : Outcome(since)  BY StepOutcome
<1>3. CASE refs' = refs  BY <1>3
<1>4. CASE refs' = <<>>  BY <1>4 DEF Owned
<1>5. ASSUME NEW values, LedBy(values, refs') PROVE Owned(kind, refs')  BY <1>5 DEF LedBy, InRange, Owned
<1>6. ASSUME Picked(field', refs') PROVE Owned(kind, refs')
  <2>1. ASSUME NEW i \in DOMAIN refs' PROVE ~refs'[i].optional
    <3>1. PICK t \in Selected : refs'[i] = ReferenceTo(t)  BY <1>1, <1>6, PickedIs
    <3> QED  BY <1>1, <3>1, SelectedIs
  <2> QED  BY <2>1 DEF Owned
<1> QED  BY <1>1, <1>2, <1>3, <1>4, <1>5, <1>6, Outcomes, Zenon

\* Every step keeps what resolving again rests on.
LEMMA StableKeeps == ResolveInv /\ StableInv /\ [ResolveNext]_resolveVars => StableInv'
<1> SUFFICES ASSUME ResolveInv, StableInv, [ResolveNext]_resolveVars PROVE StableInv'  OBVIOUS
<1>1. Owned(kind, refs) /\ (resolved = changes => Settled(field, refs))  BY DEF StableInv
<1>2. changes \in Nat /\ resolved \in Int /\ resolved <= changes  BY DEF ResolveInv, ResolveTyped
<1>3. CASE Step
  <2>1. UNCHANGED <<kind, deleted, targets, changes>>  BY <1>3, StepOutcome
  <2>2. PICK since \in Nat : Outcome(since) /\ (Undisturbed <=> since = changes)  BY <1>3, StepOutcome
  <2>3. Owned(kind, refs)'  BY <1>1, <1>3, <2>1, StaysOwned DEF Owned
  <2>4. CASE UNCHANGED <<field, refs, resolved>>
    <3>1. resolved' = changes' => Settled(field', refs')  BY <1>1, <2>1, <2>4
    <3> QED  BY <2>1, <2>3, <3>1, SettledKept DEF StableInv
  <2>5. CASE ~UNCHANGED <<field, refs, resolved>>
    <3>1. resolved' = since  BY <2>2, <2>5, OutcomeSets DEF ResolveInv
    <3>2. field' # field \/ refs' # refs \/ resolved' # resolved  BY <2>5
    <3>3. resolved' = changes' => Settled(field', refs')  BY <1>1, <2>1, <2>2, <3>1, <3>2, StepSettles
    <3> QED  BY <2>1, <2>3, <3>3, SettledKept DEF StableInv
  <2> QED  BY <2>4, <2>5
<1>4. CASE Fail \/ UNCHANGED resolveVars
  <2>1. UNCHANGED <<kind, field, refs, deleted, targets, resolved, changes>>  BY <1>4 DEF Fail, resolveVars
  <2>2. resolved' = changes' => Settled(field', refs')  BY <1>1, <2>1
  <2>3. Owned(kind, refs)'  BY <1>1, <2>1 DEF Owned
  <2> QED  BY <2>1, <2>2, <2>3, SettledKept DEF StableInv
<1>5. CASE TargetChanges \/ UserClears \/ UserDeletesResource
  <2>1. UNCHANGED <<kind, refs, resolved>> /\ changes' = changes + 1
    BY <1>5 DEF TargetChanges, UserClears, UserDeletesResource, Change
  <2>2. resolved' # changes'  BY <1>2, <2>1
  <2>3. Owned(kind, refs)'  BY <1>1, <2>1 DEF Owned
  <2> QED  BY <2>2, <2>3 DEF StableInv
<1> QED  BY <1>3, <1>4, <1>5 DEF ResolveNext

\* At first nothing is resolved.
LEMMA StableStart == SelectorsAlone /\ ResolveInit => StableInv
<1> SUFFICES ASSUME SelectorsAlone, ResolveInit PROVE StableInv  OBVIOUS
<1>1. PICK r \in Resources : kind = r.kind /\ field = r.field /\ refs = r.refs  BY DEF ResolveInit
<1>2. Owned(kind, refs)  BY <1>1 DEF SelectorsAlone
<1>3. changes = 0 /\ resolved = -1  BY DEF ResolveInit
<1>4. resolved # changes  BY <1>3
<1> QED  BY <1>2, <1>4 DEF StableInv

\* Unless a resource with a selector is given an optional reference as well, resolving again what did
\* not change changes nothing, so that all of ResolutionIsSound holds.
THEOREM ResolvesSoundly == ASSUME SelectorsAlone PROVE ResolveSpec => ResolutionIsSound
<1>1. ResolveSpec => []StableInv  BY StableStart, StableKeeps, Resolution, PTL DEF ResolveSpec
<1>2. ASSUME ResolveInv, StableInv, [ResolveNext]_resolveVars
      PROVE  [Step /\ Undisturbed /\ resolved = changes /\ ~Ambiguous => UNCHANGED <<field, refs>>]_resolveVars
  BY <1>2, StepStable
<1>3. ResolveSpec => Stable  BY <1>1, <1>2, Resolution, PTL DEF ResolveSpec, Stable
<1> QED  BY <1>3, ResolvesTruly, PTL DEF ResolutionIsSound

===============================================================================
