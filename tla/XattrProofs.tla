---- MODULE XattrProofs ----
(****************************************************************************)
(* Extended attributes and atoms (Xattr, in MCFrontend): XattrExact holds,  *)
(* whatever inodes, names, value lengths and sets of fixed attributes there *)
(* are, however many atoms, and however wide half a count is.               *)
(*                                                                          *)
(* The invariant XattrInv says of the atom table that it is Sound for the   *)
(* inodes that use each atom - names and atoms point at each other, some    *)
(* list holds the atoms without a name, each once, from freeatom on, the    *)
(* two halves of a count are the number of users - and of every inode that  *)
(* its cache has each atom once, in the room allocated for it, and that the *)
(* entries are the attributes by the names of the table. A call changes the *)
(* table and one cache: first come the sums of sizes, the cache and what is *)
(* saved of it, then the table under atomref() and make_atom(), then each   *)
(* call. FreeList says what a list holds, not how to find it, so that       *)
(* get_freeatom() and the death of an atom are one element of it less and   *)
(* more.                                                                    *)
(****************************************************************************)
EXTENDS MCFrontend, SequenceTheorems, FiniteSetTheorems, FunctionTheorems,
        WellFoundedInduction, TLAPS

(* What XattrAssumption says of the numbers *)
LEMMA XattrBounds ==
    /\ IsFiniteSet(XInodes) /\ Lens \subseteq Nat /\ MaxAtom \in Nat
    /\ RefMod \in Nat /\ RefMod >= 2 /\ MinAlloc \in Nat \ {0}
BY XattrAssumption, Zenon

(* A set of naturals that is not empty has a least element. *)
LEMMA LeastNat ==
    ASSUME NEW S \in SUBSET Nat, S # {}
    PROVE  \E x \in S : \A y \in S : x <= y
<1> DEFINE R == {ss \in Nat \X Nat : ss[1] < ss[2]}
<1>1. IsWellFoundedOn(R, Nat)
    BY NatLessThanWellFounded DEF OpToRel
<1>2. \A x, y \in S : x \in Nat /\ y \in Nat /\ (x <= y \/ <<y, x>> \in R)
    OBVIOUS
<1> HIDE DEF R
<1>3. PICK x \in S : \A y \in S : ~(<<y, x>> \in R)
    BY <1>1, WFMin
<1>4. QED BY <1>2, <1>3

(* A set that has 0 and with a number the next one has all to the last.     *)
LEMMA UpTo ==
    ASSUME NEW n \in Nat, NEW S, 0 \in S, \A i \in 0 .. n - 1 : i \in S => i + 1 \in S
    PROVE  \A i \in 0 .. n : i \in S
<1> DEFINE T == {i \in 0 .. n : i \notin S}
<1> SUFFICES ASSUME T # {} PROVE FALSE
    OBVIOUS
<1>1. T \in SUBSET Nat
    OBVIOUS
<1>2. PICK x \in T : \A y \in T : x <= y
    BY <1>1, LeastNat
<1>3. x \in 0 .. n /\ x \notin S /\ x # 0
    BY <1>2
<1>4. x - 1 \in 0 .. n - 1 /\ x - 1 \in 0 .. n /\ (x - 1) + 1 = x /\ ~(x <= x - 1)
    BY <1>3
<1>5. x - 1 \in S
    BY <1>2, <1>4
<1>6. QED BY <1>3, <1>4, <1>5

(* Min of the community modules is that element. *)
LEMMA LeastIs ==
    ASSUME NEW S \in SUBSET Nat, S # {}
    PROVE  xa!Min(S) \in S /\ \A y \in S : xa!Min(S) <= y
<1>1. \E x \in S : \A y \in S : x <= y
    BY LeastNat
<1>2. xa!Min(S) = CHOOSE x \in S : \A y \in S : x <= y
    BY DEF xa!Min
<1>3. QED BY <1>1, <1>2

-----------------------------------------------------------------------------
(* The sums of a sequence of naturals, from none of them to all.            *)
LEMMA SumsIs ==
    ASSUME NEW s \in Seq(Nat)
    PROVE  /\ xa!Sums(s) \in [0 .. Len(s) -> Nat] /\ xa!Sums(s)[0] = 0
           /\ \A i \in 1 .. Len(s) : xa!Sums(s)[i] = xa!Sums(s)[i - 1] + s[i]
<1> DEFINE n == Len(s)
           Step(f, i) == IF i = 0 THEN 0 ELSE f[i - 1] + s[i]
           Good == {k \in 0 .. n : \E f : f = [i \in 0 .. k |-> Step(f, i)]}
           sum == xa!Sums(s)
<1>1. n \in Nat /\ \A i \in 1 .. n : s[i] \in Nat
    BY LenProperties, ElementOfSeq
<1>2. 0 \in Good
    <2> DEFINE f == [i \in 0 .. 0 |-> 0]
    <2>1. f = [i \in 0 .. 0 |-> Step(f, i)]
        OBVIOUS
    <2>2. 0 \in 0 .. n
        BY <1>1
    <2> HIDE DEF f, n
    <2>3. QED BY <2>1, <2>2
<1>3. ASSUME NEW k \in 0 .. n - 1, k \in Good
      PROVE  k + 1 \in Good
    <2>1. PICK f : f = [i \in 0 .. k |-> Step(f, i)]
        BY <1>3
    <2> DEFINE g == [i \in 0 .. k + 1 |-> IF i <= k THEN f[i] ELSE f[k] + s[k + 1]]
    <2>2. ASSUME NEW i \in 0 .. k + 1
          PROVE  g[i] = Step(g, i)
        <3>1. CASE i = 0
            BY <2>1, <3>1
        <3>2. CASE i # 0 /\ i <= k
            <4>1. i \in 0 .. k /\ i - 1 \in 0 .. k /\ i - 1 \in 0 .. k + 1 /\ i - 1 <= k
                BY <3>2
            <4>2. f[i] = f[i - 1] + s[i]
                BY <2>1, <3>2, <4>1
            <4>3. QED BY <3>2, <4>1, <4>2
        <3>3. CASE i = k + 1
            <4>1. i # 0 /\ i - 1 = k /\ ~(i <= k) /\ k \in 0 .. k + 1 /\ k <= k
                BY <3>3
            <4>2. g[i] = f[k] + s[i] /\ g[i - 1] = f[k]
                BY <3>3, <4>1
            <4>3. QED BY <4>1, <4>2
        <3>4. QED BY <3>1, <3>2, <3>3
    <2>3. g = [i \in 0 .. k + 1 |-> Step(g, i)]
        BY <2>2
    <2>4. k + 1 \in 0 .. n
        BY <1>1
    <2> HIDE DEF g
    <2>5. QED BY <2>3, <2>4
<1>4. n \in Good
    <2> HIDE DEF Good, n
    <2>1. \A i \in 0 .. n : i \in Good
        BY <1>1, <1>2, <1>3, UpTo
    <2>2. QED BY <1>1, <2>1
<1>5. sum = [i \in 0 .. n |-> Step(sum, i)]
    <2>1. sum = CHOOSE f : f = [i \in 0 .. n |-> Step(f, i)]
        BY DEF xa!Sums
    <2>2. \E f : f = [i \in 0 .. n |-> Step(f, i)]
        BY <1>4
    <2> HIDE DEF sum, Step
    <2>3. QED BY <2>1, <2>2
<1> HIDE DEF sum
<1>6. /\ DOMAIN sum = 0 .. n /\ sum[0] = 0
      /\ \A i \in 1 .. n : sum[i] = sum[i - 1] + s[i]
    BY <1>1, <1>5
<1>7. \A i \in 0 .. n : i \in {j \in 0 .. n : sum[j] \in Nat}
    <2> DEFINE Typed == {j \in 0 .. n : sum[j] \in Nat}
    <2>1. 0 \in Typed
        BY <1>1, <1>6
    <2>2. ASSUME NEW i \in 0 .. n - 1, i \in Typed
          PROVE  i + 1 \in Typed
        <3>1. i + 1 \in 1 .. n /\ (i + 1) - 1 = i
            BY <1>1
        <3>2. sum[i + 1] = sum[i] + s[i + 1]
            BY <1>6, <3>1
        <3>3. QED BY <1>1, <2>2, <3>1, <3>2
    <2> HIDE DEF Typed
    <2>3. QED BY <1>1, <2>1, <2>2, UpTo DEF Typed
<1>8. sum \in [0 .. n -> Nat]
    <2>1. sum = [i \in 0 .. n |-> sum[i]]
        BY <1>5
    <2>2. QED BY <1>7, <2>1
<1>9. QED BY <1>6, <1>8 DEF sum

(* Sums grow by each number.                                                *)
LEMMA SumsGrow ==
    ASSUME NEW s \in Seq(Nat), NEW i \in 1 .. Len(s)
    PROVE  xa!Sums(s)[i - 1] + s[i] <= xa!Total(s) /\ xa!Total(s) \in Nat
<1> DEFINE n == Len(s)
           sum == xa!Sums(s)
           Above == {k \in 0 .. n - i : sum[i] <= sum[i + k]}
<1>1. /\ n \in Nat /\ sum \in [0 .. n -> Nat] /\ sum[i] = sum[i - 1] + s[i]
      /\ \A k \in 1 .. n : s[k] \in Nat /\ sum[k] = sum[k - 1] + s[k]
    BY SumsIs, LenProperties, ElementOfSeq
<1> HIDE DEF sum, n
<1>2. i \in 1 .. n /\ n - i \in Nat
    BY <1>1 DEF n
<1>3. 0 \in Above
    BY <1>1, <1>2
<1>4. ASSUME NEW k \in 0 .. n - i - 1, k \in Above
      PROVE  k + 1 \in Above
    <2>1. i + k + 1 \in 1 .. n /\ i + k \in 0 .. n /\ (i + k + 1) - 1 = i + k /\ k + 1 \in 0 .. n - i
          /\ i + (k + 1) = i + k + 1 /\ i \in 0 .. n
        BY <1>1, <1>2
    <2>2. sum[i + k + 1] = sum[i + k] + s[i + k + 1] /\ s[i + k + 1] \in Nat
          /\ sum[i + k] \in Nat /\ sum[i] \in Nat
        BY <1>1, <2>1
    <2>3. sum[i] <= sum[i + k]
        BY <1>4
    <2>4. sum[i + (k + 1)] = sum[i + k] + s[i + k + 1]
        BY <2>1, <2>2
    <2>5. \A u, v, w \in Nat : u <= v => u <= v + w
        OBVIOUS
    <2>6. sum[i] <= sum[i + (k + 1)]
        BY <2>2, <2>3, <2>4, <2>5
    <2>7. QED BY <2>1, <2>6
<1>5. n - i \in Above
    <2> HIDE DEF Above
    <2>1. \A k \in 0 .. n - i : k \in Above
        BY <1>2, <1>3, <1>4, UpTo
    <2>2. QED BY <1>2, <2>1
<1>6. sum[i] <= sum[n] /\ sum[n] \in Nat
    BY <1>1, <1>2, <1>5
<1>7. QED BY <1>1, <1>6 DEF sum, n, xa!Total

(* A number behind the others is added to their sum.                        *)
LEMMA TotalOfOneMore ==
    ASSUME NEW s \in Seq(Nat), NEW r \in Seq(Nat), Len(r) = Len(s) + 1,
           \A k \in 1 .. Len(s) : r[k] = s[k]
    PROVE  xa!Total(r) = xa!Total(s) + r[Len(r)]
<1> DEFINE n == Len(s)
           S == xa!Sums(s)
           R == xa!Sums(r)
           Same == {k \in 0 .. n : R[k] = S[k]}
<1>1. /\ n \in Nat /\ S[0] = 0 /\ R[0] = 0 /\ Len(r) = n + 1
      /\ \A k \in 1 .. n : S[k] = S[k - 1] + s[k]
      /\ \A k \in 1 .. n + 1 : R[k] = R[k - 1] + r[k]
    BY SumsIs, LenProperties
<1>2. \A k \in 1 .. n : r[k] = s[k]
    OBVIOUS
<1> HIDE DEF S, R, n
<1>3. 0 \in Same
    BY <1>1
<1>4. ASSUME NEW k \in 0 .. n - 1, k \in Same
      PROVE  k + 1 \in Same
    <2>1. k + 1 \in 1 .. n /\ k + 1 \in 1 .. n + 1 /\ k + 1 \in 0 .. n /\ (k + 1) - 1 = k
        BY <1>1
    <2>2. QED BY <1>1, <1>2, <1>4, <2>1
<1>5. n \in Same
    <2> HIDE DEF Same
    <2>1. \A k \in 0 .. n : k \in Same
        BY <1>1, <1>3, <1>4, UpTo
    <2>2. QED BY <1>1, <2>1
<1>6. n + 1 \in 1 .. n + 1 /\ (n + 1) - 1 = n
    BY <1>1
<1>7. R[n + 1] = S[n] + r[n + 1]
    BY <1>1, <1>5, <1>6
<1>8. QED BY <1>1, <1>7 DEF xa!Total, R, S, n

(* Without one of them the sum is not more.                                 *)
LEMMA TotalOfOneLess ==
    ASSUME NEW s \in Seq(Nat), NEW r \in Seq(Nat), NEW i \in 1 .. Len(s), Len(r) = Len(s) - 1,
           \A k \in 1 .. Len(r) : r[k] = IF k < i THEN s[k] ELSE s[k + 1]
    PROVE  xa!Total(r) <= xa!Total(s)
<1> DEFINE n == Len(r)
           S == xa!Sums(s)
           R == xa!Sums(r)
           Less == {k \in 0 .. n : R[k] <= S[k + 1] /\ (k < i => R[k] = S[k])}
<1>1. /\ n \in Nat /\ S[0] = 0 /\ R[0] = 0 /\ Len(s) = n + 1 /\ i \in 1 .. n + 1
      /\ \A k \in 1 .. n + 1 : S[k] = S[k - 1] + s[k] /\ s[k] \in Nat
      /\ \A k \in 0 .. n + 1 : S[k] \in Nat
      /\ \A k \in 1 .. n : R[k] = R[k - 1] + r[k] /\ r[k] \in Nat
      /\ \A k \in 0 .. n : R[k] \in Nat
    <2>1. n \in Nat /\ Len(s) = n + 1 /\ i \in 1 .. n + 1
        BY LenProperties
    <2>2. /\ S[0] = 0 /\ S \in [0 .. n + 1 -> Nat]
          /\ \A k \in 1 .. n + 1 : S[k] = S[k - 1] + s[k] /\ s[k] \in Nat
        BY <2>1, SumsIs, ElementOfSeq
    <2>3. /\ R[0] = 0 /\ R \in [0 .. n -> Nat]
          /\ \A k \in 1 .. n : R[k] = R[k - 1] + r[k] /\ r[k] \in Nat
        BY <2>1, SumsIs, ElementOfSeq
    <2> HIDE DEF S, R, n
    <2>4. QED BY <2>1, <2>2, <2>3
<1>2. \A k \in 1 .. n : r[k] = IF k < i THEN s[k] ELSE s[k + 1]
    OBVIOUS
<1> HIDE DEF S, R, n
<1>3. 0 \in Less
    <2>1. 0 + 1 \in 0 .. n + 1 /\ 0 \in 0 .. n
        BY <1>1
    <2>2. QED BY <1>1, <2>1
<1>4. ASSUME NEW k \in 0 .. n - 1, k \in Less
      PROVE  k + 1 \in Less
    <2>1. /\ k + 1 \in 1 .. n /\ k + 1 \in 1 .. n + 1 /\ k + 2 \in 1 .. n + 1 /\ k + 1 \in 0 .. n
          /\ k + 1 \in 0 .. n + 1 /\ k + 2 \in 0 .. n + 1 /\ k \in 0 .. n + 1 /\ k \in 0 .. n
          /\ (k + 1) - 1 = k /\ (k + 2) - 1 = k + 1 /\ (k + 1) + 1 = k + 2
        BY <1>1
    <2>2. /\ R[k + 1] = R[k] + r[k + 1] /\ S[k + 1] = S[k] + s[k + 1]
          /\ S[k + 2] = S[k + 1] + s[k + 2]
          /\ r[k + 1] = IF k + 1 < i THEN s[k + 1] ELSE s[k + 2]
          /\ r[k + 1] \in Nat /\ s[k + 1] \in Nat /\ s[k + 2] \in Nat
          /\ R[k] \in Nat /\ S[k] \in Nat /\ S[k + 1] \in Nat
        BY <1>1, <1>2, <2>1
    <2>3. R[k] <= S[k + 1] /\ (k < i => R[k] = S[k])
        BY <1>4
    <2>4. k + 1 < i => R[k + 1] = S[k + 1]
        BY <1>1, <2>2, <2>3
    <2>5. R[k + 1] <= S[k + 2]
        <3>1. CASE k + 1 < i
            <4>1. \A a, b \in Nat : a <= a + b
                OBVIOUS
            <4>2. QED BY <2>2, <2>4, <3>1, <4>1
        <3>2. CASE ~(k + 1 < i)
            <4>1. r[k + 1] = s[k + 2]
                BY <2>2, <3>2
            <4>2. R[k] + s[k + 2] <= S[k + 1] + s[k + 2]
                <5>1. \A a, b, c \in Nat : a <= b => a + c <= b + c
                    OBVIOUS
                <5>2. R[k] \in Nat /\ S[k + 1] \in Nat /\ s[k + 2] \in Nat /\ R[k] <= S[k + 1]
                    BY <2>2, <2>3
                <5>3. QED BY ONLY <5>1, <5>2
            <4>3. R[k + 1] = R[k] + s[k + 2] /\ S[k + 2] = S[k + 1] + s[k + 2]
                BY <2>2, <4>1
            <4>4. QED BY <4>2, <4>3
        <3>3. QED BY <3>1, <3>2
    <2>6. QED BY <2>1, <2>4, <2>5
<1>5. n \in Less
    <2> HIDE DEF Less
    <2>1. \A k \in 0 .. n : k \in Less
        BY <1>1, <1>3, <1>4, UpTo
    <2>2. QED BY <1>1, <2>1
<1>6. R[n] <= S[n + 1]
    BY <1>5
<1>7. QED BY <1>1, <1>6 DEF xa!Total, R, S, n

-----------------------------------------------------------------------------
(* The xcache *)

Entry == [atom : xa!Atoms, len : Lens]
Xcache == [entries : Seq(Entry), maxsize : Nat]

EntrySizes(entries) == [i \in DOMAIN entries |-> xa!EntrySize(entries[i])]

(* The size of an entry is its header and its value.                        *)
LEMMA EntrySizesIs ==
    ASSUME NEW entries \in Seq(Entry)
    PROVE  /\ EntrySizes(entries) \in Seq(Nat) /\ Len(EntrySizes(entries)) = Len(entries)
           /\ \A i \in 1 .. Len(entries) : EntrySizes(entries)[i] = 4 + entries[i].len
           /\ \A i \in 1 .. Len(entries) : EntrySizes(entries)[i] \in Nat /\ entries[i].len \in Nat
           /\ xa!SizeOf(entries) = xa!Total(EntrySizes(entries)) /\ xa!SizeOf(entries) \in Nat
<1>1. /\ Len(entries) \in Nat /\ DOMAIN entries = 1 .. Len(entries)
      /\ \A i \in 1 .. Len(entries) : entries[i] \in Entry
    BY LenProperties, ElementOfSeq
<1>2. \A i \in 1 .. Len(entries) : entries[i].len \in Nat
    BY <1>1, XattrBounds DEF Entry
<1>3. EntrySizes(entries) = [i \in 1 .. Len(entries) |-> 4 + entries[i].len]
    BY <1>1 DEF EntrySizes, xa!EntrySize
<1>4. EntrySizes(entries) \in [1 .. Len(entries) -> Nat]
    BY <1>2, <1>3
<1>5. EntrySizes(entries) \in Seq(Nat) /\ Len(EntrySizes(entries)) = Len(entries)
    BY <1>1, <1>4
<1>6. xa!SizeOf(entries) = xa!Total(EntrySizes(entries))
    BY DEF xa!SizeOf, EntrySizes
<1>7. xa!Total(EntrySizes(entries)) \in Nat
    BY <1>5, SumsIs, LenProperties DEF xa!Total
<1>8. QED BY <1>2, <1>3, <1>4, <1>5, <1>6, <1>7

(* xcache_update() adds the entry behind the others.                        *)
LEMMA SizeOfAppend ==
    ASSUME NEW entries \in Seq(Entry), NEW e \in Entry
    PROVE  xa!SizeOf(Append(entries, e)) = xa!SizeOf(entries) + xa!EntrySize(e)
<1> DEFINE more == Append(entries, e)
           n == Len(entries)
<1>1. /\ more \in Seq(Entry) /\ Len(more) = n + 1 /\ n \in Nat /\ more[n + 1] = e
      /\ \A i \in 1 .. n : more[i] = entries[i]
    BY AppendProperties, LenProperties
<1> HIDE DEF more, n
<1>2. n + 1 \in 1 .. n + 1 /\ \A i \in 1 .. n : i \in 1 .. n + 1
    BY <1>1
<1>3. /\ EntrySizes(entries) \in Seq(Nat) /\ Len(EntrySizes(entries)) = n
      /\ \A i \in 1 .. n : EntrySizes(entries)[i] = 4 + entries[i].len
      /\ xa!SizeOf(entries) = xa!Total(EntrySizes(entries))
    BY EntrySizesIs DEF n
<1>4. /\ EntrySizes(more) \in Seq(Nat) /\ Len(EntrySizes(more)) = n + 1
      /\ \A i \in 1 .. n + 1 : EntrySizes(more)[i] = 4 + more[i].len
      /\ xa!SizeOf(more) = xa!Total(EntrySizes(more))
    BY <1>1, EntrySizesIs
<1>5. \A i \in 1 .. n : EntrySizes(more)[i] = EntrySizes(entries)[i]
    BY <1>1, <1>2, <1>3, <1>4
<1>6. xa!Total(EntrySizes(more)) = xa!Total(EntrySizes(entries)) + EntrySizes(more)[n + 1]
    BY <1>3, <1>4, <1>5, TotalOfOneMore
<1>7. QED BY <1>1, <1>2, <1>3, <1>4, <1>6 DEF xa!EntrySize, more

(* remove_old() moves the entries behind to the front.                      *)
LEMMA RemovedIs ==
    ASSUME NEW entries \in Seq(Entry), NEW i \in 1 .. Len(entries)
    PROVE  LET less == xa!RemoveAt(entries, i)
           IN  /\ less \in Seq(Entry) /\ Len(less) = Len(entries) - 1
               /\ \A k \in 1 .. Len(less) : less[k] = IF k < i THEN entries[k] ELSE entries[k + 1]
               /\ xa!SizeOf(less) <= xa!SizeOf(entries)
<1> DEFINE n == Len(entries)
           before == SubSeq(entries, 1, i - 1)
           after == SubSeq(entries, i + 1, n)
           less == xa!RemoveAt(entries, i)
<1>1. n \in Nat /\ i \in 1 .. n /\ \A k \in 1 .. n : entries[k] \in Entry
    BY LenProperties, ElementOfSeq
<1>2. /\ before \in Seq(Entry) /\ Len(before) = i - 1
      /\ \A k \in 1 .. i - 1 : before[k] = entries[k]
    <2>1. 1 \in Int /\ i - 1 \in Int /\ \A k \in 1 .. i - 1 : entries[k] \in Entry
        BY <1>1
    <2>2. /\ before \in Seq(Entry) /\ Len(before) = IF 1 <= i - 1 THEN (i - 1) - 1 + 1 ELSE 0
          /\ \A k \in 1 .. (i - 1) - 1 + 1 : before[k] = entries[1 + k - 1]
        BY <2>1, SubSeqProperties
    <2>3. QED BY <1>1, <2>2
<1>3. /\ after \in Seq(Entry) /\ Len(after) = n - i
      /\ \A k \in 1 .. n - i : after[k] = entries[i + k]
    <2>1. i + 1 \in Int /\ n \in Int /\ \A k \in i + 1 .. n : entries[k] \in Entry
        BY <1>1
    <2>2. /\ after \in Seq(Entry) /\ Len(after) = IF i + 1 <= n THEN n - (i + 1) + 1 ELSE 0
          /\ \A k \in 1 .. n - (i + 1) + 1 : after[k] = entries[(i + 1) + k - 1]
        BY <2>1, SubSeqProperties
    <2>3. n - (i + 1) + 1 = n - i /\ \A k \in 1 .. n - i : (i + 1) + k - 1 = i + k
        BY <1>1
    <2>4. Len(after) = n - i
        BY <1>1, <2>2
    <2>5. QED BY <2>2, <2>3, <2>4
<1>4. less = before \o after
    BY DEF xa!RemoveAt
<1> HIDE DEF before, after, less, n
<1>5. /\ less \in Seq(Entry) /\ Len(less) = (i - 1) + (n - i)
      /\ \A k \in 1 .. (i - 1) + (n - i) :
            less[k] = IF k <= i - 1 THEN before[k] ELSE after[k - (i - 1)]
    BY <1>2, <1>3, <1>4, ConcatProperties
<1>6. /\ less \in Seq(Entry) /\ Len(less) = n - 1
      /\ \A k \in 1 .. n - 1 : less[k] = IF k < i THEN entries[k] ELSE entries[k + 1]
    <2>1. (i - 1) + (n - i) = n - 1
        BY <1>1
    <2>2. ASSUME NEW k \in 1 .. n - 1
          PROVE  less[k] = IF k < i THEN entries[k] ELSE entries[k + 1]
        <3>1. less[k] = IF k <= i - 1 THEN before[k] ELSE after[k - (i - 1)]
            BY <1>5, <2>1
        <3>2. CASE k < i
            <4>1. k <= i - 1 /\ k \in 1 .. i - 1
                BY <1>1, <3>2
            <4>2. QED BY <1>2, <3>1, <3>2, <4>1
        <3>3. CASE ~(k < i)
            <4>1. ~(k <= i - 1) /\ k - (i - 1) \in 1 .. n - i /\ i + (k - (i - 1)) = k + 1
                BY <1>1, <3>3
            <4>2. QED BY <1>3, <3>1, <3>3, <4>1
        <3>4. QED BY <3>2, <3>3
    <2>3. QED BY <1>5, <2>1, <2>2
<1>7. /\ EntrySizes(entries) \in Seq(Nat) /\ Len(EntrySizes(entries)) = n
      /\ \A k \in 1 .. n : EntrySizes(entries)[k] = 4 + entries[k].len
      /\ xa!SizeOf(entries) = xa!Total(EntrySizes(entries))
    BY EntrySizesIs DEF n
<1>8. /\ EntrySizes(less) \in Seq(Nat) /\ Len(EntrySizes(less)) = n - 1
      /\ \A k \in 1 .. n - 1 : EntrySizes(less)[k] = 4 + less[k].len
      /\ xa!SizeOf(less) = xa!Total(EntrySizes(less))
    BY <1>6, EntrySizesIs
<1>9. \A k \in 1 .. n - 1 :
        EntrySizes(less)[k] = IF k < i THEN EntrySizes(entries)[k] ELSE EntrySizes(entries)[k + 1]
    <2>1. \A k \in 1 .. n - 1 : k \in 1 .. n /\ k + 1 \in 1 .. n
        BY <1>1
    <2>2. QED BY <1>6, <1>7, <1>8, <2>1
<1>10. xa!SizeOf(less) <= xa!SizeOf(entries)
    BY <1>1, <1>7, <1>8, <1>9, TotalOfOneLess
<1>11. QED BY <1>6, <1>10 DEF less, n

(* expand_xcache() makes room.                                              *)
LEMMA RoundedUp ==
    ASSUME NEW n \in Nat, NEW m \in Nat \ {0}
    PROVE  ((n + m - 1) \div m) * m \in Nat /\ n <= ((n + m - 1) \div m) * m
<1> DEFINE a == n + m - 1
           q == a \div m
           r == a % m
<1>1. a \in Nat /\ a = n + m - 1
    OBVIOUS
<1>2. a = m * q + r /\ r \in 0 .. m - 1 /\ q \in Int
    BY <1>1
<1> HIDE DEF q, r
<1>3. q >= 0
    <2>1. CASE q < 0
        <3>1. \A k \in Int : k < 0 => m * k <= -m
            OBVIOUS
        <3>2. m * q <= -m
            BY <1>2, <2>1, <3>1
        <3>3. QED BY <1>1, <1>2, <3>2
    <2>2. QED BY <1>2, <2>1
<1>4. m * q \in Nat /\ q * m = m * q
    BY <1>2, <1>3
<1>5. n <= m * q
    BY <1>1, <1>2, <1>4
<1>6. QED BY <1>4, <1>5 DEF q

(* A cache that is grown keeps its entries and has the room asked for. *)
LEMMA Expanded ==
    ASSUME NEW x \in Xcache, NEW size \in Nat
    PROVE  LET y == xa!expand_xcache(x, size)
           IN  y \in Xcache /\ y.entries = x.entries /\ size <= y.maxsize /\ x.maxsize \in Nat
<1>1. x.maxsize \in Nat /\ x.entries \in Seq(Entry) /\ x = [entries |-> x.entries, maxsize |-> x.maxsize]
    BY DEF Xcache
<1>2. CASE size <= x.maxsize
    BY <1>1, <1>2 DEF xa!expand_xcache
<1>3. CASE ~(size <= x.maxsize)
    <2> DEFINE room == IF x.maxsize = 0
                       THEN ((size + MinAlloc - 1) \div MinAlloc) * MinAlloc
                       ELSE xa!Max({2 * x.maxsize, size})
    <2>1. room \in Nat /\ size <= room
        <3>1. CASE x.maxsize = 0
            BY <3>1, RoundedUp, XattrBounds
        <3>2. CASE x.maxsize # 0
            <4>1. \E m \in {2 * x.maxsize, size} : \A k \in {2 * x.maxsize, size} : m >= k
                BY <1>1
            <4>2. xa!Max({2 * x.maxsize, size})
                    = CHOOSE m \in {2 * x.maxsize, size} : \A k \in {2 * x.maxsize, size} : m >= k
                BY DEF xa!Max
            <4> DEFINE top == xa!Max({2 * x.maxsize, size})
            <4>3. top \in {2 * x.maxsize, size} /\ top >= size
                BY <4>1, <4>2
            <4> HIDE DEF top
            <4>4. top \in Nat /\ size <= top
                BY <1>1, <4>3
            <4>5. QED BY <3>2, <4>4 DEF top
        <3>3. QED BY <3>1, <3>2
    <2>2. xa!expand_xcache(x, size) = [x EXCEPT !.maxsize = room]
        BY <1>3 DEF xa!expand_xcache
    <2> HIDE DEF room
    <2>3. QED BY <1>1, <2>1, <2>2 DEF Xcache
<1>4. QED BY <1>2, <1>3

-----------------------------------------------------------------------------
(* The items of an inode's entry                                            *)

(* A buffer with room for all items takes all of them.                      *)
LEMMA WrittenAll ==
    ASSUME NEW s \in Seq(Nat), \A i \in 1 .. Len(s) : s[i] = 0 \/ s[i] >= 6,
           NEW bytes \in Nat, xa!Total(s) <= bytes
    PROVE  xa!Written(s, bytes) = Len(s)
<1> DEFINE n == Len(s)
           stop == {i \in DOMAIN s : s[i] > 0 /\ xa!Sums(s)[i - 1] >= bytes - 3}
<1>1. n \in Nat /\ DOMAIN s = 1 .. n /\ \A i \in 1 .. n : s[i] \in Nat
    BY LenProperties, ElementOfSeq
<1>2. ASSUME NEW i \in 1 .. n, s[i] > 0
      PROVE  ~(xa!Sums(s)[i - 1] >= bytes - 3)
    <2>1. xa!Sums(s)[i - 1] + s[i] <= xa!Total(s) /\ xa!Total(s) \in Nat
        BY SumsGrow
    <2>2. s[i] >= 6 /\ s[i] \in Nat
        BY <1>1, <1>2
    <2>3. xa!Sums(s)[i - 1] \in Nat
        <3>1. i - 1 \in 0 .. n
            BY <1>1
        <3>2. QED BY <3>1, SumsIs
    <2>4. \A a, b, c, d \in Nat : a + b <= c /\ c <= d /\ b >= 6 => ~(a >= d - 3)
        OBVIOUS
    <2>5. QED BY <2>1, <2>2, <2>3, <2>4
<1>3. stop = {}
    BY <1>1, <1>2
<1>4. xa!Written(s, bytes) = xa!Min(stop \union {n + 1}) - 1
    BY DEF xa!Written
<1>5. stop \union {n + 1} = {n + 1}
    BY <1>3
<1> HIDE DEF stop
<1>6. xa!Min({n + 1}) \in {n + 1}
    <2>1. {n + 1} \in SUBSET Nat /\ {n + 1} # {}
        BY <1>1
    <2>2. QED BY <2>1, LeastIs
<1>7. xa!Min(stop \union {n + 1}) = n + 1
    BY <1>5, <1>6
<1> HIDE DEF n
<1>8. (n + 1) - 1 = n
    BY <1>1
<1>9. QED BY <1>4, <1>7, <1>8 DEF n

(* A fixed attribute takes nothing or at least a header and four bytes. *)
LEMMA FixedSizesIs ==
    ASSUME NEW present
    PROVE  /\ xa!FixedSizes(present) \in Seq(Nat)
           /\ \A i \in 1 .. Len(xa!FixedSizes(present)) :
                xa!FixedSizes(present)[i] = 0 \/ xa!FixedSizes(present)[i] >= 6
<1> DEFINE f == xa!FixedSizes(present)
           name == xa!VAR_ATTRS
<1>1. name \in [1 .. 6 -> DOMAIN xa!atsize] /\ DOMAIN name = 1 .. 6
    BY DEF xa!VAR_ATTRS, xa!atsize
<1>2. \A a \in DOMAIN xa!atsize : xa!atsize[a] \in Nat /\ xa!atsize[a] >= 4
    BY DEF xa!atsize
<1>3. f = [k \in 1 .. 6 |-> IF name[k] \in present THEN 2 + xa!atsize[name[k]] ELSE 0]
    BY <1>1 DEF xa!FixedSizes
<1> HIDE DEF f, name
<1>4. ASSUME NEW k \in 1 .. 6
      PROVE  f[k] \in Nat /\ (f[k] = 0 \/ f[k] >= 6)
    <2>1. name[k] \in DOMAIN xa!atsize
        BY <1>1
    <2>2. xa!atsize[name[k]] \in Nat /\ xa!atsize[name[k]] >= 4
        BY <1>2, <2>1
    <2>3. f[k] = IF name[k] \in present THEN 2 + xa!atsize[name[k]] ELSE 0
        BY <1>3
    <2>4. QED BY <2>2, <2>3
<1>5. f \in [1 .. 6 -> Nat]
    BY <1>3, <1>4
<1>6. f \in Seq(Nat) /\ Len(f) = 6
    <2>1. \A m \in Nat : \A g \in [1 .. m -> Nat] : g \in Seq(Nat) /\ Len(g) = m
        OBVIOUS
    <2>2. QED BY ONLY <1>5, <2>1
<1>7. QED BY <1>4, <1>6 DEF f

(* An xattr takes at least its header and the number of its atom. *)
LEMMA XattrSizesIs ==
    ASSUME NEW entries \in Seq(Entry)
    PROVE  /\ xa!XattrSizes(entries) \in Seq(Nat) /\ Len(xa!XattrSizes(entries)) = Len(entries)
           /\ \A i \in 1 .. Len(entries) : xa!XattrSizes(entries)[i] >= 6
<1> DEFINE f == xa!XattrSizes(entries)
           n == Len(entries)
<1>1. n \in Nat /\ DOMAIN entries = 1 .. n /\ \A i \in 1 .. n : entries[i].len \in Nat
    <2>1. \A i \in 1 .. n : entries[i].len \in Nat
        BY EntrySizesIs
    <2>2. QED BY <2>1, LenProperties
<1>2. xa!atsize["XATTR"] = 4
    BY DEF xa!atsize
<1>3. f = [i \in 1 .. n |-> 2 + 4 + entries[i].len]
    BY <1>1, <1>2 DEF xa!XattrSizes
<1> HIDE DEF f, n
<1>4. \A i \in 1 .. n : f[i] \in Nat /\ f[i] >= 6
    BY <1>1, <1>3
<1>5. f \in [1 .. n -> Nat]
    BY <1>3, <1>4
<1>6. f \in Seq(Nat) /\ Len(f) = n
    BY <1>1, <1>5
<1>7. QED BY <1>4, <1>6 DEF f, n

(* What iattr_encode() writes into the size that iattr_encoded_size() gave  *)
(* is every item, and fills it.                                             *)
LEMMA EncodedIs ==
    ASSUME NEW present, NEW x \in Xcache
    PROVE  LET size == xa!iattr_encoded_size(present, x)
               saved == xa!iattr_encode(present, x, size)
           IN  saved.xattrs = x.entries /\ saved.bytes = size
<1> DEFINE f == xa!FixedSizes(present)
           s == xa!XattrSizes(x.entries)
           size == xa!iattr_encoded_size(present, x)
           saved == xa!iattr_encode(present, x, size)
           n == Len(x.entries)
<1>1. x.entries \in Seq(Entry)
    BY DEF Xcache
<1>2. f \in Seq(Nat) /\ \A i \in 1 .. Len(f) : f[i] = 0 \/ f[i] >= 6
    BY FixedSizesIs
<1>3. s \in Seq(Nat) /\ Len(s) = n /\ \A i \in 1 .. Len(s) : s[i] = 0 \/ s[i] >= 6
    BY <1>1, XattrSizesIs
<1>4. size = xa!Total(f) + xa!Total(s)
    BY DEF xa!iattr_encoded_size
<1>5. xa!Total(f) \in Nat /\ xa!Total(s) \in Nat
    <2>1. ASSUME NEW r \in Seq(Nat)
          PROVE  xa!Total(r) \in Nat
        <3>1. Len(r) \in Nat /\ xa!Sums(r) \in [0 .. Len(r) -> Nat]
            BY SumsIs, LenProperties
        <3>2. QED BY <3>1 DEF xa!Total
    <2> HIDE DEF f, s
    <2>2. QED BY <1>2, <1>3, <2>1
<1>6. saved = [xattrs |-> SubSeq(x.entries, 1,
                            xa!Written(s, size - xa!Sums(f)[xa!Written(f, size)])),
               bytes  |-> xa!Sums(f)[xa!Written(f, size)]
                            + xa!Sums(s)[xa!Written(s, size - xa!Sums(f)[xa!Written(f, size)])]]
    BY DEF xa!iattr_encode
<1> HIDE DEF f, s, size, saved, n
<1>7. xa!Written(f, size) = Len(f)
    BY <1>2, <1>4, <1>5, WrittenAll
<1>8. xa!Sums(f)[Len(f)] = xa!Total(f) /\ xa!Sums(s)[Len(s)] = xa!Total(s)
    BY DEF xa!Total
<1>9. size - xa!Total(f) = xa!Total(s)
    BY <1>4, <1>5
<1>10. xa!Written(s, size - xa!Total(f)) = n
    BY <1>3, <1>5, <1>9, WrittenAll
<1>11. saved = [xattrs |-> SubSeq(x.entries, 1, n), bytes |-> xa!Total(f) + xa!Total(s)]
    BY <1>3, <1>6, <1>7, <1>8, <1>10
<1>12. SubSeq(x.entries, 1, n) = x.entries
    BY <1>1 DEF n
<1>13. saved.xattrs = x.entries /\ saved.bytes = size
    BY <1>4, <1>11, <1>12
<1>14. QED BY <1>13 DEF saved, size

(* And it is read back as it was.                                           *)
LEMMA DecodedIs ==
    ASSUME NEW entries \in Seq(Entry)
    PROVE  LET y == xa!iattr_decode(entries)
           IN  y \in Xcache /\ y.entries = entries /\ xa!SizeOf(entries) <= y.maxsize
<1> DEFINE size == xa!SizeOf(entries)
           n == Len(entries)
           y == xa!iattr_decode(entries)
<1>1. /\ size \in Nat /\ n \in Nat
      /\ EntrySizes(entries) \in Seq(Nat) /\ Len(EntrySizes(entries)) = n
      /\ size = xa!Total(EntrySizes(entries))
      /\ \A i \in 1 .. n : EntrySizes(entries)[i] = 4 + entries[i].len /\ entries[i].len \in Nat
    BY EntrySizesIs, LenProperties
<1> HIDE DEF size
<1>2. y = IF size = 0 THEN [entries |-> <<>>, maxsize |-> 0]
          ELSE [entries |-> entries, maxsize |-> size]
    BY DEF xa!iattr_decode, xa!NoXcache, size
<1>3. CASE size = 0
    <2>1. n = 0
        <3> SUFFICES ASSUME n # 0 PROVE FALSE
            OBVIOUS
        <3> DEFINE r == EntrySizes(entries)
        <3>1. 1 \in 1 .. n
            BY <1>1
        <3>2. xa!Sums(r)[0] + r[1] <= size
            BY <1>1, <3>1, SumsGrow
        <3>3. xa!Sums(r)[0] = 0
            BY <1>1, SumsIs
        <3>4. r[1] \in Nat /\ r[1] >= 4
            BY <1>1, <3>1
        <3> HIDE DEF r
        <3>5. QED BY <1>3, <3>2, <3>3, <3>4
    <2>2. entries = <<>>
        BY <2>1, EmptySeq
    <2> HIDE DEF y
    <2>3. QED BY <1>1, <1>2, <1>3, <2>2 DEF y, size, Xcache
<1>4. CASE size # 0
    <2> HIDE DEF y
    <2>1. QED BY <1>1, <1>2, <1>4 DEF y, size, Xcache
<1>5. QED BY <1>3, <1>4

-----------------------------------------------------------------------------
(* The atom table                                                           *)

Slots == [name : XNames, atom : xa!Atoms] \union {xa!NoEntry}
Table == [dict : Seq(Slots), unatom : [xa!Atoms -> [free : BOOLEAN, to : Nat]],
          low : [xa!Atoms -> 0 .. RefMod - 1], high : [xa!Atoms -> Nat],
          freeatom : {0} \union xa!Atoms, atomgen : 1 .. MaxAtom + 1]

Live(t) == {p \in DOMAIN t.dict : t.dict[p] # xa!NoEntry}
Named(t) == {t.dict[p].atom : p \in Live(t)}
NameOf(t, atom) == t.dict[t.unatom[atom].to].name

(* Names and atoms point at each other, and a name is there once.           *)
Links(t) ==
    /\ \A p \in Live(t) : t.unatom[t.dict[p].atom] = xa!At(p)
    /\ \A p, q \in Live(t) : t.dict[p].name = t.dict[q].name => p = q

(* The atoms of the free list are those below atomgen without a name, each  *)
(* once.                                                                    *)
FreeOf(t, list) ==
    /\ list \in Seq(xa!Atoms) /\ xa!FreeList(t, list)
    /\ \A i, j \in 1 .. Len(list) : list[i] = list[j] => i = j
    /\ \A a \in xa!Atoms :
        (a < t.atomgen) <=> (a \in Named(t) \/ \E i \in 1 .. Len(list) : list[i] = a)
    /\ \A i \in 1 .. Len(list) : list[i] \notin Named(t)

(* U[a] are the inodes that have the attribute a.                           *)
Counts(t, U) ==
    /\ U \in [xa!Atoms -> SUBSET XInodes]
    /\ \A a \in xa!Atoms : t.low[a] + RefMod * t.high[a] = Cardinality(U[a])
    /\ \A a \in xa!Atoms : U[a] # {} => a \in Named(t)

Sound(t, U) == t \in Table /\ Links(t) /\ (\E list : FreeOf(t, list)) /\ Counts(t, U)

(* The fields of an atom table, and its entries that are in use. *)
LEMMA TableIs ==
    ASSUME NEW t \in Table
    PROVE  /\ t.dict \in Seq(Slots) /\ t.unatom \in [xa!Atoms -> [free : BOOLEAN, to : Nat]]
           /\ t.low \in [xa!Atoms -> 0 .. RefMod - 1] /\ t.high \in [xa!Atoms -> Nat]
           /\ t.freeatom \in {0} \union xa!Atoms /\ t.atomgen \in 1 .. MaxAtom + 1
           /\ Len(t.dict) \in Nat /\ DOMAIN t.dict = 1 .. Len(t.dict)
           /\ \A p \in DOMAIN t.dict : t.dict[p] \in Slots
           /\ \A p \in DOMAIN t.dict :
                p \in Live(t) <=> t.dict[p].name \in XNames /\ t.dict[p].atom \in xa!Atoms
           /\ \A p \in Live(t) : p \in DOMAIN t.dict /\ t.dict[p].name \in XNames
                                 /\ t.dict[p].atom \in xa!Atoms /\ t.dict[p].atom \in Named(t)
           /\ \A p \in DOMAIN t.dict : p \notin Live(t) => t.dict[p] = xa!NoEntry
           /\ Named(t) \subseteq xa!Atoms
<1>1. t.dict \in Seq(Slots)
    BY DEF Table
<1>2. Len(t.dict) \in Nat /\ DOMAIN t.dict = 1 .. Len(t.dict)
    BY <1>1, LenProperties
<1>3. \A p \in DOMAIN t.dict : t.dict[p] \in Slots
    BY <1>1, <1>2, ElementOfSeq
<1>4. xa!NoEntry.name \notin XNames
    BY XattrAssumption DEF xa!NoEntry
<1>5. \A e \in Slots : e # xa!NoEntry <=> e.name \in XNames /\ e.atom \in xa!Atoms
    BY <1>4 DEF Slots
<1>6. QED BY <1>1, <1>2, <1>3, <1>5 DEF Table, Live, Named

(* The entry of an atom that has a name.                                    *)
LEMMA NamedAt ==
    ASSUME NEW t \in Table, Links(t), NEW a \in Named(t)
    PROVE  /\ t.unatom[a].to \in Live(t) /\ t.dict[t.unatom[a].to].atom = a
           /\ t.unatom[a] = xa!At(t.unatom[a].to) /\ NameOf(t, a) \in XNames
           /\ \A p \in Live(t) : t.dict[p].atom = a => p = t.unatom[a].to
<1>1. PICK p \in Live(t) : t.dict[p].atom = a
    BY DEF Named
<1>2. \A q \in Live(t) : t.dict[q].atom = a => t.unatom[a] = xa!At(q)
    BY DEF Links
<1>3. \A q : xa!At(q).to = q
    BY DEF xa!At
<1>4. t.dict[p].name \in XNames
    BY TableIs
<1>5. QED BY <1>1, <1>2, <1>3, <1>4 DEF NameOf

(* Atoms are found by their names.                                          *)
LEMMA FindIs ==
    ASSUME NEW t \in Table, Links(t), NEW name \in XNames
    PROVE  /\ xa!find_atom(t, name) # 0 =>
                xa!find_atom(t, name) \in Named(t) /\ NameOf(t, xa!find_atom(t, name)) = name
           /\ \A a \in Named(t) : NameOf(t, a) = name => xa!find_atom(t, name) = a
<1> DEFINE has(e) == e.name = name
           found == xa!find_atom(t, name)
<1>1. xa!Range(t.dict) = {t.dict[p] : p \in DOMAIN t.dict}
    BY DEF xa!Range
<1>2. ASSUME NEW p \in DOMAIN t.dict, t.dict[p].name = name
      PROVE  p \in Live(t) /\ t.dict[p].atom \in Named(t) /\ t.dict[p].atom = found
    <2>1. \A q \in DOMAIN t.dict : t.dict[q].name = name => q \in Live(t)
        <3>1. xa!NoEntry.name \notin XNames
            BY XattrAssumption DEF xa!NoEntry
        <3>2. QED BY <3>1 DEF Live
    <2>2. \E e \in xa!Range(t.dict) : e.name = name
        BY <1>1, <1>2
    <2>3. found = (CHOOSE e \in xa!Range(t.dict) : e.name = name).atom
        BY <2>2 DEF xa!find_atom
    <2> DEFINE e == CHOOSE e \in xa!Range(t.dict) : e.name = name
    <2>4. e \in xa!Range(t.dict) /\ e.name = name
        BY <2>2
    <2> HIDE DEF e
    <2>5. PICK q \in DOMAIN t.dict : t.dict[q] = e
        BY <1>1, <2>4
    <2>6. p \in Live(t) /\ q \in Live(t) /\ p = q
        BY <1>2, <2>1, <2>4, <2>5 DEF Links
    <2>7. found = t.dict[p].atom
        BY <2>3, <2>5, <2>6 DEF e
    <2>8. QED BY <2>6, <2>7 DEF Named
<1>3. found # 0 => found \in Named(t) /\ NameOf(t, found) = name
    <2> SUFFICES ASSUME found # 0 PROVE found \in Named(t) /\ NameOf(t, found) = name
        OBVIOUS
    <2>1. \E e \in xa!Range(t.dict) : e.name = name
        BY DEF xa!find_atom
    <2>2. PICK p \in DOMAIN t.dict : t.dict[p].name = name
        BY <1>1, <2>1
    <2>3. p \in Live(t) /\ found \in Named(t) /\ t.dict[p].atom = found
        BY <1>2, <2>2
    <2> HIDE DEF found
    <2>4. p = t.unatom[found].to
        BY <2>3, NamedAt
    <2>5. QED BY <2>2, <2>3, <2>4 DEF NameOf
<1>4. ASSUME NEW a \in Named(t), NameOf(t, a) = name
      PROVE  found = a
    <2>1. t.unatom[a].to \in Live(t) /\ t.dict[t.unatom[a].to].atom = a
        BY NamedAt
    <2>2. t.unatom[a].to \in DOMAIN t.dict /\ t.dict[t.unatom[a].to].name = name
        BY <1>4, <2>1 DEF Live, NameOf
    <2> HIDE DEF found
    <2>3. QED BY <1>2, <2>1, <2>2
<1>5. QED BY <1>3, <1>4

(* Two names are of two atoms.                                              *)
LEMMA NamesDiffer ==
    ASSUME NEW t \in Table, Links(t), NEW a \in Named(t), NEW b \in Named(t),
           NameOf(t, a) = NameOf(t, b)
    PROVE  a = b
<1>1. t.unatom[a].to \in Live(t) /\ t.dict[t.unatom[a].to].atom = a
    BY NamedAt
<1>2. t.unatom[b].to \in Live(t) /\ t.dict[t.unatom[b].to].atom = b
    BY NamedAt
<1>3. t.unatom[a].to = t.unatom[b].to
    BY <1>1, <1>2 DEF Links, NameOf
<1>4. QED BY <1>1, <1>2, <1>3

-----------------------------------------------------------------------------
(* The two halves of a count                                                *)

(* The carry of a low half that is one too high, or below zero.             *)
LEMMA Carries ==
    /\ \A l \in 0 .. RefMod - 1 : l \div RefMod = 0 /\ l % RefMod = l
    /\ RefMod \div RefMod = 1 /\ RefMod % RefMod = 0
    /\ (-1) \div RefMod = -1 /\ (-1) % RefMod = RefMod - 1
<1>1. RefMod \in Nat /\ RefMod >= 2
    BY XattrBounds
<1>2. ASSUME NEW m \in Nat, m >= 2
      PROVE  /\ \A l \in 0 .. m - 1 : l \div m = 0 /\ l % m = l
             /\ m \div m = 1 /\ m % m = 0
             /\ (-1) \div m = -1 /\ (-1) % m = m - 1
    BY <1>2
<1>3. QED BY <1>1, <1>2

Put(t, a, l, h) == [t EXCEPT !.low = [@ EXCEPT ![a] = l], !.high = [@ EXCEPT ![a] = h]]

(* Writing the two halves of one count changes nothing else. *)
LEMMA PutIs ==
    ASSUME NEW t \in Table, NEW a \in xa!Atoms, NEW l \in 0 .. RefMod - 1, NEW h \in Nat
    PROVE  LET u == Put(t, a, l, h)
           IN  /\ u \in Table /\ u.dict = t.dict /\ u.unatom = t.unatom
               /\ u.freeatom = t.freeatom /\ u.atomgen = t.atomgen
               /\ u.low[a] = l /\ u.high[a] = h
               /\ \A b \in xa!Atoms \ {a} : u.low[b] = t.low[b] /\ u.high[b] = t.high[b]
<1> DEFINE low == [t.low EXCEPT ![a] = l]
           high == [t.high EXCEPT ![a] = h]
           u == Put(t, a, l, h)
<1>1. t.low \in [xa!Atoms -> 0 .. RefMod - 1] /\ t.high \in [xa!Atoms -> Nat]
    BY TableIs
<1>2. low \in [xa!Atoms -> 0 .. RefMod - 1] /\ high \in [xa!Atoms -> Nat]
      /\ low[a] = l /\ high[a] = h
      /\ \A b \in xa!Atoms \ {a} : low[b] = t.low[b] /\ high[b] = t.high[b]
    BY <1>1
<1>3. u = [t EXCEPT !.low = low, !.high = high]
    BY DEF Put
<1> HIDE DEF u, low, high
<1>4. /\ u \in Table /\ u.dict = t.dict /\ u.unatom = t.unatom
      /\ u.freeatom = t.freeatom /\ u.atomgen = t.atomgen /\ u.low = low /\ u.high = high
    BY <1>2, <1>3 DEF Table
<1>5. QED BY <1>2, <1>4 DEF u

(* u is t with the count n of a.                                            *)
Halves(t, a, u, n) ==
    \E l \in 0 .. RefMod - 1, h \in Nat : l + RefMod * h = n /\ u = Put(t, a, l, h)

(* The two halves of a number are a way to write it. *)
LEMMA HalvesIs ==
    ASSUME NEW t, NEW a, NEW n, NEW l \in 0 .. RefMod - 1, NEW h \in Nat, l + RefMod * h = n
    PROVE  Halves(t, a, Put(t, a, l, h), n)
BY DEF Halves

(* One reference more does not fail, and the halves hold the number. *)
LEMMA CountUp ==
    ASSUME NEW t \in Table, NEW a \in xa!Atoms
    PROVE  /\ ~ xa!AtomrefFails(t, a, 1)
           /\ Halves(t, a, xa!atomref(t, a, 1), t.low[a] + RefMod * t.high[a] + 1)
<1> DEFINE low == t.low[a] + 1
           high == t.high[a]
           carry == low \div RefMod
<1>1. t.low[a] \in 0 .. RefMod - 1 /\ high \in Nat /\ RefMod \in Nat /\ RefMod >= 2
    BY TableIs, XattrBounds
<1>2. low # 0 /\ low \in 1 .. RefMod
    BY <1>1
<1>3. xa!atomref(t, a, 1) = Put(t, a, low % RefMod, high + carry)
    BY <1>2 DEF xa!atomref, Put
<1>4. xa!AtomrefFails(t, a, 1) <=> high + carry < 0
    BY <1>2 DEF xa!AtomrefFails
<1> HIDE DEF low, high, carry
<1>5. CASE low = RefMod
    <2>1. carry = 1 /\ low % RefMod = 0
        BY <1>5, Carries DEF carry
    <2>2. \A m, k \in Nat : m * (k + 1) = m * k + m
        OBVIOUS
    <2>3. 0 + RefMod * (high + 1) = low + RefMod * high
        BY <1>1, <1>5, <2>2
    <2>4. 0 \in 0 .. RefMod - 1 /\ high + 1 \in Nat /\ ~(high + 1 < 0)
        BY <1>1
    <2>5. low + RefMod * high = t.low[a] + RefMod * t.high[a] + 1
        BY <1>1 DEF low, high
    <2>6. xa!atomref(t, a, 1) = Put(t, a, 0, high + 1) /\ ~ xa!AtomrefFails(t, a, 1)
        BY <1>3, <1>4, <2>1, <2>4
    <2>7. 0 + RefMod * (high + 1) = t.low[a] + RefMod * t.high[a] + 1
        BY <2>3, <2>5
    <2>8. Halves(t, a, Put(t, a, 0, high + 1), t.low[a] + RefMod * t.high[a] + 1)
        BY <2>4, <2>7, HalvesIs
    <2>9. QED BY <2>6, <2>8
<1>6. CASE low # RefMod
    <2>1. low \in 0 .. RefMod - 1
        BY <1>1, <1>2, <1>6
    <2>2. carry = 0 /\ low % RefMod = low /\ high + carry = high
        BY <1>1, <2>1, Carries DEF carry
    <2>3. low + RefMod * high = t.low[a] + RefMod * t.high[a] + 1
        BY <1>1 DEF low, high
    <2>4. xa!atomref(t, a, 1) = Put(t, a, low, high) /\ ~ xa!AtomrefFails(t, a, 1)
        BY <1>1, <1>3, <1>4, <2>2
    <2>5. Halves(t, a, Put(t, a, low, high), t.low[a] + RefMod * t.high[a] + 1)
        BY <1>1, <2>1, <2>3, HalvesIs
    <2>6. QED BY <2>4, <2>5
<1>7. QED BY <1>5, <1>6

(* One reference less: the last one kills the atom.                         *)
LEMMA CountDown ==
    ASSUME NEW t \in Table, NEW a \in xa!Atoms, NEW n \in Nat,
           t.low[a] + RefMod * t.high[a] = n + 1,
           a \in Named(t), Links(t)
    PROVE  /\ ~ xa!AtomrefFails(t, a, -1)
           /\ \E u : /\ Halves(t, a, u, n)
                     /\ xa!atomref(t, a, -1) = IF n = 0 THEN xa!Kill(u, a) ELSE u
<1> DEFINE low == t.low[a] + (-1)
           high == t.high[a]
           carry == low \div RefMod
           u == Put(t, a, low % RefMod, IF low # 0 THEN high + carry ELSE high)
<1>1. /\ t.low[a] \in 0 .. RefMod - 1 /\ high \in Nat /\ RefMod \in Nat /\ RefMod >= 2
      /\ t.low \in [xa!Atoms -> 0 .. RefMod - 1] /\ t.high \in [xa!Atoms -> Nat]
    BY TableIs, XattrBounds
<1>2. low \in -1 .. RefMod - 1 /\ low + RefMod * high = n
    <2>1. RefMod * high \in Nat
        BY <1>1
    <2> DEFINE r == RefMod * high
    <2>2. t.low[a] + r = n + 1
        BY DEF r
    <2> HIDE DEF r
    <2>3. low + r = n /\ low \in -1 .. RefMod - 1
        BY <1>1, <2>1, <2>2 DEF r
    <2>4. QED BY <2>3 DEF r
<1>3. xa!atomref(t, a, -1)
        = IF low = 0 /\ u.high[a] = 0 THEN xa!Kill(u, a) ELSE u
    BY DEF xa!atomref, Put
<1>4. /\ ~ t.unatom[a].free /\ t.dict[t.unatom[a].to].atom = a
    <2>1. t.unatom[a] = xa!At(t.unatom[a].to) /\ t.dict[t.unatom[a].to].atom = a
        BY NamedAt
    <2>2. QED BY <2>1 DEF xa!At
<1>5. xa!AtomrefFails(t, a, -1) <=> low # 0 /\ high + carry < 0
    BY <1>4 DEF xa!AtomrefFails
<1>6. \A l \in 0 .. RefMod - 1, h \in Nat : Put(t, a, l, h).high[a] = h
    BY PutIs
<1> DEFINE l == low % RefMod
           h == IF low # 0 THEN high + carry ELSE high
<1>7. u = Put(t, a, l, h)
    OBVIOUS
<1>8. /\ l \in 0 .. RefMod - 1 /\ h \in Nat /\ l + RefMod * h = n
      /\ (low = 0 /\ h = 0 <=> n = 0) /\ (low # 0 => ~(high + carry < 0))
    <2> HIDE DEF low, high, u
    <2>1. CASE low = -1
        <3>1. carry = -1 /\ l = RefMod - 1
            BY <2>1, Carries
        <3>2. high # 0
            <4>1. \A m \in Nat : m * 0 = 0
                OBVIOUS
            <4>2. high = 0 => RefMod * high = 0
                BY <1>1, <4>1
            <4>3. QED BY <1>2, <2>1, <4>2
        <3>3. h = high - 1 /\ h \in Nat
            BY <1>1, <2>1, <3>1, <3>2
        <3>4. \A m, k \in Nat : k # 0 => m * (k - 1) = m * k - m
            OBVIOUS
        <3>5. RefMod * h = RefMod * high - RefMod /\ RefMod * high \in Nat
            BY <1>1, <3>2, <3>3, <3>4
        <3>6. l + RefMod * h = n
            <4> DEFINE r == RefMod * high
                       q == RefMod * h
            <4>1. r \in Nat /\ q = r - RefMod /\ l = RefMod - 1 /\ -1 + r = n
                BY <1>2, <2>1, <3>1, <3>5
            <4> HIDE DEF r, q, l, h
            <4>2. l + q = n
                BY <1>1, <4>1
            <4>3. QED BY <4>2 DEF q
        <3>7. n # 0
            <4>1. RefMod * h \in Nat
                BY <1>1, <3>3
            <4> DEFINE q == RefMod * h
            <4>2. q \in Nat /\ l + q = n /\ l = RefMod - 1
                BY <3>1, <3>6, <4>1
            <4> HIDE DEF q, l, h
            <4>3. QED BY <1>1, <4>2
        <3>8. l \in 0 .. RefMod - 1
            BY <1>1, <3>1
        <3>9. ~(high + carry < 0)
            BY <1>1, <3>1, <3>2
        <3> HIDE DEF l, h
        <3>10. QED BY <2>1, <3>3, <3>6, <3>7, <3>8, <3>9
    <2>2. CASE low # -1
        <3>1. low \in 0 .. RefMod - 1
            BY <1>1, <1>2, <2>2
        <3>2. carry = 0 /\ l = low
            BY <3>1, Carries
        <3>3. h = high
            BY <1>1, <3>2
        <3>4. ~(high + carry < 0)
            BY <1>1, <3>2
        <3>5. low = 0 /\ high = 0 <=> n = 0
            <4>1. \A m, k \in Nat : m >= 2 => (m * k \in Nat /\ (m * k = 0 <=> k = 0))
                OBVIOUS
            <4> DEFINE r == RefMod * high
            <4>2. r \in Nat /\ (r = 0 <=> high = 0) /\ low + r = n
                BY <1>1, <1>2, <4>1
            <4> HIDE DEF r
            <4>3. QED BY <1>1, <3>1, <4>2
        <3> HIDE DEF l, h
        <3>6. QED BY <1>1, <1>2, <3>1, <3>2, <3>3, <3>4, <3>5
    <2>3. QED BY <2>1, <2>2
<1> HIDE DEF low, high, carry, u, l, h
<1>9. u.high[a] = h
    BY <1>6, <1>7, <1>8
<1>10. Halves(t, a, u, n)
    BY <1>7, <1>8, HalvesIs
<1>11. xa!atomref(t, a, -1) = IF n = 0 THEN xa!Kill(u, a) ELSE u
    BY <1>3, <1>8, <1>9
<1>12. ~ xa!AtomrefFails(t, a, -1)
    BY <1>5, <1>8
<1>13. QED BY <1>10, <1>11, <1>12

-----------------------------------------------------------------------------
(* References come and go                                                   *)

(* The names of the atoms S are what they were.                             *)
Keeps(t, u, S) == \A b \in S : b \in Named(u) /\ NameOf(u, b) = NameOf(t, b)

(* The users of a change from U to V. *)
UsersChange(a, U, V) ==
    V \in [xa!Atoms -> SUBSET XInodes] /\ \A b \in xa!Atoms \ {a} : V[b] = U[b]

(* The attributes that an inode has *)
Used(V) == {b \in xa!Atoms : V[b] # {}}

(* A count that is written goes with a change of the users.                 *)
LEMMA CountWritten ==
    ASSUME NEW t, NEW U, Sound(t, U), NEW a \in xa!Atoms,
           NEW V, UsersChange(a, U, V), V[a] # {} => a \in Named(t),
           NEW u, Halves(t, a, u, Cardinality(V[a]))
    PROVE  Sound(u, V) /\ u.dict = t.dict /\ u.unatom = t.unatom
<1>1. t \in Table /\ Links(t) /\ (\E list : FreeOf(t, list)) /\ Counts(t, U)
    BY DEF Sound
<1>2. V \in [xa!Atoms -> SUBSET XInodes] /\ \A b \in xa!Atoms \ {a} : V[b] = U[b]
    BY DEF UsersChange
<1>3. PICK l \in 0 .. RefMod - 1, h \in Nat : l + RefMod * h = Cardinality(V[a]) /\ u = Put(t, a, l, h)
    BY DEF Halves
<1>4. /\ u \in Table /\ u.dict = t.dict /\ u.unatom = t.unatom
      /\ u.freeatom = t.freeatom /\ u.atomgen = t.atomgen
      /\ u.low[a] = l /\ u.high[a] = h
      /\ \A b \in xa!Atoms \ {a} : u.low[b] = t.low[b] /\ u.high[b] = t.high[b]
    BY <1>1, <1>3, PutIs
<1>5. Live(u) = Live(t) /\ Named(u) = Named(t)
    BY <1>4 DEF Live, Named
<1>6. Links(u)
    BY <1>1, <1>4, <1>5 DEF Links
<1>7. \E list : FreeOf(u, list)
    <2>1. PICK list : FreeOf(t, list)
        BY <1>1
    <2>2. FreeOf(u, list)
        BY <1>4, <1>5, <2>1 DEF FreeOf, xa!FreeList
    <2>3. QED BY <2>2
<1>8. V[a] # {} => a \in Named(t)
    OBVIOUS
<1>9. Counts(u, V)
    <2>1. ASSUME NEW b \in xa!Atoms
          PROVE  u.low[b] + RefMod * u.high[b] = Cardinality(V[b])
        <3>1. CASE b = a
            BY <1>3, <1>4, <3>1
        <3>2. CASE b # a
            <4>1. b \in xa!Atoms \ {a}
                BY <3>2
            <4>2. u.low[b] = t.low[b] /\ u.high[b] = t.high[b] /\ V[b] = U[b]
                BY <1>2, <1>4, <4>1
            <4>3. t.low[b] + RefMod * t.high[b] = Cardinality(U[b])
                BY <1>1 DEF Counts
            <4>4. QED BY <4>2, <4>3
        <3>3. QED BY <3>1, <3>2
    <2>2. ASSUME NEW b \in xa!Atoms, V[b] # {}
          PROVE  b \in Named(u)
        BY <1>2, <1>1, <1>5, <1>8, <2>2 DEF Counts
    <2>3. QED BY <1>2, <2>1, <2>2 DEF Counts
<1>10. QED BY <1>4, <1>6, <1>7, <1>9 DEF Sound

(* An inode gets an attribute: the reference that atomref() adds is its own. *)
LEMMA Acquire ==
    ASSUME NEW t, NEW U, Sound(t, U), NEW a \in Named(t), NEW i \in XInodes, i \notin U[a]
    PROVE  LET u == xa!atomref(t, a, 1)
           IN  /\ ~ xa!AtomrefFails(t, a, 1)
               /\ Sound(u, [U EXCEPT ![a] = @ \union {i}])
               /\ u.dict = t.dict /\ u.unatom = t.unatom
<1> DEFINE V == [U EXCEPT ![a] = @ \union {i}]
           u == xa!atomref(t, a, 1)
<1>1. t \in Table /\ Counts(t, U)
    BY DEF Sound
<1>2. a \in xa!Atoms
    BY <1>1, TableIs
<1>3. U \in [xa!Atoms -> SUBSET XInodes] /\ t.low[a] + RefMod * t.high[a] = Cardinality(U[a])
    BY <1>1, <1>2 DEF Counts
<1>4. /\ V \in [xa!Atoms -> SUBSET XInodes] /\ V[a] = U[a] \union {i}
      /\ \A b \in xa!Atoms \ {a} : V[b] = U[b]
    BY <1>2, <1>3
<1>5. Cardinality(V[a]) = Cardinality(U[a]) + 1
    <2>1. IsFiniteSet(U[a])
        BY <1>2, <1>3, FS_Subset, XattrBounds
    <2>2. QED BY <1>4, <2>1, FS_AddElement
<1>6. ~ xa!AtomrefFails(t, a, 1) /\ Halves(t, a, u, t.low[a] + RefMod * t.high[a] + 1)
    BY <1>1, <1>2, CountUp
<1>7. Halves(t, a, u, Cardinality(V[a]))
    <2>1. t.low[a] + RefMod * t.high[a] + 1 = Cardinality(V[a])
        BY <1>3, <1>5
    <2>2. QED BY <1>6, <2>1
<1> HIDE DEF V, u
<1>8. (V[a] # {} => a \in Named(t)) /\ UsersChange(a, U, V)
    BY <1>4 DEF UsersChange
<1>9. Sound(u, V) /\ u.dict = t.dict /\ u.unatom = t.unatom
    BY <1>2, <1>7, <1>8, CountWritten
<1>10. QED BY <1>6, <1>9 DEF u, V

(* The last reference is gone: the name is taken out and the atom is put on *)
(* the free list.                                                           *)
LEMMA Killed ==
    ASSUME NEW t, NEW U, Sound(t, U), NEW a \in Named(t), U[a] = {}
    PROVE  Sound(xa!Kill(t, a), U) /\ Keeps(t, xa!Kill(t, a), Named(t) \ {a})
<1> DEFINE p == t.unatom[a].to
           u == xa!Kill(t, a)
           dict == [t.dict EXCEPT ![p] = xa!NoEntry]
           unatom == [t.unatom EXCEPT ![a] = xa!Free(t.freeatom)]
<1>1. t \in Table /\ Links(t) /\ Counts(t, U)
    BY DEF Sound
<1>2. PICK list : FreeOf(t, list)
    BY DEF Sound
<1>3. /\ p \in Live(t) /\ t.dict[p].atom = a /\ a \in xa!Atoms
      /\ \A q \in Live(t) : t.dict[q].atom = a => q = p
    BY <1>1, NamedAt, TableIs
<1>4. u = [t EXCEPT !.unatom = unatom, !.freeatom = a, !.dict = dict]
    BY DEF xa!Kill
<1>5. /\ dict \in Seq(Slots) /\ DOMAIN dict = DOMAIN t.dict /\ dict[p] = xa!NoEntry
      /\ \A q \in DOMAIN t.dict \ {p} : dict[q] = t.dict[q]
    <2>1. t.dict \in Seq(Slots) /\ p \in 1 .. Len(t.dict) /\ DOMAIN t.dict = 1 .. Len(t.dict)
        BY <1>1, <1>3, TableIs
    <2>2. xa!NoEntry \in Slots
        BY DEF Slots
    <2>3. /\ dict \in Seq(Slots) /\ Len(dict) = Len(t.dict)
          /\ \A q \in 1 .. Len(t.dict) : dict[q] = IF q = p THEN xa!NoEntry ELSE t.dict[q]
        BY <2>1, <2>2, ExceptSeq
    <2>4. DOMAIN dict = 1 .. Len(dict)
        BY <2>3, LenProperties
    <2> HIDE DEF dict, p
    <2>5. QED BY <2>1, <2>3, <2>4
<1>6. /\ unatom \in [xa!Atoms -> [free : BOOLEAN, to : Nat]] /\ unatom[a] = xa!Free(t.freeatom)
      /\ \A b \in xa!Atoms \ {a} : unatom[b] = t.unatom[b]
    <2>1. t.unatom \in [xa!Atoms -> [free : BOOLEAN, to : Nat]] /\ t.freeatom \in {0} \union xa!Atoms
        BY <1>1, TableIs
    <2>2. xa!Free(t.freeatom) \in [free : BOOLEAN, to : Nat]
        BY <2>1 DEF xa!Free, xa!Atoms
    <2>3. QED BY <1>3, <2>1, <2>2
<1> HIDE DEF p, u, dict, unatom
<1>7. /\ u \in Table /\ u.dict = dict /\ u.unatom = unatom /\ u.freeatom = a
      /\ u.low = t.low /\ u.high = t.high /\ u.atomgen = t.atomgen
    BY <1>1, <1>3, <1>4, <1>5, <1>6 DEF Table
<1>8. Live(u) = Live(t) \ {p} /\ \A q \in Live(u) : u.dict[q] = t.dict[q]
    BY <1>3, <1>5, <1>7 DEF Live
<1>9. Named(u) = Named(t) \ {a}
    BY <1>3, <1>8 DEF Named
<1>10. Links(u)
    <2>1. ASSUME NEW q \in Live(u)
          PROVE  u.unatom[u.dict[q].atom] = xa!At(q)
        <3>1. q \in Live(t) /\ u.dict[q] = t.dict[q] /\ t.dict[q].atom \in xa!Atoms \ {a}
            BY <1>1, <1>3, <1>8, TableIs
        <3>2. QED BY <1>1, <1>6, <1>7, <3>1 DEF Links
    <2>2. \A q, r \in Live(u) : u.dict[q].name = u.dict[r].name => q = r
        BY <1>1, <1>8 DEF Links
    <2>3. QED BY <2>1, <2>2 DEF Links
<1>11. \E more : FreeOf(u, more)
    <2> DEFINE n == Len(list)
               more == <<a>> \o list
    <2>1. /\ list \in Seq(xa!Atoms) /\ n \in Nat
          /\ \A k \in 1 .. n : list[k] \in xa!Atoms \ {a} /\ list[k] \notin Named(t)
          /\ \A i, j \in 1 .. n : list[i] = list[j] => i = j
          /\ t.freeatom = IF n = 0 THEN 0 ELSE list[1]
          /\ \A k \in 1 .. n : t.unatom[list[k]] = xa!Free(IF k = n THEN 0 ELSE list[k + 1])
          /\ \A b \in xa!Atoms : (b < t.atomgen) <=> (b \in Named(t) \/ \E i \in 1 .. n : list[i] = b)
        <3>1. list \in Seq(xa!Atoms) /\ n \in Nat /\ DOMAIN list = 1 .. n
              /\ \A k \in 1 .. n : list[k] \in xa!Atoms /\ list[k] \notin Named(t)
            BY <1>2, LenProperties, ElementOfSeq DEF FreeOf
        <3>2. list = <<>> <=> n = 0
            BY <3>1, EmptySeq
        <3>3. t.freeatom = IF n = 0 THEN 0 ELSE list[1]
            BY <1>2, <3>2 DEF FreeOf, xa!FreeList
        <3>4. \A k \in 1 .. n : t.unatom[list[k]] = xa!Free(IF k = n THEN 0 ELSE list[k + 1])
            BY <1>2, <3>1 DEF FreeOf, xa!FreeList
        <3>5. /\ \A i, j \in 1 .. n : list[i] = list[j] => i = j
              /\ \A b \in xa!Atoms :
                    (b < t.atomgen) <=> (b \in Named(t) \/ \E i \in 1 .. n : list[i] = b)
            BY <1>2 DEF FreeOf
        <3>6. \A k \in 1 .. n : list[k] # a
            BY <3>1
        <3> HIDE DEF n
        <3>7. QED BY <3>1, <3>3, <3>4, <3>5, <3>6
    <2>2. /\ more \in Seq(xa!Atoms) /\ Len(more) = n + 1 /\ DOMAIN more = 1 .. n + 1
          /\ more[1] = a /\ \A k \in 1 .. n : more[k + 1] = list[k]
        <3>1. <<a>> \in Seq(xa!Atoms) /\ Len(<<a>>) = 1 /\ <<a>>[1] = a
            BY <1>3
        <3>2. /\ more \in Seq(xa!Atoms) /\ Len(more) = 1 + n
              /\ \A k \in 1 .. 1 + n : more[k] = IF k <= 1 THEN <<a>>[k] ELSE list[k - 1]
            BY <2>1, <3>1, ConcatProperties
        <3>3. DOMAIN more = 1 .. Len(more)
            BY <3>2, LenProperties
        <3> HIDE DEF more, n
        <3>4. 1 \in 1 .. 1 + n /\ \A k \in 1 .. n : k + 1 \in 1 .. 1 + n /\ ~(k + 1 <= 1) /\ (k + 1) - 1 = k
            BY <2>1
        <3>5. QED BY <2>1, <3>1, <3>2, <3>3, <3>4
    <2> HIDE DEF more, n
    <2>3. \A k \in 1 .. n + 1 : k = 1 \/ \E m \in 1 .. n : k = m + 1
        <3>1. \A k \in 1 .. n + 1 : k # 1 => k - 1 \in 1 .. n /\ k = (k - 1) + 1
            BY <2>1
        <3>2. QED BY <3>1
    <2>4. more # <<>> /\ \A k \in 1 .. n : k + 1 \in 1 .. n + 1 /\ k + 1 # 1
        BY <2>1, <2>2
    <2>5. \A i, j \in 1 .. n + 1 : more[i] = more[j] => i = j
        <3> SUFFICES ASSUME NEW i \in 1 .. n + 1, NEW j \in 1 .. n + 1, more[i] = more[j]
                     PROVE  i = j
            OBVIOUS
        <3>1. CASE i = 1 /\ j = 1
            BY <3>1
        <3>2. CASE i = 1 /\ j # 1
            <4>1. PICK m \in 1 .. n : j = m + 1
                BY <2>3, <3>2
            <4>2. more[j] # a
                <5>1. more[j] = list[m] /\ list[m] \in xa!Atoms \ {a}
                    BY <2>1, <2>2, <4>1
                <5>2. QED BY <5>1
            <4>3. QED BY <2>2, <3>2, <4>2
        <3>3. CASE i # 1 /\ j = 1
            <4>1. PICK m \in 1 .. n : i = m + 1
                BY <2>3, <3>3
            <4>2. more[i] # a
                <5>1. more[i] = list[m] /\ list[m] \in xa!Atoms \ {a}
                    BY <2>1, <2>2, <4>1
                <5>2. QED BY <5>1
            <4>3. QED BY <2>2, <3>3, <4>2
        <3>4. CASE i # 1 /\ j # 1
            <4>1. PICK k \in 1 .. n : i = k + 1
                BY <2>3, <3>4
            <4>2. PICK m \in 1 .. n : j = m + 1
                BY <2>3, <3>4
            <4>3. more[i] = list[k] /\ more[j] = list[m]
                BY <2>2, <4>1, <4>2
            <4>4. k = m
                <5>1. list[k] = list[m]
                    BY <4>3
                <5>2. QED BY <2>1, <5>1
            <4>5. QED BY <4>1, <4>2, <4>4
        <3>5. QED BY <3>1, <3>2, <3>3, <3>4
    <2>6. xa!FreeList(u, more)
        <3>1. u.freeatom = IF more = <<>> THEN 0 ELSE more[1]
            BY <1>7, <2>2, <2>4
        <3>2. ASSUME NEW k \in 1 .. n + 1
              PROVE  u.unatom[more[k]] = xa!Free(IF k = n + 1 THEN 0 ELSE more[k + 1])
            <4>1. CASE k = 1
                <5>1. u.unatom[more[k]] = xa!Free(t.freeatom)
                    BY <1>6, <1>7, <2>2, <4>1
                <5>2. t.freeatom = IF k = n + 1 THEN 0 ELSE more[k + 1]
                    <6>1. CASE n = 0
                        BY <2>1, <4>1, <6>1
                    <6>2. CASE n # 0
                        <7>1. 1 \in 1 .. n /\ 1 # n + 1
                            BY <2>1, <6>2
                        <7>2. QED BY <2>1, <2>2, <4>1, <6>2, <7>1
                    <6>3. QED BY <6>1, <6>2
                <5>3. QED BY <5>1, <5>2
            <4>2. CASE k # 1
                <5>1. PICK m \in 1 .. n : k = m + 1
                    BY <2>3, <4>2
                <5>2. more[k] = list[m] /\ list[m] \in xa!Atoms \ {a}
                    BY <2>1, <2>2, <5>1
                <5>3. u.unatom[more[k]] = xa!Free(IF m = n THEN 0 ELSE list[m + 1])
                    <6>1. t.unatom[list[m]] = xa!Free(IF m = n THEN 0 ELSE list[m + 1])
                        BY <2>1
                    <6>2. u.unatom[list[m]] = t.unatom[list[m]]
                        BY <1>6, <1>7, <5>2
                    <6>3. QED BY <5>2, <6>1, <6>2
                <5>4. (m = n <=> k = n + 1) /\ (m # n => m + 1 \in 1 .. n)
                    BY <2>1, <5>1
                <5>5. m # n => more[k + 1] = list[m + 1]
                    BY <2>2, <5>1, <5>4
                <5>6. QED BY <5>3, <5>4, <5>5
            <4>3. QED BY <4>1, <4>2
        <3>3. QED BY <2>2, <3>1, <3>2 DEF xa!FreeList
    <2>7. ASSUME NEW b \in xa!Atoms
          PROVE  (b < u.atomgen) <=> (b \in Named(u) \/ \E i \in 1 .. n + 1 : more[i] = b)
        <3>1. (\E i \in 1 .. n + 1 : more[i] = b) <=> (b = a \/ \E i \in 1 .. n : list[i] = b)
            <4>1. (\E i \in 1 .. n : list[i] = b) => \E i \in 1 .. n + 1 : more[i] = b
                BY <2>2, <2>4
            <4>2. b = a => \E i \in 1 .. n + 1 : more[i] = b
                <5>1. 1 \in 1 .. n + 1
                    BY <2>1
                <5>2. QED BY <2>2, <5>1
            <4>3. (\E i \in 1 .. n + 1 : more[i] = b) => (b = a \/ \E i \in 1 .. n : list[i] = b)
                BY <2>2, <2>3
            <4>4. QED BY <4>1, <4>2, <4>3
        <3>2. QED BY <1>7, <1>9, <2>1, <3>1
    <2>8. ASSUME NEW k \in 1 .. n + 1
          PROVE  more[k] \notin Named(u)
        <3>1. CASE k = 1
            BY <1>9, <2>2, <3>1
        <3>2. CASE k # 1
            <4>1. PICK m \in 1 .. n : k = m + 1
                BY <2>3, <3>2
            <4>2. more[k] = list[m] /\ list[m] \notin Named(t)
                BY <2>1, <2>2, <4>1
            <4>3. QED BY <1>9, <4>2
        <3>3. QED BY <3>1, <3>2
    <2>9. FreeOf(u, more)
        BY <2>2, <2>5, <2>6, <2>7, <2>8 DEF FreeOf
    <2>10. QED BY <2>9
<1>12. Counts(u, U)
    BY <1>1, <1>7, <1>9 DEF Counts
<1>13. Keeps(t, u, Named(t) \ {a})
    <2> SUFFICES ASSUME NEW b \in Named(t) \ {a}
                 PROVE  b \in Named(u) /\ NameOf(u, b) = NameOf(t, b)
        BY DEF Keeps
    <2>1. b \in Named(u) /\ b \in xa!Atoms \ {a}
        BY <1>1, <1>9, TableIs
    <2>2. u.unatom[b] = t.unatom[b] /\ t.unatom[b].to \in Live(t) /\ t.dict[t.unatom[b].to].atom = b
        BY <1>1, <1>6, <1>7, <2>1, NamedAt
    <2>3. t.unatom[b].to \in Live(u)
        BY <1>3, <1>8, <2>1, <2>2
    <2>4. QED BY <1>8, <2>1, <2>2, <2>3 DEF NameOf
<1>14. QED BY <1>7, <1>10, <1>11, <1>12, <1>13 DEF Sound, u

(* An inode loses an attribute: the reference that atomref() takes is its   *)
(* own.                                                                     *)
LEMMA Release ==
    ASSUME NEW t, NEW U, Sound(t, U), NEW a \in xa!Atoms, NEW i \in U[a],
           NEW V, V = [U EXCEPT ![a] = @ \ {i}]
    PROVE  /\ ~ xa!AtomrefFails(t, a, -1)
           /\ Sound(xa!atomref(t, a, -1), V) /\ Keeps(t, xa!atomref(t, a, -1), Used(V))
<1> DEFINE u == xa!atomref(t, a, -1)
           kept == Used(V)
<1>1. t \in Table /\ Links(t) /\ Counts(t, U)
    BY DEF Sound
<1>2. /\ U \in [xa!Atoms -> SUBSET XInodes] /\ t.low[a] + RefMod * t.high[a] = Cardinality(U[a])
      /\ \A b \in xa!Atoms : U[b] # {} => b \in Named(t)
    BY <1>1 DEF Counts
<1>3. /\ V \in [xa!Atoms -> SUBSET XInodes] /\ V[a] = U[a] \ {i}
      /\ \A b \in xa!Atoms \ {a} : V[b] = U[b]
    BY <1>2
<1>4. a \in Named(t)
    BY <1>2
<1>5. Cardinality(V[a]) \in Nat /\ Cardinality(U[a]) = Cardinality(V[a]) + 1
      /\ (V[a] # {} <=> Cardinality(V[a]) # 0)
    <2>1. IsFiniteSet(U[a])
        BY <1>2, FS_Subset, XattrBounds
    <2>2. IsFiniteSet(V[a])
        BY <1>3, <2>1, FS_Subset
    <2>3. Cardinality(V[a]) = Cardinality(U[a]) - 1 /\ Cardinality(U[a]) \in Nat
        BY <1>3, <2>1, FS_RemoveElement, FS_CardinalityType
    <2>4. Cardinality(V[a]) \in Nat /\ (V[a] # {} <=> Cardinality(V[a]) # 0)
        BY <2>2, FS_EmptySet, FS_CardinalityType
    <2>5. QED BY <2>3, <2>4
<1> DEFINE n == Cardinality(V[a])
<1>6. n \in Nat /\ t.low[a] + RefMod * t.high[a] = n + 1
    BY <1>2, <1>5
<1> HIDE DEF u, n
<1>7. PICK w : /\ Halves(t, a, w, n) /\ u = IF n = 0 THEN xa!Kill(w, a) ELSE w
               /\ ~ xa!AtomrefFails(t, a, -1)
    BY <1>1, <1>4, <1>6, CountDown DEF u
<1>8. Sound(w, V) /\ w.dict = t.dict /\ w.unatom = t.unatom
    <2>1. (V[a] # {} => a \in Named(t)) /\ UsersChange(a, U, V)
        BY <1>3, <1>4 DEF UsersChange
    <2>2. Halves(t, a, w, Cardinality(V[a]))
        BY <1>7 DEF n
    <2>3. Sound(t, U) /\ a \in xa!Atoms
        OBVIOUS
    <2>4. QED BY ONLY <2>1, <2>2, <2>3, CountWritten
<1>9. Named(w) = Named(t) /\ \A b : NameOf(w, b) = NameOf(t, b)
    BY <1>8 DEF Named, Live, NameOf
<1>10. \A b \in kept : b \in Named(t)
    BY <1>2, <1>3 DEF Used
<1>11. CASE n # 0
    <2>1. u = w /\ Keeps(t, u, kept)
        BY <1>7, <1>9, <1>10, <1>11 DEF Keeps
    <2>2. QED BY <1>7, <1>8, <2>1 DEF u
<1>12. CASE n = 0
    <2>1. V[a] = {}
        BY <1>5, <1>12 DEF n
    <2>2. u = xa!Kill(w, a) /\ a \in Named(w)
        BY <1>4, <1>7, <1>9, <1>12
    <2>3. Sound(u, V) /\ Keeps(w, u, Named(w) \ {a})
        BY <1>8, <2>1, <2>2, Killed
    <2>4. \A b \in kept : b \in Named(w) \ {a}
        BY <1>9, <1>10, <2>1 DEF Used
    <2>5. Keeps(t, u, kept)
        BY <1>9, <2>3, <2>4 DEF Keeps
    <2>6. QED BY <1>7, <2>3, <2>5 DEF u
<1>13. QED BY <1>11, <1>12

-----------------------------------------------------------------------------
(* make_atom()                                                              *)

(* u is t without the free atom a, which is in no list.                     *)
Taken(t, u, a, rest) ==
    /\ u \in Table /\ u.dict = t.dict /\ u.unatom = t.unatom /\ u.low = t.low /\ u.high = t.high
    /\ a \in xa!Atoms /\ a \notin Named(t)
    /\ rest \in Seq(xa!Atoms) /\ xa!FreeList(u, rest)
    /\ \A i, j \in 1 .. Len(rest) : rest[i] = rest[j] => i = j
    /\ \A i \in 1 .. Len(rest) : rest[i] \notin Named(t) /\ rest[i] # a
    /\ \A b \in xa!Atoms :
        (b < u.atomgen) <=> (b \in Named(t) \/ b = a \/ \E i \in 1 .. Len(rest) : rest[i] = b)

(* get_freeatom() takes a new atom or the head of the list.                 *)
LEMMA GetFreeatom ==
    ASSUME NEW t \in Table, Links(t), NEW list, FreeOf(t, list),
           xa!get_freeatom(t).atom \in xa!Atoms
    PROVE  LET g == xa!get_freeatom(t)
           IN  /\ g.ok /\ g = [t |-> g.t, atom |-> g.atom, ok |-> TRUE]
               /\ \E rest : Taken(t, g.t, g.atom, rest)
<1> DEFINE g == xa!get_freeatom(t)
           n == Len(list)
<1>1. /\ list \in Seq(xa!Atoms) /\ n \in Nat /\ DOMAIN list = 1 .. n
      /\ \A k \in 1 .. n : list[k] \in xa!Atoms /\ list[k] \notin Named(t)
      /\ \A i, j \in 1 .. n : list[i] = list[j] => i = j
      /\ t.freeatom = (IF list = <<>> THEN 0 ELSE list[1])
      /\ \A k \in 1 .. n : t.unatom[list[k]] = xa!Free(IF k = n THEN 0 ELSE list[k + 1])
      /\ \A b \in xa!Atoms : (b < t.atomgen) <=> (b \in Named(t) \/ \E i \in 1 .. n : list[i] = b)
    <2>1. /\ list \in Seq(xa!Atoms) /\ n \in Nat /\ DOMAIN list = 1 .. n
          /\ \A k \in 1 .. n : list[k] \in xa!Atoms /\ list[k] \notin Named(t)
        BY LenProperties, ElementOfSeq DEF FreeOf
    <2>2. /\ t.freeatom = (IF list = <<>> THEN 0 ELSE list[1])
          /\ \A k \in 1 .. n : t.unatom[list[k]] = xa!Free(IF k = n THEN 0 ELSE list[k + 1])
        BY <2>1 DEF FreeOf, xa!FreeList
    <2>3. /\ \A i, j \in 1 .. n : list[i] = list[j] => i = j
          /\ \A b \in xa!Atoms : (b < t.atomgen) <=> (b \in Named(t) \/ \E i \in 1 .. n : list[i] = b)
        BY DEF FreeOf
    <2> HIDE DEF n
    <2>4. QED BY <2>1, <2>2, <2>3
<1>2. /\ t.unatom \in [xa!Atoms -> [free : BOOLEAN, to : Nat]]
      /\ t.freeatom \in {0} \union xa!Atoms /\ t.atomgen \in 1 .. MaxAtom + 1 /\ MaxAtom \in Nat
      /\ Named(t) \subseteq xa!Atoms
    BY TableIs, XattrBounds
<1>3. 0 \notin xa!Atoms /\ xa!Atoms = 1 .. MaxAtom
    BY DEF xa!Atoms
<1>4. g.atom \in xa!Atoms
    OBVIOUS
<1>5. list = <<>> <=> n = 0
    <2>1. list \in Seq(xa!Atoms) /\ n \in Nat /\ DOMAIN list = 1 .. n
        BY <1>1
    <2>2. QED BY <2>1, EmptySeq
<1>6. CASE t.freeatom = 0
    <2>1. g = [t |-> [t EXCEPT !.atomgen = @ + 1], atom |-> t.atomgen, ok |-> TRUE]
        BY <1>6 DEF xa!get_freeatom
    <2> DEFINE u == [t EXCEPT !.atomgen = @ + 1]
               a == t.atomgen
    <2>2. g.t = u /\ g.atom = a /\ g.ok /\ a \in xa!Atoms
        BY <1>4, <2>1
    <2> HIDE DEF g
    <2>3. list = <<>>
        <3>1. ASSUME list # <<>>
              PROVE  FALSE
            <4>1. 1 \in 1 .. n
                <5>1. n \in Nat /\ n # 0
                    BY <1>1, <1>5, <3>1
                <5> HIDE DEF n
                <5>2. QED BY <5>1
            <4>2. list[1] \in xa!Atoms
                BY <1>1, <4>1
            <4>3. QED BY <1>1, <1>3, <1>6, <3>1, <4>2
        <3>2. QED BY <3>1
    <2>4. n = 0 /\ <<>> \in Seq(xa!Atoms) /\ Len(<<>>) = 0 /\ DOMAIN <<>> = {}
        BY <2>3, EmptySeq
    <2>5. a \in 1 .. MaxAtom /\ a + 1 \in 1 .. MaxAtom + 1
        BY <1>2, <1>3, <2>2
    <2> HIDE DEF n
    <2>6. /\ u \in Table /\ u.dict = t.dict /\ u.unatom = t.unatom /\ u.low = t.low
          /\ u.high = t.high /\ u.atomgen = a + 1 /\ u.freeatom = t.freeatom
        BY <2>5 DEF Table
    <2>7. a \notin Named(t)
        BY <1>1, <2>2, <2>5
    <2>8. xa!FreeList(u, <<>>)
        BY <1>6, <2>4, <2>6 DEF xa!FreeList
    <2> HIDE DEF u
    <2>9. ASSUME NEW b \in xa!Atoms
          PROVE  (b < u.atomgen) <=> (b \in Named(t) \/ b = a)
        <3>1. b < t.atomgen <=> b \in Named(t)
            BY <1>1, <2>4
        <3>2. b \in Int /\ a \in Int
            BY <1>3, <2>5
        <3>3. b < a + 1 <=> b < a \/ b = a
            BY <3>2
        <3>4. QED BY <2>6, <3>1, <3>3
    <2>10. Taken(t, u, a, <<>>)
        BY <2>2, <2>4, <2>6, <2>7, <2>8, <2>9 DEF Taken
    <2>11. g = [t |-> g.t, atom |-> g.atom, ok |-> TRUE]
        BY <2>1, <2>2 DEF u
    <2>12. QED BY <2>2, <2>10, <2>11 DEF g
<1>7. CASE t.freeatom # 0
    <2> DEFINE u == [t EXCEPT !.freeatom = t.unatom[t.freeatom].to]
               a == list[1]
               rest == Tail(list)
    <2>1. list # <<>> /\ n # 0 /\ 1 \in 1 .. n /\ t.freeatom = a
        <3>1. t.freeatom = (IF list = <<>> THEN 0 ELSE list[1]) /\ n \in Nat
            BY <1>1
        <3>2. list # <<>> /\ t.freeatom = a
            BY <1>7, <3>1
        <3>3. n # 0 /\ n \in Nat
            BY <1>5, <3>1, <3>2
        <3> HIDE DEF n
        <3>4. QED BY <3>2, <3>3
    <2>2. a \in xa!Atoms /\ t.unatom[a] = xa!Free(IF 1 = n THEN 0 ELSE list[2])
        <3>1. /\ \A k \in 1 .. n : list[k] \in xa!Atoms
              /\ \A k \in 1 .. n : t.unatom[list[k]] = xa!Free(IF k = n THEN 0 ELSE list[k + 1])
            BY <1>1
        <3> HIDE DEF n
        <3>2. list[1] \in xa!Atoms /\ t.unatom[list[1]] = xa!Free(IF 1 = n THEN 0 ELSE list[1 + 1])
            BY <2>1, <3>1
        <3>3. QED BY <3>2
    <2>3. t.unatom[a].free /\ t.unatom[a].to = (IF 1 = n THEN 0 ELSE list[2])
        BY <2>2 DEF xa!Free
    <2>4. g = [t |-> u, atom |-> a, ok |-> t.unatom[a].free]
        BY <1>7, <2>1 DEF xa!get_freeatom
    <2>5. g.t = u /\ g.atom = a /\ g.ok /\ t.unatom[a].free = TRUE
        BY <1>2, <2>2, <2>3, <2>4
    <2>6. g = [t |-> g.t, atom |-> g.atom, ok |-> TRUE]
        BY <2>4, <2>5
    <2> HIDE DEF g, a
    <2>7. /\ rest \in Seq(xa!Atoms) /\ Len(rest) = n - 1 /\ DOMAIN rest = 1 .. n - 1
          /\ \A k \in 1 .. n - 1 : rest[k] = list[k + 1]
        <3>1. rest \in Seq(xa!Atoms) /\ Len(rest) = n - 1
              /\ \A k \in 1 .. Len(rest) : rest[k] = list[k + 1]
            <4>1. list \in Seq(xa!Atoms) /\ list # <<>>
                BY <1>1, <2>1
            <4>2. QED BY <4>1, HeadTailProperties
        <3>2. DOMAIN rest = 1 .. Len(rest)
            BY <3>1, LenProperties
        <3> HIDE DEF rest, n
        <3>3. QED BY <3>1, <3>2
    <2>8. n # 1 => 2 \in 1 .. n
        <3>1. n \in Nat /\ n # 0
            BY <1>1, <2>1
        <3> HIDE DEF n
        <3>2. QED BY <3>1
    <2>9. t.unatom[a].to \in {0} \union xa!Atoms
        BY <1>1, <2>3, <2>8
    <2>10. /\ u \in Table /\ u.dict = t.dict /\ u.unatom = t.unatom /\ u.low = t.low
           /\ u.high = t.high /\ u.atomgen = t.atomgen /\ u.freeatom = t.unatom[a].to
        BY <2>1, <2>9 DEF Table
    <2> HIDE DEF u, rest, n
    <2>11. \A k \in 1 .. n - 1 : k + 1 \in 1 .. n /\ k + 1 # 1
        BY <1>1
    <2>12. \A k \in 1 .. n : k = 1 \/ \E m \in 1 .. n - 1 : k = m + 1
        <3>1. \A k \in 1 .. n : k # 1 => k - 1 \in 1 .. n - 1 /\ k = (k - 1) + 1
            BY <1>1
        <3>2. QED BY <3>1
    <2>13. xa!FreeList(u, rest)
        <3>1. u.freeatom = IF rest = <<>> THEN 0 ELSE rest[1]
            <4>1. CASE n = 1
                <5>1. rest = <<>>
                    BY <2>7, <4>1, EmptySeq
                <5>2. QED BY <2>3, <2>10, <4>1, <5>1
            <4>2. CASE n # 1
                <5>1. 1 \in 1 .. n - 1 /\ n - 1 # 0
                    BY <1>1, <2>1, <4>2
                <5>2. rest # <<>> /\ rest[1] = list[2]
                    <6>1. rest[1] = list[1 + 1]
                        BY <2>7, <5>1
                    <6>2. rest # <<>>
                        BY <2>7, <5>1, EmptySeq
                    <6>3. QED BY <6>1, <6>2
                <5>3. QED BY <2>3, <2>10, <4>2, <5>2
            <4>3. QED BY <4>1, <4>2
        <3>2. ASSUME NEW k \in 1 .. n - 1
              PROVE  u.unatom[rest[k]] = xa!Free(IF k = n - 1 THEN 0 ELSE rest[k + 1])
            <4>1. u.unatom[rest[k]] = xa!Free(IF k + 1 = n THEN 0 ELSE list[k + 1 + 1])
                <5>1. rest[k] = list[k + 1] /\ k + 1 \in 1 .. n
                    BY <2>7, <2>11
                <5>2. QED BY <1>1, <2>10, <5>1
            <4>2. (k + 1 = n <=> k = n - 1) /\ (k # n - 1 => k + 1 \in 1 .. n - 1)
                BY <1>1
            <4>3. k # n - 1 => rest[k + 1] = list[k + 1 + 1]
                BY <2>7, <4>2
            <4>4. QED BY <4>1, <4>2, <4>3
        <3>3. QED BY <2>7, <3>1, <3>2 DEF xa!FreeList
    <2>14. ASSUME NEW i \in 1 .. n - 1, NEW j \in 1 .. n - 1, rest[i] = rest[j]
           PROVE  i = j
        <3>1. i + 1 \in 1 .. n /\ j + 1 \in 1 .. n /\ list[i + 1] = list[j + 1]
            BY <2>7, <2>11, <2>14
        <3>2. i + 1 = j + 1
            BY <1>1, <3>1
        <3>3. QED BY <1>1, <3>2
    <2>15. ASSUME NEW i \in 1 .. n - 1
           PROVE  rest[i] \notin Named(t) /\ rest[i] # a
        <3>1. i + 1 \in 1 .. n /\ i + 1 # 1 /\ rest[i] = list[i + 1]
            BY <2>7, <2>11
        <3>2. list[i + 1] # list[1]
            BY <1>1, <2>1, <3>1
        <3>3. QED BY <1>1, <3>1, <3>2 DEF a
    <2>16. ASSUME NEW b \in xa!Atoms
           PROVE  (b < u.atomgen) <=> (b \in Named(t) \/ b = a \/ \E i \in 1 .. n - 1 : rest[i] = b)
        <3>1. ASSUME NEW i \in 1 .. n, list[i] = b
              PROVE  b = a \/ \E j \in 1 .. n - 1 : rest[j] = b
            <4>1. CASE i = 1
                BY <3>1, <4>1 DEF a
            <4>2. CASE i # 1
                <5>1. PICK j \in 1 .. n - 1 : i = j + 1
                    BY <2>12, <4>2
                <5>2. rest[j] = b
                    BY <2>7, <3>1, <5>1
                <5>3. QED BY <5>2
            <4>3. QED BY <4>1, <4>2
        <3>2. b = a => \E i \in 1 .. n : list[i] = b
            BY <2>1 DEF a
        <3>3. (\E i \in 1 .. n - 1 : rest[i] = b) => \E i \in 1 .. n : list[i] = b
            BY <2>7, <2>11
        <3>4. QED BY <1>1, <2>10, <3>1, <3>2, <3>3
    <2>17. a \notin Named(t)
        BY <1>1, <2>1 DEF a
    <2>18. Taken(t, u, a, rest)
        BY <2>2, <2>7, <2>10, <2>13, <2>14, <2>15, <2>16, <2>17 DEF Taken
    <2>19. QED BY <2>5, <2>6, <2>18 DEF g
<1>8. QED BY <1>6, <1>7

(* tux_create_entry() finds an entry that is not used, or one behind all.   *)
LEMMA SlotIs ==
    ASSUME NEW t \in Table
    PROVE  /\ xa!Slot(t) \in 1 .. Len(t.dict) + 1
           /\ xa!Slot(t) \in DOMAIN t.dict => xa!Slot(t) \notin Live(t)
<1> DEFINE empty == {p \in DOMAIN t.dict : t.dict[p] = xa!NoEntry}
           S == empty \union {Len(t.dict) + 1}
<1>1. Len(t.dict) \in Nat /\ DOMAIN t.dict = 1 .. Len(t.dict)
    BY TableIs
<1>2. S \in SUBSET Nat /\ S # {} /\ S \subseteq 1 .. Len(t.dict) + 1
    BY <1>1
<1>3. xa!Slot(t) = xa!Min(S)
    BY DEF xa!Slot
<1>4. xa!Min(S) \in S
    <2> HIDE DEF S
    <2>1. QED BY <1>2, LeastIs
<1>5. Len(t.dict) + 1 \notin DOMAIN t.dict
    BY <1>1
<1>6. QED BY <1>2, <1>3, <1>4, <1>5 DEF Live

Enter(t, a, name, p) ==
    [t EXCEPT !.dict = IF p > Len(@) THEN Append(@, [name |-> name, atom |-> a])
                       ELSE [@ EXCEPT ![p] = [name |-> name, atom |-> a]],
              !.unatom[a] = xa!At(p)]

(* The name is entered for the atom that was taken.                         *)
LEMMA Entered ==
    ASSUME NEW t, NEW U, Sound(t, U), NEW v, NEW a, NEW rest, Taken(t, v, a, rest),
           NEW name \in XNames, \A p \in Live(t) : t.dict[p].name # name
    PROVE  LET u == Enter(v, a, name, xa!Slot(t))
           IN  Sound(u, U) /\ Keeps(t, u, Named(t)) /\ a \in Named(u) /\ NameOf(u, a) = name
<1> DEFINE p == xa!Slot(t)
           e == [name |-> name, atom |-> a]
           n == Len(t.dict)
           u == Enter(v, a, name, p)
           dict == IF p > n THEN Append(t.dict, e) ELSE [t.dict EXCEPT ![p] = e]
           unatom == [t.unatom EXCEPT ![a] = xa!At(p)]
<1>1. t \in Table /\ Links(t) /\ Counts(t, U)
    BY DEF Sound
<1>2. /\ v \in Table /\ v.dict = t.dict /\ v.unatom = t.unatom /\ v.low = t.low /\ v.high = t.high
      /\ a \in xa!Atoms /\ a \notin Named(t)
    BY DEF Taken
<1>3. n \in Nat /\ DOMAIN t.dict = 1 .. n /\ t.dict \in Seq(Slots)
      /\ t.unatom \in [xa!Atoms -> [free : BOOLEAN, to : Nat]]
    BY <1>1, TableIs
<1>4. p \in 1 .. n + 1 /\ (p \in DOMAIN t.dict => p \notin Live(t))
    BY <1>1, SlotIs
<1>5. e \in Slots /\ e # xa!NoEntry /\ e.name = name /\ e.atom = a
    <2>1. name # ""
        BY XattrAssumption
    <2>2. QED BY <1>2, <2>1 DEF Slots, xa!NoEntry
<1> HIDE DEF p, e, n
<1>6. /\ dict \in Seq(Slots) /\ DOMAIN dict = DOMAIN t.dict \union {p} /\ dict[p] = e
      /\ \A q \in DOMAIN t.dict : q # p => dict[q] = t.dict[q]
    <2>1. CASE p > n
        <3>1. p = n + 1
            BY <1>3, <1>4, <2>1
        <3>2. /\ dict = Append(t.dict, e) /\ dict \in Seq(Slots) /\ Len(dict) = n + 1
              /\ dict[n + 1] = e /\ \A q \in 1 .. n : dict[q] = t.dict[q]
            BY <1>3, <1>5, <2>1, AppendProperties DEF n
        <3>3. DOMAIN dict = 1 .. n + 1
            BY <3>2, LenProperties
        <3> HIDE DEF dict
        <3>4. QED BY <1>3, <3>1, <3>2, <3>3
    <2>2. CASE ~(p > n)
        <3>1. p \in 1 .. n
            BY <1>3, <1>4, <2>2
        <3>2. /\ dict = [t.dict EXCEPT ![p] = e] /\ dict \in Seq(Slots) /\ Len(dict) = n
              /\ \A q \in 1 .. n : dict[q] = IF q = p THEN e ELSE t.dict[q]
            BY <1>3, <1>5, <2>2, <3>1, ExceptSeq DEF n
        <3>3. DOMAIN dict = 1 .. n
            BY <3>2, LenProperties
        <3> HIDE DEF dict
        <3>4. QED BY <1>3, <3>1, <3>2, <3>3
    <2>3. QED BY <2>1, <2>2
<1>7. /\ unatom \in [xa!Atoms -> [free : BOOLEAN, to : Nat]] /\ unatom[a] = xa!At(p)
      /\ \A b \in xa!Atoms : b # a => unatom[b] = t.unatom[b]
    <2>1. xa!At(p) \in [free : BOOLEAN, to : Nat]
        BY <1>3, <1>4 DEF xa!At
    <2>2. QED BY <1>2, <1>3, <2>1
<1>8. u = [v EXCEPT !.dict = dict, !.unatom = unatom]
    BY <1>2 DEF Enter, e, n
<1> HIDE DEF u, dict, unatom
<1>9. /\ u \in Table /\ u.dict = dict /\ u.unatom = unatom /\ u.low = t.low /\ u.high = t.high
      /\ u.freeatom = v.freeatom /\ u.atomgen = v.atomgen
    BY <1>2, <1>6, <1>7, <1>8 DEF Table
<1>10. /\ Live(u) = Live(t) \union {p} /\ u.dict[p] = e /\ p \notin Live(t)
       /\ \A q \in Live(t) : u.dict[q] = t.dict[q] /\ q # p
    BY <1>4, <1>5, <1>6, <1>9 DEF Live
<1>11. Named(u) = Named(t) \union {a}
    BY <1>5, <1>10 DEF Named
<1>12. Links(u)
    <2>1. ASSUME NEW q \in Live(u)
          PROVE  u.unatom[u.dict[q].atom] = xa!At(q)
        <3>1. CASE q = p
            BY <1>5, <1>7, <1>9, <1>10, <3>1
        <3>2. CASE q # p
            <4>1. q \in Live(t) /\ u.dict[q] = t.dict[q]
                BY <1>10, <3>2
            <4>2. t.dict[q].atom \in Named(t) /\ t.dict[q].atom \in xa!Atoms
                BY <1>1, <4>1, TableIs
            <4>3. t.dict[q].atom # a
                BY <1>2, <4>2
            <4>4. t.unatom[t.dict[q].atom] = xa!At(q)
                BY <1>1, <4>1 DEF Links
            <4>5. QED BY <1>7, <1>9, <4>1, <4>2, <4>3, <4>4
        <3>3. QED BY <3>1, <3>2
    <2>2. ASSUME NEW q \in Live(u), NEW r \in Live(u), u.dict[q].name = u.dict[r].name
          PROVE  q = r
        <3>1. CASE q \in Live(t) /\ r \in Live(t)
            BY <1>1, <1>10, <2>2, <3>1 DEF Links
        <3>2. CASE q = p /\ r \in Live(t)
            BY <1>5, <1>10, <2>2, <3>2
        <3>3. CASE q \in Live(t) /\ r = p
            BY <1>5, <1>10, <2>2, <3>3
        <3>4. QED BY <1>10, <3>1, <3>2, <3>3
    <2>3. QED BY <2>1, <2>2 DEF Links
<1>13. FreeOf(u, rest)
    <2>1. /\ rest \in Seq(xa!Atoms) /\ xa!FreeList(v, rest)
          /\ \A i, j \in 1 .. Len(rest) : rest[i] = rest[j] => i = j
          /\ \A i \in 1 .. Len(rest) : rest[i] \notin Named(t) /\ rest[i] # a
          /\ \A b \in xa!Atoms :
              (b < v.atomgen)
                <=> (b \in Named(t) \/ b = a \/ \E i \in 1 .. Len(rest) : rest[i] = b)
        BY DEF Taken
    <2>2. DOMAIN rest = 1 .. Len(rest) /\ \A i \in 1 .. Len(rest) : rest[i] \in xa!Atoms
        BY <2>1, LenProperties, ElementOfSeq
    <2>3. xa!FreeList(u, rest)
        <3>1. /\ v.freeatom = IF rest = <<>> THEN 0 ELSE rest[1]
              /\ \A k \in DOMAIN rest :
                    v.unatom[rest[k]] = xa!Free(IF k = Len(rest) THEN 0 ELSE rest[k + 1])
            BY <2>1 DEF xa!FreeList
        <3>2. \A k \in DOMAIN rest : u.unatom[rest[k]] = v.unatom[rest[k]]
            BY <1>2, <1>7, <1>9, <2>1, <2>2
        <3>3. u.freeatom = v.freeatom
            BY <1>9
        <3>4. QED BY <3>1, <3>2, <3>3 DEF xa!FreeList
    <2>4. QED BY <1>9, <1>11, <2>1, <2>3 DEF FreeOf
<1>14. Counts(u, U)
    BY <1>1, <1>9, <1>11 DEF Counts
<1>15. Keeps(t, u, Named(t))
    <2> SUFFICES ASSUME NEW b \in Named(t)
                 PROVE  b \in Named(u) /\ NameOf(u, b) = NameOf(t, b)
        BY DEF Keeps
    <2>1. b \in xa!Atoms /\ b # a /\ t.unatom[b].to \in Live(t)
        BY <1>1, <1>2, NamedAt, TableIs
    <2>2. QED BY <1>7, <1>9, <1>10, <1>11, <2>1 DEF NameOf
<1>16. a \in Named(u) /\ NameOf(u, a) = name
    <2>1. xa!At(p).to = p
        BY DEF xa!At
    <2>2. QED BY <1>5, <1>7, <1>9, <1>10, <1>11, <2>1 DEF NameOf
<1>17. QED BY <1>9, <1>12, <1>13, <1>14, <1>15, <1>16 DEF Sound, u, p

(* make_atom() gives the name's atom, and enters the name when it is new.   *)
LEMMA MakeAtom ==
    ASSUME NEW t, NEW U, Sound(t, U), NEW name \in XNames, xa!make_atom(t, name).atom \in xa!Atoms
    PROVE  LET g == xa!make_atom(t, name)
           IN  /\ g.ok /\ Sound(g.t, U) /\ Keeps(t, g.t, Named(t))
               /\ g.atom \in Named(g.t) /\ NameOf(g.t, g.atom) = name
<1> DEFINE found == xa!find_atom(t, name)
           g == xa!make_atom(t, name)
<1>1. t \in Table /\ Links(t)
    BY DEF Sound
<1>2. /\ found # 0 => found \in Named(t) /\ NameOf(t, found) = name
      /\ \A a \in Named(t) : NameOf(t, a) = name => found = a
    BY <1>1, FindIs
<1>3. Keeps(t, t, Named(t))
    BY DEF Keeps
<1> HIDE DEF found
<1>4. CASE found # 0
    <2>1. g = [t |-> t, atom |-> found, ok |-> TRUE]
        BY <1>4 DEF xa!make_atom, found
    <2> HIDE DEF g
    <2>2. g.t = t /\ g.atom = found /\ g.ok
        BY <2>1
    <2>3. QED BY <1>2, <1>3, <1>4, <2>2 DEF g
<1>5. CASE found = 0
    <2> DEFINE f == xa!get_freeatom(t)
    <2>1. g = [f EXCEPT !.t.dict = IF xa!Slot(t) > Len(@)
                                   THEN Append(@, [name |-> name, atom |-> f.atom])
                                   ELSE [@ EXCEPT ![xa!Slot(t)] = [name |-> name, atom |-> f.atom]],
                        !.t.unatom[f.atom] = xa!At(xa!Slot(t))]
        BY <1>5 DEF xa!make_atom, found
    <2>2. \E v, a, ok : f = [t |-> v, atom |-> a, ok |-> ok]
        BY DEF xa!get_freeatom
    <2>3. PICK v, a, ok : f = [t |-> v, atom |-> a, ok |-> ok]
        BY <2>2
    <2>4. f.t = v /\ f.atom = a /\ f.ok = ok
        BY <2>3
    <2> HIDE DEF f, g
    <2>5. g = [t |-> Enter(v, a, name, xa!Slot(t)), atom |-> a, ok |-> ok]
        BY <2>1, <2>3, <2>4 DEF Enter
    <2>6. g.t = Enter(v, a, name, xa!Slot(t)) /\ g.atom = a /\ g.ok = ok
        BY <2>5
    <2>7. PICK list : FreeOf(t, list)
        BY DEF Sound
    <2>8. f.atom \in xa!Atoms
        BY <2>4, <2>6 DEF g
    <2>9. f.ok /\ \E rest : Taken(t, f.t, f.atom, rest)
        BY <1>1, <2>7, <2>8, GetFreeatom DEF f
    <2>10. PICK rest : Taken(t, v, a, rest)
        BY <2>4, <2>9
    <2>11. ASSUME NEW p \in Live(t)
           PROVE  t.dict[p].name # name
        <3>1. t.dict[p].atom \in Named(t) /\ t.dict[p].atom \in xa!Atoms
            BY <1>1, TableIs
        <3>2. p = t.unatom[t.dict[p].atom].to
            BY <1>1, <3>1, NamedAt
        <3>3. NameOf(t, t.dict[p].atom) = t.dict[p].name
            BY <3>2 DEF NameOf
        <3>4. 0 \notin xa!Atoms
            BY DEF xa!Atoms
        <3>5. QED BY <1>2, <1>5, <3>1, <3>3, <3>4
    <2>12. /\ Sound(g.t, U) /\ Keeps(t, g.t, Named(t)) /\ g.atom \in Named(g.t)
           /\ NameOf(g.t, g.atom) = name
        BY <2>6, <2>10, <2>11, Entered
    <2>13. QED BY <2>4, <2>6, <2>9, <2>12 DEF g
<1>6. QED BY <1>4, <1>5

-----------------------------------------------------------------------------
(* The entries of an inode                                                  *)

Has(entries, a) == \E k \in 1 .. Len(entries) : entries[k].atom = a
Distinct(entries) ==
    \A k, m \in 1 .. Len(entries) : entries[k].atom = entries[m].atom => k = m

(* xcache_lookup() finds the entry of an atom.                              *)
LEMMA LookupIs ==
    ASSUME NEW x \in Xcache, Distinct(x.entries), NEW a
    PROVE  LET at == xa!xcache_lookup(x, a)
           IN  /\ at = 0 <=> ~ Has(x.entries, a)
               /\ at # 0 => at \in 1 .. Len(x.entries) /\ x.entries[at].atom = a
<1> DEFINE n == Len(x.entries)
           S == {k \in DOMAIN x.entries : x.entries[k].atom = a} \union {0}
<1>1. n \in Nat /\ DOMAIN x.entries = 1 .. n
    BY LenProperties DEF Xcache
<1>2. xa!xcache_lookup(x, a) = xa!Max(S)
    BY DEF xa!xcache_lookup
<1>3. xa!Max(S) = CHOOSE m \in S : \A k \in S : m >= k
    BY DEF xa!Max
<1>4. CASE Has(x.entries, a)
    <2>1. PICK at \in 1 .. n : x.entries[at].atom = a
        BY <1>4 DEF Has
    <2>2. S = {at, 0}
        BY <1>1, <2>1 DEF Distinct
    <2>3. at \in Nat /\ at # 0
        BY <1>1, <2>1
    <2> HIDE DEF S, n
    <2>4. at \in S /\ \A k \in S : at >= k
        BY <2>2, <2>3
    <2>5. xa!Max(S) \in S /\ xa!Max(S) >= at
        BY <1>3, <2>4
    <2>6. xa!Max(S) = at
        BY <2>2, <2>3, <2>5
    <2>7. QED BY <1>2, <1>4, <2>1, <2>3, <2>6 DEF n
<1>5. CASE ~ Has(x.entries, a)
    <2>1. S = {0}
        BY <1>1, <1>5 DEF Has
    <2> HIDE DEF S
    <2>2. 0 \in S /\ \A k \in S : 0 >= k
        BY <2>1
    <2>3. xa!Max(S) \in S
        BY <1>3, <2>2
    <2>4. QED BY <1>2, <1>5, <2>1, <2>3
<1>6. QED BY <1>4, <1>5

(* The cache of an inode: its entries fit in what is allocated.             *)
Fits(x) == x \in Xcache /\ Distinct(x.entries) /\ xa!SizeOf(x.entries) <= x.maxsize

(* remove_old()                                                             *)
LEMMA RemoveOldIs ==
    ASSUME NEW x, Fits(x), NEW i \in 1 .. Len(x.entries)
    PROVE  LET y == xa!remove_old(x, i)
           IN  /\ Fits(y)
               /\ \A k \in 1 .. Len(y.entries) : \E m \in 1 .. Len(x.entries) :
                    m # i /\ y.entries[k] = x.entries[m]
               /\ \A m \in 1 .. Len(x.entries) : m # i =>
                    \E k \in 1 .. Len(y.entries) : y.entries[k] = x.entries[m]
<1> DEFINE less == xa!RemoveAt(x.entries, i)
           y == xa!remove_old(x, i)
           n == Len(x.entries)
<1>1. /\ x.entries \in Seq(Entry) /\ x.maxsize \in Nat /\ x = [entries |-> x.entries, maxsize |-> x.maxsize]
      /\ Distinct(x.entries) /\ xa!SizeOf(x.entries) <= x.maxsize
    BY DEF Fits, Xcache
<1>2. n \in Nat /\ i \in 1 .. n
    BY <1>1, LenProperties
<1>3. /\ less \in Seq(Entry) /\ Len(less) = n - 1
      /\ \A k \in 1 .. Len(less) : less[k] = IF k < i THEN x.entries[k] ELSE x.entries[k + 1]
      /\ xa!SizeOf(less) <= xa!SizeOf(x.entries)
    BY <1>1, RemovedIs
<1>4. y = [x EXCEPT !.entries = less]
    BY <1>2 DEF xa!remove_old
<1> HIDE DEF less, y, n
<1>5. y.entries = less /\ y.maxsize = x.maxsize /\ y \in Xcache
    BY <1>1, <1>3, <1>4 DEF Xcache
<1>6. xa!SizeOf(less) <= x.maxsize
    <2>1. xa!SizeOf(less) \in Nat /\ xa!SizeOf(x.entries) \in Nat
        BY <1>1, <1>3, EntrySizesIs
    <2>2. QED BY <1>1, <1>3, <2>1
<1> DEFINE from(k) == IF k < i THEN k ELSE k + 1
<1>7. \A k \in 1 .. n - 1 : from(k) \in 1 .. n /\ from(k) # i /\ less[k] = x.entries[from(k)]
    BY <1>2, <1>3
<1>8. \A k, m \in 1 .. n - 1 : from(k) = from(m) => k = m
    BY <1>2
<1>9. \A m \in 1 .. n : m # i => \E k \in 1 .. n - 1 : from(k) = m
    <2> SUFFICES ASSUME NEW m \in 1 .. n, m # i
                 PROVE  \E k \in 1 .. n - 1 : from(k) = m
        OBVIOUS
    <2>1. CASE m < i
        <3>1. m \in 1 .. n - 1 /\ from(m) = m
            BY <1>2, <2>1
        <3>2. QED BY <3>1
    <2>2. CASE ~(m < i)
        <3>1. m - 1 \in 1 .. n - 1 /\ from(m - 1) = m
            BY <1>2, <2>2
        <3>2. QED BY <3>1
    <2>3. QED BY <2>1, <2>2
<1> HIDE DEF from
<1>10. Distinct(less)
    <2>1. ASSUME NEW k \in 1 .. n - 1, NEW m \in 1 .. n - 1, less[k].atom = less[m].atom
          PROVE  k = m
        <3>1. x.entries[from(k)].atom = x.entries[from(m)].atom
            BY <1>7, <2>1
        <3>2. from(k) = from(m)
            BY <1>1, <1>7, <3>1 DEF Distinct, n
        <3>3. QED BY <1>8, <3>2
    <2>2. QED BY <1>3, <2>1 DEF Distinct
<1>11. \A k \in 1 .. n - 1 : \E m \in 1 .. n : m # i /\ less[k] = x.entries[m]
    BY <1>7
<1>12. \A m \in 1 .. n : m # i => \E k \in 1 .. n - 1 : less[k] = x.entries[m]
    BY <1>7, <1>9
<1>13. Fits(y)
    BY <1>5, <1>6, <1>10 DEF Fits
<1>14. QED BY <1>3, <1>5, <1>11, <1>12, <1>13 DEF y, n

(* It takes that entry's atom from the inode, and the others stay.          *)
LEMMA RemoveOldHas ==
    ASSUME NEW x, Fits(x), NEW i \in 1 .. Len(x.entries)
    PROVE  \A a : Has(xa!remove_old(x, i).entries, a) <=> Has(x.entries, a) /\ a # x.entries[i].atom
<1> DEFINE less == xa!remove_old(x, i).entries
<1>1. \A k \in 1 .. Len(less) : \E m \in 1 .. Len(x.entries) : m # i /\ less[k] = x.entries[m]
    BY RemoveOldIs
<1>2. \A m \in 1 .. Len(x.entries) : m # i => \E k \in 1 .. Len(less) : less[k] = x.entries[m]
    BY RemoveOldIs
<1>3. \A m \in 1 .. Len(x.entries) : x.entries[m].atom = x.entries[i].atom => m = i
    BY DEF Fits, Distinct
<1> HIDE DEF less
<1>4. ASSUME NEW a, Has(less, a)
      PROVE  Has(x.entries, a) /\ a # x.entries[i].atom
    <2>1. PICK k \in 1 .. Len(less) : less[k].atom = a
        BY <1>4 DEF Has
    <2>2. PICK m \in 1 .. Len(x.entries) : m # i /\ less[k] = x.entries[m]
        BY <1>1
    <2>3. QED BY <1>3, <2>1, <2>2 DEF Has
<1>5. ASSUME NEW a, Has(x.entries, a), a # x.entries[i].atom
      PROVE  Has(less, a)
    <2>1. PICK m \in 1 .. Len(x.entries) : x.entries[m].atom = a
        BY <1>5 DEF Has
    <2>2. m # i
        BY <1>5, <2>1
    <2>3. PICK k \in 1 .. Len(less) : less[k] = x.entries[m]
        BY <1>2, <2>2
    <2>4. QED BY <2>1, <2>3 DEF Has
<1>6. QED BY <1>4, <1>5 DEF less

(* Insert() of xcache_update(): an entry of an atom that has none           *)
LEMMA InsertIs ==
    ASSUME NEW x, Fits(x), NEW e \in Entry, ~ Has(x.entries, e.atom)
    PROVE  LET y == xa!Insert(x, e)
           IN  /\ Fits(y) /\ y.entries = Append(x.entries, e)
               /\ Len(y.entries) = Len(x.entries) + 1 /\ y.entries[Len(x.entries) + 1] = e
               /\ \A k \in 1 .. Len(x.entries) : y.entries[k] = x.entries[k]
               /\ \A a : Has(y.entries, a) <=> Has(x.entries, a) \/ a = e.atom
<1> DEFINE n == Len(x.entries)
           more == Append(x.entries, e)
           size == xa!SizeOf(x.entries) + xa!EntrySize(e)
           w == xa!expand_xcache(x, size)
           y == xa!Insert(x, e)
<1>1. x \in Xcache /\ x.entries \in Seq(Entry) /\ Distinct(x.entries)
    BY DEF Fits, Xcache
<1>2. /\ more \in Seq(Entry) /\ Len(more) = n + 1 /\ n \in Nat /\ more[n + 1] = e
      /\ \A k \in 1 .. n : more[k] = x.entries[k]
    BY <1>1, AppendProperties, LenProperties
<1>3. size \in Nat
    <2>1. xa!SizeOf(x.entries) \in Nat
        BY <1>1, EntrySizesIs
    <2>2. xa!EntrySize(e) \in Nat
        <3>1. e.len \in Nat
            BY XattrBounds DEF Entry
        <3>2. QED BY <3>1 DEF xa!EntrySize
    <2>3. QED BY <2>1, <2>2
<1>4. xa!SizeOf(more) = size
    BY <1>1, SizeOfAppend
<1>5. y = [w EXCEPT !.entries = Append(@, e)]
    BY DEF xa!Insert
<1> HIDE DEF size
<1>6. w \in Xcache /\ w.entries = x.entries /\ size <= w.maxsize
    BY <1>1, <1>3, Expanded
<1> HIDE DEF w, y, more, n
<1>7. y.entries = more /\ y.maxsize = w.maxsize /\ y \in Xcache
    BY <1>2, <1>5, <1>6 DEF Xcache, more
<1>8. \A k \in 1 .. n + 1 : k \in 1 .. n \/ k = n + 1
    BY <1>2
<1>9. \A k \in 1 .. n : k \in 1 .. n + 1 /\ n + 1 \in 1 .. n + 1
    BY <1>2
<1>10. n + 1 \in 1 .. n + 1
    BY <1>2
<1>11. Distinct(more)
    <2>1. \A k \in 1 .. n : x.entries[k].atom # e.atom
        BY DEF Has, n
    <2>2. \A k, m \in 1 .. n : x.entries[k].atom = x.entries[m].atom => k = m
        BY <1>1 DEF Distinct, n
    <2>3. QED BY <1>2, <1>8, <2>1, <2>2 DEF Distinct
<1>12. \A a : Has(more, a) <=> Has(x.entries, a) \/ a = e.atom
    BY <1>2, <1>8, <1>9, <1>10 DEF Has, n
<1>13. Fits(y)
    BY <1>4, <1>6, <1>7, <1>11 DEF Fits
<1>14. QED BY <1>2, <1>7, <1>12, <1>13 DEF y, n, more

-----------------------------------------------------------------------------
(* at has the lengths of the entries' values, by the names of t.            *)
Matches(t, entries, at) ==
    /\ \A k \in 1 .. Len(entries) :
        /\ entries[k].atom \in Named(t) /\ NameOf(t, entries[k].atom) \in DOMAIN at
        /\ at[NameOf(t, entries[k].atom)] = entries[k].len
    /\ \A name \in DOMAIN at :
        \E k \in 1 .. Len(entries) : NameOf(t, entries[k].atom) = name

(* Entries match under a table that keeps the names of their atoms. *)
LEMMA MatchesKept ==
    ASSUME NEW t, NEW u, NEW entries, NEW at, Matches(t, entries, at), NEW S, Keeps(t, u, S),
           \A a : Has(entries, a) => a \in S
    PROVE  Matches(u, entries, at)
<1>1. \A k \in 1 .. Len(entries) :
        entries[k].atom \in Named(u) /\ NameOf(u, entries[k].atom) = NameOf(t, entries[k].atom)
    BY DEF Keeps, Has
<1>2. QED BY <1>1 DEF Matches

Without(at, name) == xa!Restrict(at, DOMAIN at \ {name})
With(at, name, len) == [n \in DOMAIN at \union {name} |-> IF n = name THEN len ELSE at[n]]

(* They match when remove_old() and the attribute go together. *)
LEMMA MatchesLess ==
    ASSUME NEW t \in Table, Links(t), NEW x, Fits(x), NEW at, Matches(t, x.entries, at),
           NEW i \in 1 .. Len(x.entries)
    PROVE  Matches(t, xa!remove_old(x, i).entries, Without(at, NameOf(t, x.entries[i].atom)))
<1> DEFINE less == xa!remove_old(x, i).entries
           name == NameOf(t, x.entries[i].atom)
           fewer == Without(at, name)
<1>1. /\ \A k \in 1 .. Len(less) : \E m \in 1 .. Len(x.entries) : m # i /\ less[k] = x.entries[m]
      /\ \A m \in 1 .. Len(x.entries) : m # i => \E k \in 1 .. Len(less) : less[k] = x.entries[m]
    BY RemoveOldIs
<1>2. /\ \A k \in 1 .. Len(x.entries) :
            /\ x.entries[k].atom \in Named(t) /\ NameOf(t, x.entries[k].atom) \in DOMAIN at
            /\ at[NameOf(t, x.entries[k].atom)] = x.entries[k].len
      /\ \A n \in DOMAIN at : \E k \in 1 .. Len(x.entries) : NameOf(t, x.entries[k].atom) = n
    BY DEF Matches
<1>3. DOMAIN fewer = DOMAIN at \ {name} /\ \A n \in DOMAIN fewer : fewer[n] = at[n]
    BY DEF Without, xa!Restrict
<1>4. ASSUME NEW m \in 1 .. Len(x.entries), m # i
      PROVE  NameOf(t, x.entries[m].atom) # name
    <2>1. x.entries[m].atom # x.entries[i].atom
        BY <1>4 DEF Fits, Distinct
    <2>2. x.entries[m].atom \in Named(t) /\ x.entries[i].atom \in Named(t)
        BY <1>2
    <2>3. QED BY <2>1, <2>2, NamesDiffer
<1> HIDE DEF less, fewer, name
<1>5. ASSUME NEW k \in 1 .. Len(less)
      PROVE  /\ less[k].atom \in Named(t) /\ NameOf(t, less[k].atom) \in DOMAIN fewer
             /\ fewer[NameOf(t, less[k].atom)] = less[k].len
    <2>1. PICK m \in 1 .. Len(x.entries) : m # i /\ less[k] = x.entries[m]
        BY <1>1
    <2>2. QED BY <1>2, <1>3, <1>4, <2>1
<1>6. ASSUME NEW n \in DOMAIN fewer
      PROVE  \E k \in 1 .. Len(less) : NameOf(t, less[k].atom) = n
    <2>1. n \in DOMAIN at /\ n # name
        BY <1>3
    <2>2. PICK m \in 1 .. Len(x.entries) : NameOf(t, x.entries[m].atom) = n
        BY <1>2, <2>1
    <2>3. m # i
        BY <2>1, <2>2 DEF name
    <2>4. QED BY <1>1, <2>2, <2>3
<1>7. QED BY <1>5, <1>6 DEF Matches, less, fewer, name

(* They match when the entry that is inserted and the attribute come        *)
(* together.                                                                *)
LEMMA MatchesMore ==
    ASSUME NEW t \in Table, Links(t), NEW x, Fits(x), NEW at, Matches(t, x.entries, at),
           NEW e \in Entry, ~ Has(x.entries, e.atom), e.atom \in Named(t)
    PROVE  Matches(t, xa!Insert(x, e).entries, With(at, NameOf(t, e.atom), e.len))
<1> DEFINE more == xa!Insert(x, e).entries
           name == NameOf(t, e.atom)
           greater == With(at, name, e.len)
           n == Len(x.entries)
<1>1. /\ Len(more) = n + 1 /\ more[n + 1] = e /\ \A k \in 1 .. n : more[k] = x.entries[k]
    BY InsertIs
<1>2. n \in Nat
    BY LenProperties DEF Fits, Xcache
<1>3. /\ \A k \in 1 .. n :
            /\ x.entries[k].atom \in Named(t) /\ NameOf(t, x.entries[k].atom) \in DOMAIN at
            /\ at[NameOf(t, x.entries[k].atom)] = x.entries[k].len
      /\ \A s \in DOMAIN at : \E k \in 1 .. n : NameOf(t, x.entries[k].atom) = s
    BY DEF Matches
<1>4. /\ DOMAIN greater = DOMAIN at \union {name} /\ greater[name] = e.len
      /\ \A s \in DOMAIN at : s # name => greater[s] = at[s]
    BY DEF With
<1>5. ASSUME NEW m \in 1 .. n
      PROVE  NameOf(t, x.entries[m].atom) # name
    <2>1. x.entries[m].atom # e.atom
        BY DEF Has
    <2>2. x.entries[m].atom \in Named(t)
        BY <1>3
    <2>3. QED BY <2>1, <2>2, NamesDiffer
<1>6. \A k \in 1 .. n + 1 : k \in 1 .. n \/ k = n + 1
    BY <1>2
<1>7. n + 1 \in 1 .. n + 1 /\ \A k \in 1 .. n : k \in 1 .. n + 1
    BY <1>2
<1> HIDE DEF more, greater, name, n
<1>8. ASSUME NEW k \in 1 .. n + 1
      PROVE  /\ more[k].atom \in Named(t) /\ NameOf(t, more[k].atom) \in DOMAIN greater
             /\ greater[NameOf(t, more[k].atom)] = more[k].len
    <2>1. CASE k = n + 1
        <3>1. more[k] = e /\ e.atom \in Named(t) /\ NameOf(t, e.atom) = name
            BY <1>1, <2>1 DEF name
        <3>2. QED BY <1>4, <3>1
    <2>2. CASE k \in 1 .. n
        BY <1>1, <1>3, <1>4, <1>5, <2>2
    <2>3. QED BY <1>6, <2>1, <2>2
<1>9. ASSUME NEW s \in DOMAIN greater
      PROVE  \E k \in 1 .. n + 1 : NameOf(t, more[k].atom) = s
    <2>1. CASE s = name
        BY <1>1, <1>7, <2>1 DEF name
    <2>2. CASE s # name
        <3>1. PICK k \in 1 .. n : NameOf(t, x.entries[k].atom) = s
            BY <1>3, <1>4, <2>2
        <3>2. QED BY <1>1, <1>7, <3>1
    <2>3. QED BY <2>1, <2>2
<1>10. QED BY <1>1, <1>8, <1>9 DEF Matches, more, greater, name

-----------------------------------------------------------------------------
(* The invariant                                                            *)

(* The inodes that have each attribute, from their caches *)
Users(c) == [a \in xa!Atoms |-> {i \in XInodes : Has(c[i].entries, a)}]

(* The table t goes with the caches c and the attributes at.                *)
Agree(t, c, at) ==
    /\ Sound(t, Users(c))
    /\ c \in [XInodes -> Xcache] /\ at = [i \in XInodes |-> at[i]]
    /\ \A i \in XInodes : Fits(c[i]) /\ Matches(t, c[i].entries, at[i])

XattrInv == Agree(atable, xcache, attrs) /\ xfailed = FALSE

(* What one inode's call changes                                            *)
LEMMA AgreeNext ==
    ASSUME NEW t, NEW c, NEW at, Agree(t, c, at), NEW i \in XInodes,
           NEW x, Fits(x), NEW value, NEW u, Sound(u, Users([c EXCEPT ![i] = x])),
           Matches(u, x.entries, value),
           \A j \in XInodes \ {i} : Matches(u, c[j].entries, at[j])
    PROVE  Agree(u, [c EXCEPT ![i] = x], [at EXCEPT ![i] = value])
<1> DEFINE d == [c EXCEPT ![i] = x]
           bt == [at EXCEPT ![i] = value]
<1>1. c \in [XInodes -> Xcache] /\ at = [j \in XInodes |-> at[j]]
      /\ \A j \in XInodes : Fits(c[j])
    BY DEF Agree
<1>2. x \in Xcache
    BY DEF Fits
<1>3. d \in [XInodes -> Xcache] /\ d[i] = x /\ \A j \in XInodes \ {i} : d[j] = c[j]
    BY <1>1, <1>2
<1>4. DOMAIN at = XInodes
    BY <1>1
<1>5. bt = [j \in XInodes |-> bt[j]] /\ bt[i] = value /\ \A j \in XInodes \ {i} : bt[j] = at[j]
    BY <1>4
<1> HIDE DEF bt
<1>6. ASSUME NEW j \in XInodes
      PROVE  Fits(d[j]) /\ Matches(u, d[j].entries, bt[j])
    <2>1. CASE j = i
        BY <1>3, <1>5, <2>1
    <2>2. CASE j # i
        BY <1>1, <1>3, <1>5, <2>2
    <2>3. QED BY <2>1, <2>2
<1>7. Sound(u, Users(d))
    OBVIOUS
<1> HIDE DEF d
<1>8. QED BY <1>3, <1>5, <1>6, <1>7 DEF Agree, d, bt

(* The users after an inode's entries were changed                          *)
LEMMA UsersNext ==
    ASSUME NEW c \in [XInodes -> Xcache], NEW i \in XInodes, NEW x \in Xcache
    PROVE  Users([c EXCEPT ![i] = x])
             = [a \in xa!Atoms |-> IF Has(x.entries, a) THEN Users(c)[a] \union {i}
                                   ELSE Users(c)[a] \ {i}]
<1> DEFINE d == [c EXCEPT ![i] = x]
<1>1. d[i] = x /\ \A j \in XInodes \ {i} : d[j] = c[j]
    OBVIOUS
<1> HIDE DEF d
<1>2. ASSUME NEW a \in xa!Atoms
      PROVE  {j \in XInodes : Has(d[j].entries, a)}
               = IF Has(x.entries, a) THEN {j \in XInodes : Has(c[j].entries, a)} \union {i}
                 ELSE {j \in XInodes : Has(c[j].entries, a)} \ {i}
    BY <1>1
<1>3. QED BY <1>2 DEF Users, d

(* The atoms of entries are those with users.                               *)
LEMMA EntriesUse ==
    ASSUME NEW c \in [XInodes -> Xcache], NEW i \in XInodes, NEW a, Has(c[i].entries, a)
    PROVE  a \in xa!Atoms /\ i \in Users(c)[a]
<1>1. PICK k \in 1 .. Len(c[i].entries) : c[i].entries[k].atom = a
    BY DEF Has
<1>2. c[i].entries \in Seq(Entry)
    BY DEF Xcache
<1>3. c[i].entries[k] \in Entry
    BY <1>2, ElementOfSeq
<1>4. a \in xa!Atoms
    BY <1>1, <1>3 DEF Entry
<1>5. QED BY <1>4 DEF Users

-----------------------------------------------------------------------------
(* The steps                                                                *)

(* make_atom() changes nothing that an inode has.                           *)
LEMMA AgreeMade ==
    ASSUME NEW t, NEW c, NEW at, Agree(t, c, at), NEW name \in XNames,
           xa!make_atom(t, name).atom \in xa!Atoms
    PROVE  LET g == xa!make_atom(t, name)
           IN  /\ g.ok /\ Agree(g.t, c, at) /\ g.atom \in Named(g.t) /\ NameOf(g.t, g.atom) = name
<1> DEFINE g == xa!make_atom(t, name)
<1>1. /\ Sound(t, Users(c)) /\ c \in [XInodes -> Xcache] /\ at = [i \in XInodes |-> at[i]]
      /\ \A i \in XInodes : Fits(c[i]) /\ Matches(t, c[i].entries, at[i])
    BY DEF Agree
<1>2. /\ g.ok /\ Sound(g.t, Users(c)) /\ Keeps(t, g.t, Named(t))
      /\ g.atom \in Named(g.t) /\ NameOf(g.t, g.atom) = name
    BY <1>1, MakeAtom
<1> HIDE DEF g
<1>3. ASSUME NEW i \in XInodes
      PROVE  Matches(g.t, c[i].entries, at[i])
    <2>1. \A a : Has(c[i].entries, a) => a \in Named(t)
        BY <1>1 DEF Has, Matches
    <2>2. QED BY <1>1, <1>2, <2>1, MatchesKept
<1>4. Agree(g.t, c, at)
    BY <1>1, <1>2, <1>3 DEF Agree
<1>5. QED BY <1>2, <1>4 DEF g

(* set_xattr() keeps the invariant: the entry that is replaced, if any, is  *)
(* taken out first, and only an atom that the inode did not have gets a     *)
(* reference.                                                               *)
LEMMA SetXattrAgrees ==
    ASSUME XattrInv, xa!SetXattr
    PROVE  XattrInv'
<1>1. 1 # 0
    OBVIOUS
<1>2. PICK i \in XInodes, name \in XNames, len \in Lens, flags \in {"", "CREATE", "REPLACE"} :
            xa!set_xattr(i, name, len, flags)
    BY DEF xa!SetXattr
<1> DEFINE g == xa!make_atom(atable, name)
           a == g.atom
           x == xcache[i]
           at == xa!xcache_lookup(x, a)
           e == [atom |-> a, len |-> len]
           old == xa!remove_old(x, at)
           y == xa!Insert(old, e)
           value == With(attrs[i], name, len)
<1>3. a \in xa!Atoms
    BY <1>2 DEF xa!set_xattr
<1>4. IF (at = 0 /\ flags = "REPLACE") \/ (at # 0 /\ flags = "CREATE") \/ ~ g.ok
      THEN atable' = g.t /\ xfailed' = (xfailed \/ ~ g.ok) /\ UNCHANGED <<xcache, attrs>>
      ELSE /\ xcache' = [xcache EXCEPT ![i] = y] /\ attrs' = [attrs EXCEPT ![i] = value]
           /\ IF xa!Use(at # 0) = 0 THEN atable' = g.t /\ UNCHANGED xfailed
              ELSE /\ atable' = xa!atomref(g.t, a, xa!Use(at # 0))
                   /\ xfailed' = (xfailed \/ xa!AtomrefFails(g.t, a, xa!Use(at # 0)))
    <2>1. \A f : [f EXCEPT ![i] = With(@, name, len)] = [f EXCEPT ![i] = With(f[i], name, len)]
        OBVIOUS
    <2>2. xa!set_xattr(i, name, len, flags) <=>
            /\ a \in xa!Atoms
            /\ IF (at = 0 /\ flags = "REPLACE") \/ (at # 0 /\ flags = "CREATE") \/ ~ g.ok
               THEN atable' = g.t /\ xfailed' = (xfailed \/ ~ g.ok) /\ UNCHANGED <<xcache, attrs>>
               ELSE /\ xcache' = [xcache EXCEPT ![i] = y] /\ attrs' = [attrs EXCEPT ![i] = value]
                    /\ IF xa!Use(at # 0) = 0 THEN atable' = g.t /\ UNCHANGED xfailed
                       ELSE /\ atable' = xa!atomref(g.t, a, xa!Use(at # 0))
                            /\ xfailed' = (xfailed \/ xa!AtomrefFails(g.t, a, xa!Use(at # 0)))
        BY DEF xa!set_xattr, With
    <2>3. QED BY <1>2, <2>2
<1>5. Agree(atable, xcache, attrs) /\ xfailed = FALSE
    BY DEF XattrInv
<1>6. g.ok /\ Agree(g.t, xcache, attrs) /\ a \in Named(g.t) /\ NameOf(g.t, a) = name
    BY <1>3, <1>5, AgreeMade
<1>7. /\ Sound(g.t, Users(xcache)) /\ xcache \in [XInodes -> Xcache] /\ Fits(x)
      /\ g.t \in Table /\ Links(g.t)
      /\ \A j \in XInodes : Matches(g.t, xcache[j].entries, attrs[j])
    BY <1>6 DEF Agree, Sound
<1>8. e \in Entry /\ e.atom = a /\ e.len = len
    BY <1>3 DEF Entry
<1> HIDE DEF g, a
<1>9. CASE (at = 0 /\ flags = "REPLACE") \/ (at # 0 /\ flags = "CREATE")
    BY <1>4, <1>5, <1>6, <1>9 DEF XattrInv
<1> DEFINE c == [xcache EXCEPT ![i] = y]
<1>10. CASE ~((at = 0 /\ flags = "REPLACE") \/ (at # 0 /\ flags = "CREATE")) /\ at = 0
    <2>1. ~ Has(x.entries, a) /\ old = x
        BY <1>7, <1>10, LookupIs DEF Fits, xa!remove_old
    <2> DEFINE use == xa!Use(at # 0)
    <2>2. use = 1
        BY <1>10 DEF xa!Use
    <2>3. use # 0
        BY <1>1, <2>2, Zenon
    <2>4. IF use = 0 THEN atable' = g.t /\ UNCHANGED xfailed
         ELSE atable' = xa!atomref(g.t, a, use) /\ xfailed' = (xfailed \/ xa!AtomrefFails(g.t, a, use))
        BY <1>4, <1>6, <1>10
    <2> HIDE DEF use
    <2>5. atable' = xa!atomref(g.t, a, use) /\ xfailed' = (xfailed \/ xa!AtomrefFails(g.t, a, use))
        BY <2>3, <2>4
    <2>6. atable' = xa!atomref(g.t, a, 1) /\ xfailed' = (xfailed \/ xa!AtomrefFails(g.t, a, 1))
        BY <2>2, <2>5, Zenon
    <2>7. /\ xcache' = c /\ attrs' = [attrs EXCEPT ![i] = value]
          /\ atable' = xa!atomref(g.t, a, 1)
          /\ xfailed' = (xfailed \/ xa!AtomrefFails(g.t, a, 1))
        BY <1>4, <1>6, <1>10, <2>6
    <2> HIDE DEF at, x, old, y, e, value
    <2>8. Fits(y) /\ \A b : Has(y.entries, b) <=> Has(x.entries, b) \/ b = a
        BY <1>7, <1>8, <2>1, InsertIs DEF y
    <2>9. Matches(g.t, y.entries, value)
        <3>1. Matches(g.t, x.entries, attrs[i])
            BY <1>7 DEF x
        <3>2. QED BY <1>6, <1>7, <1>8, <2>1, <3>1, MatchesMore DEF y, value
    <2>10. i \notin Users(xcache)[a]
        BY <1>3, <2>1 DEF Users, x
    <2> DEFINE u == xa!atomref(g.t, a, 1)
               V == [Users(xcache) EXCEPT ![a] = @ \union {i}]
    <2>11. ~ xa!AtomrefFails(g.t, a, 1) /\ Sound(u, V) /\ u.dict = g.t.dict /\ u.unatom = g.t.unatom
        BY <1>6, <1>7, <2>10, Acquire
    <2>12. Users(c) = V
        <3>1. y \in Xcache
            BY <2>8 DEF Fits
        <3>2. Users(c) = [b \in xa!Atoms |-> IF Has(y.entries, b) THEN Users(xcache)[b] \union {i}
                                             ELSE Users(xcache)[b] \ {i}]
            BY <1>7, <3>1, UsersNext
        <3>3. ASSUME NEW b \in xa!Atoms, b # a
              PROVE  (IF Has(y.entries, b) THEN Users(xcache)[b] \union {i}
                      ELSE Users(xcache)[b] \ {i}) = Users(xcache)[b]
            <4>1. i \in Users(xcache)[b] <=> Has(x.entries, b)
                BY DEF Users, x
            <4>2. QED BY <2>8, <3>3, <4>1
        <3>4. Has(y.entries, a)
            BY <2>8
        <3>5. Users(xcache) = [b \in xa!Atoms |-> Users(xcache)[b]]
            BY DEF Users
        <3> HIDE DEF c
        <3>6. QED BY <3>2, <3>3, <3>4, <3>5
    <2> HIDE DEF u, V
    <2>13. \A b : NameOf(u, b) = NameOf(g.t, b) /\ (b \in Named(u) <=> b \in Named(g.t))
        BY <2>11 DEF NameOf, Named, Live
    <2>14. Keeps(g.t, u, Named(g.t))
        BY <2>13 DEF Keeps
    <2>15. ASSUME NEW entries, NEW w, Matches(g.t, entries, w)
           PROVE  Matches(u, entries, w)
        <3>1. \A b : Has(entries, b) => b \in Named(g.t)
            BY <2>15 DEF Has, Matches
        <3>2. QED BY <2>14, <2>15, <3>1, MatchesKept
    <2>16. Agree(u, c, [attrs EXCEPT ![i] = value])
        <3>1. Sound(u, Users(c)) /\ Matches(u, y.entries, value)
            BY <2>9, <2>11, <2>12, <2>15
        <3>2. \A j \in XInodes \ {i} : Matches(u, xcache[j].entries, attrs[j])
            BY <1>7, <2>15
        <3>3. QED BY <1>5, <2>8, <3>1, <3>2, AgreeNext
    <2>17. xfailed' = FALSE /\ atable' = u
        BY <1>5, <2>7, <2>11 DEF u
    <2> HIDE DEF c
    <2>18. QED BY <2>7, <2>16, <2>17 DEF XattrInv
<1>11. CASE ~((at = 0 /\ flags = "REPLACE") \/ (at # 0 /\ flags = "CREATE")) /\ at # 0
    <2>1. at \in 1 .. Len(x.entries) /\ x.entries[at].atom = a
        BY <1>7, <1>11, LookupIs DEF Fits
    <2>2. xa!Use(at # 0) = 0
        BY <1>11 DEF xa!Use
    <2>3. xcache' = c /\ attrs' = [attrs EXCEPT ![i] = value] /\ atable' = g.t /\ xfailed' = xfailed
        BY <1>4, <1>6, <1>11, <2>2
    <2> HIDE DEF at, x, old, y, e, value
    <2>4. Fits(old) /\ \A b : Has(old.entries, b) <=> Has(x.entries, b) /\ b # a
        <3>1. Fits(x) /\ at \in 1 .. Len(x.entries)
            BY <1>7, <2>1
        <3>2. /\ Fits(xa!remove_old(x, at))
              /\ \A b : Has(xa!remove_old(x, at).entries, b)
                        <=> Has(x.entries, b) /\ b # x.entries[at].atom
            <4>1. Fits(xa!remove_old(x, at))
                BY <3>1, RemoveOldIs
            <4>2. \A b : Has(xa!remove_old(x, at).entries, b)
                         <=> Has(x.entries, b) /\ b # x.entries[at].atom
                BY ONLY <3>1, RemoveOldHas
            <4>3. QED BY <4>1, <4>2
        <3>3. QED BY <2>1, <3>2 DEF old
    <2>5. Fits(y) /\ \A b : Has(y.entries, b) <=> Has(old.entries, b) \/ b = a
        BY <1>8, <2>4, InsertIs DEF y
    <2>6. Matches(g.t, y.entries, value)
        <3>1. Matches(g.t, x.entries, attrs[i])
            BY <1>7 DEF x
        <3>2. Matches(g.t, old.entries, Without(attrs[i], name))
            BY <1>6, <1>7, <2>1, <3>1, MatchesLess DEF old
        <3>3. Matches(g.t, y.entries, With(Without(attrs[i], name), name, len))
            BY <1>6, <1>7, <1>8, <2>4, <3>2, MatchesMore DEF y
        <3>4. With(Without(attrs[i], name), name, len) = value
            <4> DEFINE less == Without(attrs[i], name)
            <4>1. DOMAIN less = DOMAIN attrs[i] \ {name} /\ \A n \in DOMAIN less : less[n] = attrs[i][n]
                BY DEF Without, xa!Restrict
            <4>2. DOMAIN less \union {name} = DOMAIN attrs[i] \union {name}
                BY <4>1
            <4>3. \A n \in DOMAIN attrs[i] \union {name} :
                    (IF n = name THEN len ELSE less[n]) = (IF n = name THEN len ELSE attrs[i][n])
                BY <4>1
            <4> HIDE DEF less
            <4>4. With(less, name, len) = value
                BY <4>2, <4>3 DEF With, value
            <4>5. QED BY <4>4 DEF less
        <3>5. QED BY <3>3, <3>4
    <2>7. Users(c) = Users(xcache)
        <3>1. y \in Xcache
            BY <2>5 DEF Fits
        <3>2. Users(c) = [b \in xa!Atoms |-> IF Has(y.entries, b) THEN Users(xcache)[b] \union {i}
                                             ELSE Users(xcache)[b] \ {i}]
            BY <1>7, <3>1, UsersNext
        <3>3. ASSUME NEW b \in xa!Atoms
              PROVE  (IF Has(y.entries, b) THEN Users(xcache)[b] \union {i}
                      ELSE Users(xcache)[b] \ {i}) = Users(xcache)[b]
            <4>1. i \in Users(xcache)[b] <=> Has(x.entries, b)
                BY DEF Users, x
            <4>2. Has(x.entries, a)
                BY <2>1 DEF Has
            <4>3. Has(y.entries, b) <=> Has(x.entries, b)
                BY <2>4, <2>5, <4>2
            <4>4. QED BY <4>1, <4>3
        <3>4. Users(xcache) = [b \in xa!Atoms |-> Users(xcache)[b]]
            BY DEF Users
        <3> HIDE DEF c
        <3>5. QED BY <3>2, <3>3, <3>4
    <2>8. Agree(g.t, c, [attrs EXCEPT ![i] = value])
        <3>1. Sound(g.t, Users(c))
            BY <1>7, <2>7
        <3>2. \A j \in XInodes \ {i} : Matches(g.t, xcache[j].entries, attrs[j])
            BY <1>7
        <3>3. QED BY <1>5, <2>5, <2>6, <3>1, <3>2, AgreeNext
    <2> HIDE DEF c
    <2>9. QED BY <1>5, <2>3, <2>8 DEF XattrInv
<1>12. QED BY <1>9, <1>10, <1>11

(* del_xattr() keeps the invariant: the entry goes with its reference. *)
LEMMA DelXattrAgrees ==
    ASSUME XattrInv, xa!DelXattr
    PROVE  XattrInv'
<1>1. PICK i \in XInodes, name \in XNames :
        \E a \in {xa!find_atom(atable, name)} \ {0} :
        \E at \in {xa!xcache_lookup(xcache[i], a)} \ {0} :
            /\ xcache' = [xcache EXCEPT ![i] = xa!remove_old(@, at)]
            /\ attrs' = [attrs EXCEPT ![i] = xa!Restrict(@, DOMAIN @ \ {name})]
            /\ atable' = xa!atomref(atable, a, -1)
            /\ xfailed' = (xfailed \/ xa!AtomrefFails(atable, a, -1))
    BY DEF xa!DelXattr, xa!del_xattr
<1>2. PICK a \in {xa!find_atom(atable, name)} \ {0} :
        \E at \in {xa!xcache_lookup(xcache[i], a)} \ {0} :
            /\ xcache' = [xcache EXCEPT ![i] = xa!remove_old(@, at)]
            /\ attrs' = [attrs EXCEPT ![i] = xa!Restrict(@, DOMAIN @ \ {name})]
            /\ atable' = xa!atomref(atable, a, -1)
            /\ xfailed' = (xfailed \/ xa!AtomrefFails(atable, a, -1))
    BY <1>1
<1>3. PICK at \in {xa!xcache_lookup(xcache[i], a)} \ {0} :
            /\ xcache' = [xcache EXCEPT ![i] = xa!remove_old(@, at)]
            /\ attrs' = [attrs EXCEPT ![i] = xa!Restrict(@, DOMAIN @ \ {name})]
            /\ atable' = xa!atomref(atable, a, -1)
            /\ xfailed' = (xfailed \/ xa!AtomrefFails(atable, a, -1))
    BY <1>2
<1> DEFINE x == xcache[i]
           y == xa!remove_old(x, at)
           c == [xcache EXCEPT ![i] = y]
           value == Without(attrs[i], name)
           u == xa!atomref(atable, a, -1)
           V == [Users(xcache) EXCEPT ![a] = @ \ {i}]
<1>4. /\ xcache' = c /\ attrs' = [attrs EXCEPT ![i] = value]
      /\ atable' = u /\ xfailed' = (xfailed \/ xa!AtomrefFails(atable, a, -1))
    BY <1>3 DEF Without
<1>5. /\ Agree(atable, xcache, attrs) /\ xfailed = FALSE
      /\ Sound(atable, Users(xcache)) /\ xcache \in [XInodes -> Xcache] /\ Fits(x)
      /\ atable \in Table /\ Links(atable)
      /\ \A j \in XInodes : Matches(atable, xcache[j].entries, attrs[j])
    BY DEF XattrInv, Agree, Sound
<1>6. a \in Named(atable) /\ NameOf(atable, a) = name
    <2>1. xa!find_atom(atable, name) # 0 /\ a = xa!find_atom(atable, name)
        BY <1>2
    <2>2. QED BY <1>5, <2>1, FindIs
<1>7. at \in 1 .. Len(x.entries) /\ x.entries[at].atom = a
    <2>1. at = xa!xcache_lookup(x, a) /\ at # 0
        BY <1>3
    <2>2. x \in Xcache /\ Distinct(x.entries)
        BY <1>5 DEF Fits
    <2> HIDE DEF x
    <2>3. QED BY <2>1, <2>2, LookupIs
<1>8. a \in xa!Atoms /\ i \in Users(xcache)[a]
    <2>1. Has(x.entries, a)
        BY <1>7 DEF Has
    <2>2. QED BY <1>5, <2>1, EntriesUse
<1> HIDE DEF x, y, c, value, u, V
<1>9. Fits(y) /\ \A b : Has(y.entries, b) <=> Has(x.entries, b) /\ b # a
    <2>1. /\ Fits(xa!remove_old(x, at))
          /\ \A b : Has(xa!remove_old(x, at).entries, b)
                    <=> Has(x.entries, b) /\ b # x.entries[at].atom
        BY <1>5, <1>7, RemoveOldIs, RemoveOldHas
    <2>2. QED BY <1>7, <2>1 DEF y
<1>10. Matches(atable, y.entries, value)
    <2>1. Matches(atable, x.entries, attrs[i])
        BY <1>5 DEF x
    <2>2. Matches(atable, xa!remove_old(x, at).entries,
                  Without(attrs[i], NameOf(atable, x.entries[at].atom)))
        BY <1>5, <1>7, <2>1, MatchesLess
    <2>3. QED BY <1>6, <1>7, <2>2 DEF y, value
<1>11. /\ ~ xa!AtomrefFails(atable, a, -1)
       /\ Sound(u, V) /\ Keeps(atable, u, Used(V))
    <2>1. V = [Users(xcache) EXCEPT ![a] = @ \ {i}]
        BY DEF V
    <2>2. QED BY <1>5, <1>8, <2>1, Release DEF u
<1>12. Users(c) = V
    <2>1. y \in Xcache
        BY <1>9 DEF Fits
    <2>2. Users(c) = [b \in xa!Atoms |-> IF Has(y.entries, b) THEN Users(xcache)[b] \union {i}
                                         ELSE Users(xcache)[b] \ {i}]
        BY <1>5, <2>1, UsersNext DEF c
    <2>3. ASSUME NEW b \in xa!Atoms, b # a
          PROVE  (IF Has(y.entries, b) THEN Users(xcache)[b] \union {i}
                  ELSE Users(xcache)[b] \ {i}) = Users(xcache)[b]
        <3>1. i \in Users(xcache)[b] <=> Has(x.entries, b)
            BY DEF Users, x
        <3>2. QED BY <1>9, <2>3, <3>1
    <2>4. ~ Has(y.entries, a)
        BY <1>9
    <2>5. Users(xcache) = [b \in xa!Atoms |-> Users(xcache)[b]]
        BY DEF Users
    <2>6. QED BY <1>8, <2>2, <2>3, <2>4, <2>5 DEF V
<1>13. \A j \in XInodes : \A b : Has(c[j].entries, b) => b \in Used(V)
    <2>1. c \in [XInodes -> Xcache]
        BY <1>5, <1>9 DEF c, Fits
    <2>2. QED BY <1>12, <2>1, EntriesUse DEF Used
<1>14. c[i] = y /\ \A j \in XInodes \ {i} : c[j] = xcache[j]
    BY <1>5 DEF c
<1>15. Matches(u, y.entries, value)
    <2>1. \A b : Has(y.entries, b) => b \in Used(V)
        BY <1>13, <1>14
    <2>2. QED BY <1>10, <1>11, <2>1, MatchesKept
<1>16. ASSUME NEW j \in XInodes \ {i}
       PROVE  Matches(u, xcache[j].entries, attrs[j])
    <2>1. \A b : Has(xcache[j].entries, b) => b \in Used(V)
        BY <1>13, <1>14
    <2>2. Matches(atable, xcache[j].entries, attrs[j])
        BY <1>5
    <2>3. QED BY <1>11, <2>1, <2>2, MatchesKept
<1>17. Agree(u, c, [attrs EXCEPT ![i] = value])
    <2>1. Sound(u, Users([xcache EXCEPT ![i] = y]))
        BY <1>11, <1>12 DEF c
    <2>2. QED BY <1>5, <1>9, <1>15, <1>16, <2>1, AgreeNext DEF c
<1>18. QED BY <1>4, <1>5, <1>11, <1>17 DEF XattrInv

-----------------------------------------------------------------------------
(* The tables of xcache_remove_all()                                        *)
LEMMA DroppedIs ==
    ASSUME NEW t, NEW entries \in Seq(Entry)
    PROVE  LET d == xa!Dropped(t, entries)
           IN  /\ d[0] = t
               /\ \A i \in 1 .. Len(entries) : d[i] = xa!atomref(d[i - 1], entries[i].atom, -1)
<1> DEFINE n == Len(entries)
           Step(f, i) == IF i = 0 THEN t ELSE xa!atomref(f[i - 1], entries[i].atom, -1)
           Good == {k \in 0 .. n : \E f : f = [i \in 0 .. k |-> Step(f, i)]}
           d == xa!Dropped(t, entries)
<1>1. n \in Nat
    BY LenProperties
<1>2. 0 \in Good
    <2> DEFINE f == [i \in 0 .. 0 |-> t]
    <2>1. f = [i \in 0 .. 0 |-> Step(f, i)]
        OBVIOUS
    <2>2. 0 \in 0 .. n
        BY <1>1
    <2> HIDE DEF f, n
    <2>3. QED BY <2>1, <2>2
<1>3. ASSUME NEW k \in 0 .. n - 1, k \in Good
      PROVE  k + 1 \in Good
    <2>1. PICK f : f = [i \in 0 .. k |-> Step(f, i)]
        BY <1>3
    <2> DEFINE g == [i \in 0 .. k + 1 |-> IF i <= k THEN f[i]
                                          ELSE xa!atomref(f[k], entries[k + 1].atom, -1)]
    <2>2. ASSUME NEW i \in 0 .. k + 1
          PROVE  g[i] = Step(g, i)
        <3>1. CASE i = 0
            BY <2>1, <3>1
        <3>2. CASE i # 0 /\ i <= k
            <4>1. i \in 0 .. k /\ i - 1 \in 0 .. k /\ i - 1 \in 0 .. k + 1 /\ i - 1 <= k
                BY <3>2
            <4>2. f[i] = xa!atomref(f[i - 1], entries[i].atom, -1)
                BY <2>1, <3>2, <4>1
            <4>3. QED BY <3>2, <4>1, <4>2
        <3>3. CASE i = k + 1
            <4>1. i # 0 /\ i - 1 = k /\ ~(i <= k) /\ k \in 0 .. k + 1 /\ k <= k
                BY <3>3
            <4>2. g[i] = xa!atomref(f[k], entries[k + 1].atom, -1) /\ g[i - 1] = f[k]
                BY <3>3, <4>1
            <4>3. QED BY <3>3, <4>1, <4>2
        <3>4. QED BY <3>1, <3>2, <3>3
    <2>3. g = [i \in 0 .. k + 1 |-> Step(g, i)]
        BY <2>2
    <2>4. k + 1 \in 0 .. n
        BY <1>1
    <2> HIDE DEF g
    <2>5. QED BY <2>3, <2>4
<1>4. n \in Good
    <2> HIDE DEF Good, n
    <2>1. \A i \in 0 .. n : i \in Good
        BY <1>1, <1>2, <1>3, UpTo
    <2>2. QED BY <1>1, <2>1
<1>5. d = [i \in 0 .. n |-> Step(d, i)]
    <2>1. d = CHOOSE f : f = [i \in 0 .. n |-> Step(f, i)]
        BY DEF xa!Dropped
    <2>2. \E f : f = [i \in 0 .. n |-> Step(f, i)]
        BY <1>4
    <2> HIDE DEF d, Step
    <2>3. QED BY <2>1, <2>2
<1> HIDE DEF d
<1>6. 0 \in 0 .. n /\ \A i \in 1 .. n : i \in 0 .. n /\ i # 0
    BY <1>1
<1>7. d[0] = t /\ \A i \in 1 .. n : d[i] = xa!atomref(d[i - 1], entries[i].atom, -1)
    BY <1>5, <1>6
<1>8. QED BY <1>7 DEF d

(* What is kept by two changes in turn is kept by both. *)
LEMMA KeepsThen ==
    ASSUME NEW t, NEW u, NEW v, NEW S, NEW T, Keeps(t, u, S), Keeps(u, v, T), S \subseteq T
    PROVE  Keeps(t, v, S)
BY DEF Keeps

(* After each atomref() of xcache_remove_all() the table is that of inodes  *)
(* of which one has lost the first of its attributes.                       *)
LEMMA DroppedSound ==
    ASSUME NEW t, NEW c \in [XInodes -> Xcache], Sound(t, Users(c)), NEW i \in XInodes,
           Distinct(c[i].entries)
    PROVE  LET entries == c[i].entries
               d == xa!Dropped(t, entries)
               V == [a \in xa!Atoms |-> Users(c)[a] \ {i}]
           IN  /\ \A k \in 1 .. Len(entries) : ~ xa!AtomrefFails(d[k - 1], entries[k].atom, -1)
               /\ Sound(d[Len(entries)], V)
               /\ Keeps(t, d[Len(entries)], Used(V))
<1> DEFINE entries == c[i].entries
           n == Len(entries)
           d == xa!Dropped(t, entries)
           V == [a \in xa!Atoms |-> Users(c)[a] \ {i}]
           kept == Used(V)
           U(k) == [a \in xa!Atoms |-> IF \E m \in 1 .. k : entries[m].atom = a
                                       THEN Users(c)[a] \ {i} ELSE Users(c)[a]]
           Done == {k \in 0 .. n : Sound(d[k], U(k)) /\ Keeps(t, d[k], kept)}
<1>1. entries \in Seq(Entry) /\ n \in Nat /\ Distinct(entries)
    <2>1. entries \in Seq(Entry)
        BY DEF Xcache
    <2>2. QED BY <2>1, LenProperties
<1>2. d[0] = t /\ \A k \in 1 .. n : d[k] = xa!atomref(d[k - 1], entries[k].atom, -1)
    BY <1>1, DroppedIs
<1>3. \A k \in 1 .. n : entries[k].atom \in xa!Atoms /\ i \in Users(c)[entries[k].atom]
    BY <1>1, EntriesUse DEF Has
<1>4. Users(c) \in [xa!Atoms -> SUBSET XInodes]
    BY DEF Users
<1>5. \A b \in xa!Atoms : b \in kept => b \in Named(t)
    <2>1. Counts(t, Users(c))
        BY DEF Sound
    <2> HIDE DEF entries, n, d, U, Done
    <2>2. \A b \in xa!Atoms : V[b] # {} => Users(c)[b] # {}
        OBVIOUS
    <2>3. QED BY <2>1, <2>2 DEF Counts, Used
<1> HIDE DEF entries, n, d
<1>6. 0 \in Done
    <2>1. U(0) = Users(c)
        <3>1. \A a \in xa!Atoms : ~ \E m \in 1 .. 0 : entries[m].atom = a
            OBVIOUS
        <3>2. Users(c) = [a \in xa!Atoms |-> Users(c)[a]]
            BY DEF Users
        <3>3. QED BY <3>1, <3>2
    <2>2. 0 \in 0 .. n
        BY <1>1
    <2> HIDE DEF U, V
    <2>3. Keeps(t, t, kept)
        BY <1>5 DEF Keeps, Used
    <2> HIDE DEF kept
    <2>4. QED BY <1>2, <2>1, <2>2, <2>3
<1>7. ASSUME NEW k \in 1 .. n, k - 1 \in Done
      PROVE  k \in Done /\ ~ xa!AtomrefFails(d[k - 1], entries[k].atom, -1)
    <2> DEFINE a == entries[k].atom
               s == d[k - 1]
    <2>1. a \in xa!Atoms /\ i \in Users(c)[a]
        BY <1>3
    <2>2. k \in 0 .. n /\ \A m \in 1 .. k - 1 : m \in 1 .. n /\ m # k
        BY <1>1
    <2>3. ~ \E m \in 1 .. k - 1 : entries[m].atom = a
        BY <1>1, <2>2 DEF Distinct, n
    <2>4. \A b : (\E m \in 1 .. k : entries[m].atom = b)
                    <=> (b = a \/ \E m \in 1 .. k - 1 : entries[m].atom = b)
        <3>1. \A m \in 1 .. k : m = k \/ m \in 1 .. k - 1
            BY <1>1
        <3>2. k \in 1 .. k /\ \A m \in 1 .. k - 1 : m \in 1 .. k
            BY <1>1
        <3>3. QED BY <3>1, <3>2
    <2>5. U(k - 1)[a] = Users(c)[a]
        BY <2>1, <2>3
    <2>6. U(k) = [U(k - 1) EXCEPT ![a] = @ \ {i}]
        <3>1. ASSUME NEW b \in xa!Atoms
              PROVE  (IF \E m \in 1 .. k : entries[m].atom = b
                      THEN Users(c)[b] \ {i} ELSE Users(c)[b])
                       = IF b = a THEN Users(c)[a] \ {i}
                         ELSE IF \E m \in 1 .. k - 1 : entries[m].atom = b
                              THEN Users(c)[b] \ {i} ELSE Users(c)[b]
            BY <2>4
        <3>2. [U(k - 1) EXCEPT ![a] = @ \ {i}]
                = [b \in xa!Atoms |-> IF b = a THEN Users(c)[a] \ {i}
                         ELSE IF \E m \in 1 .. k - 1 : entries[m].atom = b
                              THEN Users(c)[b] \ {i} ELSE Users(c)[b]]
            BY <2>1, <2>5
        <3> HIDE DEF a
        <3>3. QED BY <3>1, <3>2
    <2>7. Sound(s, U(k - 1)) /\ Keeps(t, s, kept)
        BY <1>7
    <2>8. d[k] = xa!atomref(s, a, -1)
        BY <1>2
    <2>9. \A b \in xa!Atoms : V[b] \subseteq U(k)[b]
        OBVIOUS
    <2> HIDE DEF a, s, U, V
    <2>10. /\ ~ xa!AtomrefFails(s, a, -1) /\ Sound(d[k], U(k))
           /\ Keeps(s, d[k], Used(U(k)))
        <3> DEFINE P == U(k - 1)
        <3>1. i \in P[a] /\ Sound(s, P) /\ a \in xa!Atoms
            BY <2>1, <2>5, <2>7
        <3>2. U(k) = [P EXCEPT ![a] = @ \ {i}]
            BY <2>6
        <3> HIDE DEF P
        <3>3. /\ ~ xa!AtomrefFails(s, a, -1) /\ Sound(xa!atomref(s, a, -1), U(k))
              /\ Keeps(s, xa!atomref(s, a, -1), Used(U(k)))
            BY <3>1, <3>2, Release
        <3>4. QED BY <2>8, <3>3
    <2>11. kept \subseteq Used(U(k))
        BY <2>9 DEF Used
    <2>12. Keeps(t, d[k], kept)
        BY <2>7, <2>10, <2>11, KeepsThen
    <2>13. QED BY <2>2, <2>10, <2>12 DEF a, s
<1>8. \A k \in 0 .. n : k \in Done
    <2> HIDE DEF Done
    <2>1. \A k \in 0 .. n - 1 : k + 1 \in 1 .. n /\ (k + 1) - 1 = k
        BY <1>1
    <2>2. \A k \in 0 .. n - 1 : k \in Done => k + 1 \in Done
        BY <1>7, <2>1
    <2>3. QED BY <1>1, <1>6, <2>2, UpTo
<1>9. \A k \in 1 .. n : ~ xa!AtomrefFails(d[k - 1], entries[k].atom, -1)
    <2>1. \A k \in 1 .. n : k - 1 \in 0 .. n
        BY <1>1
    <2> HIDE DEF Done
    <2>2. QED BY <1>7, <1>8, <2>1
<1>10. U(n) = V
    <2>1. ASSUME NEW a \in xa!Atoms
          PROVE  (IF \E m \in 1 .. n : entries[m].atom = a
                  THEN Users(c)[a] \ {i} ELSE Users(c)[a]) = Users(c)[a] \ {i}
        <3>1. i \in Users(c)[a] => \E m \in 1 .. n : entries[m].atom = a
            BY DEF Users, Has, entries, n
        <3>2. QED BY <3>1
    <2>2. QED BY <2>1
<1>11. Sound(d[n], U(n)) /\ Keeps(t, d[n], kept)
    <2>1. n \in 0 .. n
        BY <1>1
    <2>2. QED BY <1>8, <2>1
<1> HIDE DEF U, V, Done, kept
<1>12. Sound(d[n], V)
    BY <1>10, <1>11
<1>13. QED BY <1>9, <1>11, <1>12 DEF entries, n, d, V, kept

(* An inode without attributes has a cache that fits. *)
LEMMA EmptyFits == Fits(xa!NoXcache)
<1>1. xa!NoXcache.entries = <<>> /\ Len(<<>>) = 0 /\ \A b : ~ Has(<<>>, b)
    BY DEF xa!NoXcache, Has
<1>2. <<>> \in Seq(Entry)
    BY EmptySeq
<1>3. xa!SizeOf(<<>>) = 0
    <2> DEFINE s == EntrySizes(<<>>)
    <2>1. s \in Seq(Nat) /\ Len(s) = 0 /\ xa!SizeOf(<<>>) = xa!Total(s)
        BY <1>1, <1>2, EntrySizesIs
    <2> HIDE DEF s
    <2>2. xa!Sums(s)[0] = 0
        BY <2>1, SumsIs
    <2>3. QED BY <2>1, <2>2 DEF xa!Total
<1>4. xa!NoXcache = [entries |-> <<>>, maxsize |-> 0]
    BY DEF xa!NoXcache
<1>5. xa!NoXcache \in Xcache
    BY <1>2, <1>4 DEF Xcache
<1>6. Distinct(<<>>)
    BY <1>1 DEF Distinct
<1>7. QED BY <1>1, <1>3, <1>4, <1>5, <1>6 DEF Fits

(* xcache_remove_all() keeps the invariant: each entry gives back its       *)
(* reference, and none of the other inodes loses a name.                    *)
LEMMA RemoveAllAgrees ==
    ASSUME XattrInv, xa!RemoveAll
    PROVE  XattrInv'
<1>1. PICK i \in XInodes :
        LET entries == xcache[i].entries
            t       == xa!Dropped(atable, entries)
        IN  /\ entries # <<>>
            /\ atable' = t[Len(entries)]
            /\ xfailed' = (xfailed \/ \E k \in DOMAIN entries :
                                        xa!AtomrefFails(t[k - 1], entries[k].atom, -1))
            /\ xcache' = [xcache EXCEPT ![i] = xa!NoXcache]
            /\ attrs' = [attrs EXCEPT ![i] = <<>>]
    BY DEF xa!RemoveAll
<1> DEFINE entries == xcache[i].entries
           d == xa!Dropped(atable, entries)
           u == d[Len(entries)]
           c == [xcache EXCEPT ![i] = xa!NoXcache]
           V == [a \in xa!Atoms |-> Users(xcache)[a] \ {i}]
           kept == Used(V)
<1>2. /\ Agree(atable, xcache, attrs) /\ xfailed = FALSE
      /\ Sound(atable, Users(xcache)) /\ xcache \in [XInodes -> Xcache]
      /\ \A j \in XInodes : Fits(xcache[j]) /\ Matches(atable, xcache[j].entries, attrs[j])
    BY DEF XattrInv, Agree
<1>3. Distinct(entries) /\ DOMAIN entries = 1 .. Len(entries)
    BY <1>2, LenProperties DEF Fits, Xcache
<1>4. /\ \A k \in 1 .. Len(entries) : ~ xa!AtomrefFails(d[k - 1], entries[k].atom, -1)
      /\ Sound(u, V) /\ Keeps(atable, u, kept)
    BY <1>2, <1>3, DroppedSound
<1>5. /\ xcache' = c /\ attrs' = [attrs EXCEPT ![i] = <<>>] /\ atable' = u
      /\ xfailed' = (xfailed \/ \E k \in DOMAIN entries :
                                    xa!AtomrefFails(d[k - 1], entries[k].atom, -1))
    BY <1>1
<1> HIDE DEF entries, d, u, c, V, kept
<1>6. xfailed' = FALSE
    BY <1>2, <1>3, <1>4, <1>5
<1>7. xa!NoXcache.entries = <<>> /\ Len(<<>>) = 0 /\ \A b : ~ Has(<<>>, b)
    BY DEF xa!NoXcache, Has
<1>8. Fits(xa!NoXcache)
    BY EmptyFits
<1>9. Users(c) = V
    <2>1. xa!NoXcache \in Xcache
        BY <1>8 DEF Fits
    <2>2. Users(c) = [b \in xa!Atoms |-> IF Has(xa!NoXcache.entries, b) THEN Users(xcache)[b] \union {i}
                                         ELSE Users(xcache)[b] \ {i}]
        BY <1>2, <2>1, UsersNext DEF c
    <2>3. QED BY <1>7, <2>2 DEF V
<1>10. c \in [XInodes -> Xcache] /\ \A j \in XInodes \ {i} : c[j] = xcache[j]
    BY <1>2, <1>8 DEF c, Fits
<1>11. Matches(u, xa!NoXcache.entries, <<>>)
    BY <1>7 DEF Matches
<1>12. ASSUME NEW j \in XInodes \ {i}
       PROVE  Matches(u, xcache[j].entries, attrs[j])
    <2>1. \A b : Has(c[j].entries, b) => b \in xa!Atoms /\ j \in V[b]
        BY <1>9, <1>10, EntriesUse
    <2>2. \A b : Has(xcache[j].entries, b) => b \in kept
        BY <1>10, <2>1 DEF kept, Used
    <2>3. Matches(atable, xcache[j].entries, attrs[j])
        BY <1>2
    <2>4. QED BY <1>4, <2>2, <2>3, MatchesKept
<1>13. Agree(u, c, [attrs EXCEPT ![i] = <<>>])
    <2>1. Sound(u, Users([xcache EXCEPT ![i] = xa!NoXcache]))
        BY <1>4, <1>9 DEF c
    <2>2. QED BY <1>2, <1>8, <1>11, <1>12, <2>1, AgreeNext DEF c
<1>14. QED BY <1>5, <1>6, <1>13 DEF XattrInv

(* An inode that is saved and opened again has the attributes it had. *)
LEMMA ReopenAgrees ==
    ASSUME XattrInv, xa!Reopen
    PROVE  XattrInv'
<1>1. PICK i \in XInodes, present \in Presents :
        \E size \in {xa!iattr_encoded_size(present, xcache[i])} :
        \E saved \in {xa!iattr_encode(present, xcache[i], size)} :
            /\ xcache' = [xcache EXCEPT ![i] = xa!iattr_decode(saved.xattrs)]
            /\ xfailed' = (xfailed \/ saved.bytes # size)
            /\ UNCHANGED <<atable, attrs>>
    BY DEF xa!Reopen
<1> DEFINE x == xcache[i]
           size == xa!iattr_encoded_size(present, x)
           saved == xa!iattr_encode(present, x, size)
           y == xa!iattr_decode(x.entries)
           c == [xcache EXCEPT ![i] = y]
<1>2. /\ Agree(atable, xcache, attrs) /\ xfailed = FALSE
      /\ Sound(atable, Users(xcache)) /\ xcache \in [XInodes -> Xcache] /\ Fits(x)
      /\ \A j \in XInodes : Matches(atable, xcache[j].entries, attrs[j])
    BY DEF XattrInv, Agree
<1>3. x \in Xcache /\ x.entries \in Seq(Entry) /\ Distinct(x.entries)
    BY <1>2 DEF Fits, Xcache
<1>4. saved.xattrs = x.entries /\ saved.bytes = size
    BY <1>3, EncodedIs
<1>5. /\ xcache' = [xcache EXCEPT ![i] = xa!iattr_decode(saved.xattrs)]
      /\ xfailed' = (xfailed \/ saved.bytes # size) /\ atable' = atable /\ attrs' = attrs
    BY <1>1
<1> HIDE DEF x, size, saved
<1>6. xcache' = c /\ xfailed' = FALSE
    BY <1>2, <1>4, <1>5
<1>7. y \in Xcache /\ y.entries = x.entries /\ xa!SizeOf(x.entries) <= y.maxsize
    BY <1>3, DecodedIs
<1> HIDE DEF y
<1>8. Fits(y)
    BY <1>3, <1>7 DEF Fits
<1>9. Users(c) = Users(xcache)
    <2>1. \A j \in XInodes : c[j].entries = xcache[j].entries
        BY <1>2, <1>7 DEF x
    <2>2. QED BY <2>1 DEF Users
<1>10. Agree(atable, c, [attrs EXCEPT ![i] = attrs[i]])
    <2>1. Sound(atable, Users([xcache EXCEPT ![i] = y]))
        BY <1>2, <1>9
    <2>2. Matches(atable, y.entries, attrs[i])
        BY <1>2, <1>7 DEF x
    <2>3. \A j \in XInodes \ {i} : Matches(atable, xcache[j].entries, attrs[j])
        BY <1>2
    <2>4. QED BY <1>2, <1>8, <2>1, <2>2, <2>3, AgreeNext
<1>11. [attrs EXCEPT ![i] = attrs[i]] = attrs
    <2>1. attrs = [j \in XInodes |-> attrs[j]]
        BY <1>2 DEF Agree
    <2>2. QED BY <2>1
<1> HIDE DEF c
<1>12. QED BY <1>5, <1>6, <1>10, <1>11 DEF XattrInv

(* No step of the frontend's operations breaks the invariant. *)
LEMMA XattrStep ==
    ASSUME XattrInv, [FrontNext]_frontVars
    PROVE  XattrInv'
<1>1. CASE xa!SetXattr
    BY <1>1, SetXattrAgrees
<1>2. CASE xa!DelXattr
    BY <1>2, DelXattrAgrees
<1>3. CASE xa!RemoveAll
    BY <1>3, RemoveAllAgrees
<1>4. CASE xa!Reopen
    BY <1>4, ReopenAgrees
<1>5. CASE UNCHANGED xattrVars
    <2>1. atable' = atable /\ xcache' = xcache /\ attrs' = attrs /\ xfailed' = xfailed
        BY <1>5 DEF xattrVars
    <2>2. QED BY <2>1 DEF XattrInv
<1>6. QED BY <1>1, <1>2, <1>3, <1>4, <1>5 DEF FrontNext, frontVars, xa!Next

(* The invariant holds of an atom table that is new. *)
LEMMA XattrInit ==
    ASSUME FrontInit
    PROVE  XattrInv
<1>1. /\ atable = [dict |-> <<>>, unatom |-> [a \in xa!Atoms |-> xa!At(0)],
                   low |-> [a \in xa!Atoms |-> 0], high |-> [a \in xa!Atoms |-> 0],
                   freeatom |-> 0, atomgen |-> 1]
      /\ xcache = [i \in XInodes |-> xa!NoXcache] /\ attrs = [i \in XInodes |-> <<>>]
      /\ xfailed = FALSE
    BY DEF FrontInit, xa!Init
<1>2. /\ xa!NoXcache = [entries |-> <<>>, maxsize |-> 0] /\ xa!NoXcache.entries = <<>>
      /\ Len(<<>>) = 0 /\ DOMAIN <<>> = {} /\ \A b : ~ Has(<<>>, b)
    BY DEF xa!NoXcache, Has
<1>3. Fits(xa!NoXcache)
    BY EmptyFits
<1>4. xcache \in [XInodes -> Xcache]
    BY <1>1, <1>3 DEF Fits
<1>5. Users(xcache) = [a \in xa!Atoms |-> {}]
    BY <1>1, <1>2 DEF Users
<1>6. atable \in Table
    <2>1. <<>> \in Seq(Slots)
        BY EmptySeq
    <2>2. xa!At(0) \in [free : BOOLEAN, to : Nat]
        BY DEF xa!At
    <2>3. 1 \in 1 .. MaxAtom + 1 /\ 0 \in 0 .. RefMod - 1
        BY XattrBounds
    <2>4. QED BY <1>1, <2>1, <2>2, <2>3 DEF Table
<1>7. Live(atable) = {} /\ Named(atable) = {}
    BY <1>1, <1>2 DEF Live, Named
<1>8. Links(atable)
    BY <1>7 DEF Links
<1>9. FreeOf(atable, <<>>)
    <2>1. <<>> \in Seq(xa!Atoms)
        BY EmptySeq
    <2>2. xa!FreeList(atable, <<>>)
        BY <1>1, <1>2 DEF xa!FreeList
    <2>3. \A a \in xa!Atoms : ~(a < atable.atomgen)
        BY <1>1, XattrBounds DEF xa!Atoms
    <2>4. QED BY <1>2, <1>7, <2>1, <2>2, <2>3 DEF FreeOf
<1>10. Counts(atable, Users(xcache))
    <2>1. ASSUME NEW a \in xa!Atoms
          PROVE  atable.low[a] + RefMod * atable.high[a] = Cardinality(Users(xcache)[a])
        <3>1. atable.low[a] = 0 /\ atable.high[a] = 0 /\ Users(xcache)[a] = {}
            BY <1>1, <1>5
        <3>2. RefMod * 0 = 0 /\ 0 + 0 = 0
            BY XattrBounds
        <3>3. QED BY <3>1, <3>2, FS_EmptySet
    <2>2. QED BY <1>5, <2>1 DEF Counts
<1>11. Sound(atable, Users(xcache))
    BY <1>6, <1>8, <1>9, <1>10 DEF Sound
<1>12. ASSUME NEW i \in XInodes
       PROVE  Fits(xcache[i]) /\ Matches(atable, xcache[i].entries, attrs[i])
    <2>1. xcache[i] = xa!NoXcache /\ attrs[i] = <<>>
        BY <1>1
    <2>2. QED BY <1>2, <1>3, <2>1 DEF Matches
<1>13. attrs = [i \in XInodes |-> attrs[i]]
    BY <1>1
<1>14. QED BY <1>1, <1>4, <1>11, <1>12, <1>13 DEF XattrInv, Agree

(* The Cardinality of FiniteSets that Xattr extends is the one used here.   *)
LEMMA XattrCardinality == ASSUME NEW s PROVE xa!Cardinality(s) = Cardinality(s)
  BY DEF xa!Cardinality, Cardinality, xa!IsFiniteSet, IsFiniteSet

(* The invariant gives Xattr!TypeOK. *)
LEMMA XattrTyped ==
    ASSUME XattrInv
    PROVE  xa!TypeOK
<1>1. /\ xcache \in [XInodes -> Xcache] /\ atable \in Table /\ xfailed = FALSE
    BY DEF XattrInv, Agree, Sound
<1>2. /\ atable.low \in [xa!Atoms -> 0 .. RefMod - 1]
      /\ atable.freeatom \in {0} \union xa!Atoms /\ atable.atomgen \in 1 .. MaxAtom + 1
    BY <1>1, TableIs
<1>3. QED BY <1>1, <1>2 DEF xa!TypeOK, Xcache, Entry

(* The invariant gives Xattr!RefcountExact: the inodes with an atom in their*)
(* cache are its users.                                                     *)
LEMMA XattrRefcounts ==
    ASSUME XattrInv
    PROVE  xa!RefcountExact
<1>1. Counts(atable, Users(xcache)) /\ \A i \in XInodes : Fits(xcache[i])
    BY DEF XattrInv, Agree, Sound
<1>2. ASSUME NEW a \in xa!Atoms
      PROVE  atable.low[a] + RefMod * atable.high[a]
               = xa!Cardinality({i \in XInodes : xa!xcache_lookup(xcache[i], a) # 0})
    <2>1. \A i \in XInodes : xa!xcache_lookup(xcache[i], a) # 0 <=> Has(xcache[i].entries, a)
        BY <1>1, LookupIs DEF Fits
    <2>2. {i \in XInodes : xa!xcache_lookup(xcache[i], a) # 0} = Users(xcache)[a]
        BY <2>1 DEF Users
    <2>3. QED BY <1>1, <2>2, XattrCardinality DEF Counts
<1>3. QED BY <1>2 DEF xa!RefcountExact

(* The invariant gives Xattr!AtomsExact: its free list is one of those that *)
(* AtomsExact looks for.                                                    *)
LEMMA XattrAtoms ==
    ASSUME XattrInv
    PROVE  xa!AtomsExact
<1>1. atable \in Table /\ Links(atable) /\ Counts(atable, Users(xcache))
    BY DEF XattrInv, Agree, Sound
<1>2. PICK list : FreeOf(atable, list)
    BY DEF XattrInv, Agree, Sound
<1> DEFINE n == Len(list)
<1>3. /\ list \in Seq(xa!Atoms) /\ n \in Nat /\ DOMAIN list = 1 .. n /\ list \in [1 .. n -> xa!Atoms]
      /\ \A k \in 1 .. n : list[k] \in xa!Atoms /\ list[k] \notin Named(atable)
      /\ \A k, m \in 1 .. n : list[k] = list[m] => k = m
      /\ \A a \in xa!Atoms :
            (a < atable.atomgen) <=> (a \in Named(atable) \/ \E k \in 1 .. n : list[k] = a)
    BY <1>2, LenProperties, ElementOfSeq DEF FreeOf
<1>4. n \in 0 .. MaxAtom
    <2>1. list \in Injection(1 .. n, xa!Atoms)
        BY <1>3, Fun_IsInj
    <2>2. IsFiniteSet(xa!Atoms) /\ Cardinality(xa!Atoms) = MaxAtom
        <3>1. MaxAtom \in Nat /\ 1 \in Int /\ MaxAtom \in Int
            BY XattrBounds
        <3>2. IsFiniteSet(1 .. MaxAtom)
              /\ Cardinality(1 .. MaxAtom) = IF 1 > MaxAtom THEN 0 ELSE MaxAtom - 1 + 1
            BY <3>1, FS_Interval
        <3>3. QED BY <3>1, <3>2 DEF xa!Atoms
    <2>3. Cardinality(1 .. n) <= MaxAtom
        BY <2>1, <2>2, FS_Injection
    <2>4. Cardinality(1 .. n) = n
        <3>1. 1 \in Int /\ n \in Int
            BY <1>3
        <3>2. Cardinality(1 .. n) = IF 1 > n THEN 0 ELSE n - 1 + 1
            BY <3>1, FS_Interval
        <3> HIDE DEF n
        <3>3. QED BY <1>3, <3>2
    <2> HIDE DEF n
    <2>5. QED BY <1>3, <2>3, <2>4, XattrBounds
<1>5. list \in UNION {[1 .. k -> xa!Atoms] : k \in 0 .. MaxAtom}
    BY <1>3, <1>4
<1>6. xa!Range(list) = {list[k] : k \in 1 .. n}
    BY <1>3 DEF xa!Range
<1> HIDE DEF n
<1>7. xa!FreeList(atable, list)
    BY <1>2 DEF FreeOf
<1>8. Named(atable) \union xa!Range(list) = 1 .. atable.atomgen - 1
    <2>1. atable.atomgen \in 1 .. MaxAtom + 1 /\ MaxAtom \in Nat /\ Named(atable) \subseteq xa!Atoms
        BY <1>1, TableIs, XattrBounds
    <2>2. \A a : a \in 1 .. atable.atomgen - 1 <=> a \in xa!Atoms /\ a < atable.atomgen
        BY <2>1 DEF xa!Atoms
    <2>3. QED BY <1>3, <1>6, <2>1, <2>2
<1>9. Named(atable) \intersect xa!Range(list) = {}
    BY <1>3, <1>6
<1>10. ASSUME NEW a \in xa!Range(list)
       PROVE  atable.low[a] = 0 /\ atable.high[a] = 0
    <2>1. a \in xa!Atoms /\ a \notin Named(atable)
        BY <1>3, <1>6
    <2>2. Users(xcache)[a] = {} /\ atable.low[a] + RefMod * atable.high[a] = Cardinality({})
        BY <1>1, <2>1 DEF Counts
    <2>3. atable.low[a] + RefMod * atable.high[a] = 0
        BY <2>2, FS_EmptySet
    <2>4. atable.low[a] \in Nat /\ atable.high[a] \in Nat /\ RefMod \in Nat /\ RefMod >= 2
        BY <1>1, <2>1, TableIs, XattrBounds
    <2>5. \A l, h, m \in Nat : m >= 2 /\ l + m * h = 0 => l = 0 /\ h = 0
        <3> SUFFICES ASSUME NEW l \in Nat, NEW h \in Nat, NEW m \in Nat, m >= 2, l + m * h = 0
                     PROVE  l = 0 /\ h = 0
            OBVIOUS
        <3> DEFINE r == m * h
        <3>1. r \in Nat /\ (r = 0 => h = 0)
            OBVIOUS
        <3>2. l + r = 0
            OBVIOUS
        <3> HIDE DEF r
        <3>3. QED BY <3>1, <3>2
    <2>6. QED BY <2>3, <2>4, <2>5
<1>11. {p \in DOMAIN atable.dict : atable.dict[p] # xa!NoEntry} = Live(atable)
    BY DEF Live
<1>12. {atable.dict[p].atom : p \in Live(atable)} = Named(atable)
    BY DEF Named
<1>13. /\ \A p \in Live(atable) : atable.unatom[atable.dict[p].atom] = xa!At(p)
       /\ \A p, q \in Live(atable) : atable.dict[p].name = atable.dict[q].name => p = q
    BY <1>1 DEF Links
<1>14. \E free \in UNION {[1 .. k -> xa!Atoms] : k \in 0 .. MaxAtom} :
            /\ xa!FreeList(atable, free)
            /\ Named(atable) \union xa!Range(free) = 1 .. atable.atomgen - 1
            /\ Named(atable) \intersect xa!Range(free) = {}
            /\ \A a \in xa!Range(free) : atable.low[a] = 0 /\ atable.high[a] = 0
    BY <1>5, <1>7, <1>8, <1>9, <1>10
<1>15. QED BY <1>11, <1>12, <1>13, <1>14 DEF xa!AtomsExact

(* The invariant gives Xattr!AttrsExact: the entries of an inode and its    *)
(* attributes are as many.                                                  *)
LEMMA XattrAttrs ==
    ASSUME XattrInv
    PROVE  xa!AttrsExact
<1>1. /\ atable \in Table /\ Links(atable)
      /\ \A i \in XInodes : Fits(xcache[i]) /\ Matches(atable, xcache[i].entries, attrs[i])
    BY DEF XattrInv, Agree, Sound
<1> SUFFICES ASSUME NEW i \in XInodes
             PROVE  /\ {atable.dict[atable.unatom[xcache[i].entries[k].atom].to].name :
                            k \in DOMAIN xcache[i].entries} = DOMAIN attrs[i]
                    /\ \A name \in DOMAIN attrs[i] :
                        LET at == xa!xcache_lookup(xcache[i], xa!find_atom(atable, name))
                        IN  at # 0 /\ xcache[i].entries[at].len = attrs[i][name]
                    /\ Len(xcache[i].entries) = xa!Cardinality(DOMAIN attrs[i])
    BY DEF xa!AttrsExact
<1> DEFINE entries == xcache[i].entries
           n == Len(entries)
<1>2. /\ xcache[i] \in Xcache /\ Distinct(entries) /\ entries \in Seq(Entry)
      /\ n \in Nat /\ DOMAIN entries = 1 .. n
    <2>1. xcache[i] \in Xcache /\ Distinct(entries) /\ entries \in Seq(Entry)
        BY <1>1 DEF Fits, Xcache
    <2>2. QED BY <2>1, LenProperties
<1>3. /\ \A k \in 1 .. n :
            /\ entries[k].atom \in Named(atable) /\ NameOf(atable, entries[k].atom) \in DOMAIN attrs[i]
            /\ attrs[i][NameOf(atable, entries[k].atom)] = entries[k].len
      /\ \A name \in DOMAIN attrs[i] : \E k \in 1 .. n : NameOf(atable, entries[k].atom) = name
    BY <1>1 DEF Matches
<1> HIDE DEF entries, n
<1>4. {atable.dict[atable.unatom[entries[k].atom].to].name : k \in DOMAIN entries} = DOMAIN attrs[i]
    <2>1. {atable.dict[atable.unatom[entries[k].atom].to].name : k \in DOMAIN entries}
            = {NameOf(atable, entries[k].atom) : k \in 1 .. n}
        BY <1>2 DEF NameOf
    <2>2. {NameOf(atable, entries[k].atom) : k \in 1 .. n} = DOMAIN attrs[i]
        BY ONLY <1>3
    <2>3. QED BY <2>1, <2>2
<1>5. ASSUME NEW name \in DOMAIN attrs[i]
      PROVE  LET at == xa!xcache_lookup(xcache[i], xa!find_atom(atable, name))
             IN  at # 0 /\ entries[at].len = attrs[i][name]
    <2> DEFINE a == xa!find_atom(atable, name)
               at == xa!xcache_lookup(xcache[i], a)
    <2>1. PICK k \in 1 .. n : NameOf(atable, entries[k].atom) = name
        BY <1>3
    <2>2. entries[k].atom \in Named(atable)
        BY <1>3
    <2>3. name \in XNames
        BY <1>1, <2>1, <2>2, NamedAt
    <2>4. a = entries[k].atom
        BY <1>1, <2>1, <2>2, <2>3, FindIs
    <2>5. Has(entries, a)
        BY <2>4 DEF Has, n
    <2> HIDE DEF a
    <2>6. at # 0 /\ at \in 1 .. n /\ entries[at].atom = a
        BY <1>2, <2>5, LookupIs DEF entries, n
    <2> HIDE DEF at
    <2>7. NameOf(atable, entries[at].atom) = name /\ attrs[i][name] = entries[at].len
        BY <1>3, <2>1, <2>4, <2>6
    <2>8. QED BY <2>6, <2>7 DEF at, a
<1>6. n = Cardinality(DOMAIN attrs[i])
    <2> DEFINE f == [k \in 1 .. n |-> NameOf(atable, entries[k].atom)]
               S == DOMAIN attrs[i]
    <2>1. f \in [1 .. n -> S]
        BY <1>3
    <2>2. ASSUME NEW k \in 1 .. n, NEW m \in 1 .. n, f[k] = f[m]
          PROVE  k = m
        <3>1. entries[k].atom = entries[m].atom
            BY <1>1, <1>3, <2>2, NamesDiffer
        <3>2. QED BY <1>2, <3>1 DEF Distinct, n
    <2>3. \A s \in S : \E k \in 1 .. n : f[k] = s
        BY <1>3
    <2> HIDE DEF f, S
    <2>4. f \in Bijection(1 .. n, S)
        BY <2>1, <2>2, <2>3, Fun_IsInj, Fun_IsBij
    <2>5. ExistsBijection(1 .. n, S)
        BY <2>4 DEF ExistsBijection
    <2>6. Cardinality(S) = n
        BY <1>2, <2>5, FS_CountingElements
    <2>7. QED BY <2>6 DEF S
<1>7. QED BY <1>4, <1>5, <1>6, XattrCardinality DEF entries, n

(* With the SYNC flusher, the one that the programs which call set_xattr()  *)
(* are built with (Makefile:35-36), so that no purge runs between the       *)
(* halves of a call, XattrExact holds of any number of inodes, names, value *)
(* lengths and atoms, whatever the width of half a count: the count that    *)
(* atomref() keeps in two halves is the number of inodes with the           *)
(* attribute; names and atoms are one to one, and the atoms below atomgen   *)
(* without a name are the free list that get_freeatom() takes from; an      *)
(* inode has the attributes that set_xattr(), del_xattr() and               *)
(* xcache_remove_all() left it, each with the length that was set last,     *)
(* also after iattr_encode() and iattr_decode() saved it and read it back;  *)
(* no assertion fails, and no encoding is of another size than              *)
(* iattr_encoded_size() reserved.                                           *)
THEOREM XattrIsExact == FrontSpec => []XattrExact
<1>1. FrontInit => XattrInv
    BY XattrInit
<1>2. XattrInv /\ [FrontNext]_frontVars => XattrInv'
    BY XattrStep
<1>3. XattrInv => XattrExact
    <2>1. XattrInv => xa!AssertionsHold
        BY DEF XattrInv, Agree, Fits, xa!AssertionsHold
    <2>2. QED BY <2>1, XattrTyped, XattrRefcounts, XattrAtoms, XattrAttrs DEF XattrExact
<1>4. QED BY <1>1, <1>2, <1>3, PTL DEF FrontSpec
=============================================================================
