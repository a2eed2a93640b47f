-------------------------- MODULE ConfigurationProofs --------------------------
(***************************************************************************)
(* Proofs about Configuration, for any command lines, any requests and any *)
(* number of Envs.  The lemmas on fix_modulesArgs come first.              *)
(***************************************************************************)
EXTENDS Configuration, FlattenProofs

-------------------------------------------------------------------------------
\* What Take makes of each part of a text.
Takes(text, n, f) ==
    f = [s \in SUBSET (1..n) |->
            IF s = {} THEN << <<>> >> ELSE Take(f[s \ {Max(s)}], text[Max(s)])]

\* The greatest number of a set that has n + 1.
LEMMA MaxIsLast ==
    ASSUME NEW n \in Nat, NEW s \in SUBSET (1..(n + 1)), n + 1 \in s
    PROVE  Max(s) = n + 1
<1> DEFINE P(x) == x \in s /\ \A y \in s : x >= y
<1>1. P(n + 1)
  OBVIOUS
<1>2. \A x : P(x) => x = n + 1
  <2> SUFFICES ASSUME NEW x, P(x)
               PROVE  x = n + 1
    OBVIOUS
  <2>1. x \in 1..(n + 1) /\ x >= n + 1
    OBVIOUS
  <2> QED
    BY <2>1
<1>3. Max(s) = CHOOSE x : P(x)
  BY DEF Max
<1> HIDE DEF P
<1> QED
  BY <1>1, <1>2, <1>3

\* There is such a function.
LEMMA TakesExists ==
    ASSUME NEW text, NEW n \in Nat
    PROVE  \E f : Takes(text, n, f)
<1> DEFINE T == {k \in Nat : \E f : Takes(text, k, f)}
<1>1. 0 \in T
  <2> DEFINE f == [s \in SUBSET (1..0) |-> << <<>> >>]
  <2>1. \A s \in SUBSET (1..0) : s = {}
    OBVIOUS
  <2>2. f = [s \in SUBSET (1..0) |->
               IF s = {} THEN << <<>> >> ELSE Take(f[s \ {Max(s)}], text[Max(s)])]
    BY <2>1, Zenon
  <2>3. Takes(text, 0, f)
    BY <2>2 DEF Takes
  <2> HIDE DEF f
  <2> QED
    BY <2>3
<1>2. ASSUME NEW k \in Nat, k \in T
      PROVE  k + 1 \in T
  <2>1. PICK f : Takes(text, k, f)
    BY <1>2
  <2> DEFINE D == SUBSET (1..k)
             E == SUBSET (1..(k + 1))
             g == [s \in E |-> IF s \in D THEN f[s] ELSE Take(f[s \ {k + 1}], text[k + 1])]
  <2>2. \A s \in E : s \notin D => k + 1 \in s /\ s # {} /\ s \ {k + 1} \in D
    OBVIOUS
  <2>3. \A s \in E : s \ {Max(s)} \in E
    OBVIOUS
  <2>4. D \subseteq E /\ \A s \in D : s \ {Max(s)} \in D
    <3>1. 1..k \subseteq 1..(k + 1)
      OBVIOUS
    <3>2. D \subseteq E
      BY <3>1, Zenon
    <3>3. \A s \in D : s \ {Max(s)} \in D
      BY Zenon
    <3> QED
      BY <3>2, <3>3, Zenon
  <2>5. \A s \in E : s \notin D => Max(s) = k + 1
    BY <2>2, MaxIsLast
  <2>6. \A s \in D : f[s] = IF s = {} THEN << <<>> >>
                            ELSE Take(f[s \ {Max(s)}], text[Max(s)])
    BY <2>1, Zenon DEF Takes
  <2>7. \A s \in D : g[s] = f[s]
    BY <2>4, Zenon
  <2>8. \A s \in E : s \notin D => g[s] = Take(f[s \ {k + 1}], text[k + 1])
    BY Zenon
  <2>10. g = [s \in E |-> g[s]]
    BY Zenon
  <2> HIDE DEF D, E, g
  <2>9. \A s \in E : g[s] = IF s = {} THEN << <<>> >>
                            ELSE Take(g[s \ {Max(s)}], text[Max(s)])
    <3> SUFFICES ASSUME NEW s \in E
                 PROVE  g[s] = IF s = {} THEN << <<>> >>
                               ELSE Take(g[s \ {Max(s)}], text[Max(s)])
      OBVIOUS
    <3>1. CASE s \in D
      <4>1. g[s \ {Max(s)}] = f[s \ {Max(s)}]
        BY <2>4, <2>7, <3>1, Zenon
      <4> QED
        BY <2>6, <2>7, <3>1, <4>1, Zenon
    <3>2. CASE s \notin D
      <4>1. g[s \ {k + 1}] = f[s \ {k + 1}]
        BY <2>2, <2>7, <3>2, Zenon
      <4> QED
        BY <2>2, <2>5, <2>8, <3>2, <4>1, Zenon
    <3> QED
      BY <3>1, <3>2
  <2>11. g = [s \in E |-> IF s = {} THEN << <<>> >>
                          ELSE Take(g[s \ {Max(s)}], text[Max(s)])]
    BY <2>9, <2>10, Zenon
  <2>12. Takes(text, k + 1, g)
    BY <2>11, Zenon DEF Takes, E
  <2> QED
    BY <2>12
<1>3. \A k \in Nat : k \in T
  <2> HIDE DEF T
  <2> QED
    BY <1>1, <1>2, Induction
<1> QED
  BY <1>3

\* FoldLeft is its value for all the places of the text.
LEMMA FoldTakes ==
    ASSUME NEW S, NEW text \in Seq(S)
    PROVE  \E f : Takes(text, Len(text), f) /\ FoldLeft(Take, << <<>> >>, text) = f[1..Len(text)]
<1> DEFINE F == CHOOSE f : Takes(text, Len(text), f)
<1>1. Len(text) \in Nat /\ DOMAIN text = 1..Len(text)
  BY LenProperties
<1>2. Takes(text, Len(text), F)
  BY <1>1, TakesExists
<1>3. F = CHOOSE f : f = [s \in SUBSET (DOMAIN text) |->
            IF s = {} THEN << <<>> >> ELSE Take(f[s \ {Max(s)}], text[Max(s)])]
  BY <1>1, Zenon DEF Takes
<1>4. FoldLeft(Take, << <<>> >>, text) =
        (CHOOSE f : f = [s \in SUBSET (DOMAIN text) |->
            IF s = {} THEN << <<>> >> ELSE Take(f[s \ {Max(s)}], text[Max(s)])])[DOMAIN text]
  BY DEF FoldLeft, MapThenFoldSet
<1>5. FoldLeft(Take, << <<>> >>, text) = F[1..Len(text)]
  BY <1>1, <1>3, <1>4, Zenon
<1> HIDE DEF F
<1> QED
  BY <1>2, <1>5

PartsType == Seq(Seq(Words)) \ {<<>>}

\* A word goes to the last part, or starts another.
LEMMA TakeType ==
    ASSUME NEW parts \in PartsType, NEW word \in Words
    PROVE  Take(parts, word) \in PartsType
<1>1. Len(parts) \in 1..Len(parts) /\ parts[Len(parts)] \in Seq(Words)
  BY DEF PartsType
<1>2. CASE word = Semicolon
  <2>1. Append(parts, <<>>) \in PartsType
    BY DEF PartsType
  <2> QED
    BY <1>2, <2>1 DEF Take
<1>3. CASE word # Semicolon
  <2> DEFINE w == IF word = Escaped THEN Semicolon ELSE word
             last == Append(parts[Len(parts)], w)
             new == [parts EXCEPT ![Len(parts)] = last]
  <2>1. w \in Words
    BY ConfigurationAssumption
  <2>2. last \in Seq(Words)
    <3> HIDE DEF w
    <3> QED
      BY <1>1, <2>1
  <2>3. Take(parts, word) = new
    BY <1>3 DEF Take
  <2> HIDE DEF last
  <2>4. new \in Seq(Seq(Words)) /\ Len(new) = Len(parts)
    BY <1>1, <2>2 DEF PartsType
  <2> HIDE DEF new
  <2>5. new # <<>>
    BY <1>1, <2>4
  <2> QED
    BY <2>3, <2>4, <2>5, Zenon DEF PartsType
<1> QED
  BY <1>2, <1>3

\* A text has parts, whatever its words and their number.
LEMMA FoldType ==
    ASSUME NEW text \in Seq(Words)
    PROVE  FoldLeft(Take, << <<>> >>, text) \in PartsType
<1>1. PICK f : Takes(text, Len(text), f) /\ FoldLeft(Take, << <<>> >>, text) = f[1..Len(text)]
  BY FoldTakes
<1>2. PICK n \in Nat : n = Len(text)
  OBVIOUS
<1> DEFINE T == {k \in Nat : k <= n => f[1..k] \in PartsType}
<1>3. \A s \in SUBSET (1..n) : f[s] = IF s = {} THEN << <<>> >>
                                     ELSE Take(f[s \ {Max(s)}], text[Max(s)])
  BY <1>1, <1>2, Zenon DEF Takes
<1>4. 0 \in T
  <2>1. 1..0 = {} /\ {} \in SUBSET (1..n)
    OBVIOUS
  <2>2. f[1..0] = << <<>> >>
    BY <1>3, <2>1, Zenon
  <2>3. << <<>> >> \in PartsType
    BY DEF PartsType
  <2> QED
    BY <2>2, <2>3
<1>5. ASSUME NEW k \in Nat, k \in T
      PROVE  k + 1 \in T
  <2>1. CASE k + 1 <= n
    <3> DEFINE s == 1..(k + 1)
    <3>1. s \in SUBSET (1..n) /\ s # {} /\ s \ {k + 1} = 1..k
      <4>1. \A i \in s : i \in 1..n
        BY <1>2, <2>1
      <4>2. k + 1 \in s
        OBVIOUS
      <4>3. \A i : i \in s \ {k + 1} <=> i \in 1..k
        OBVIOUS
      <4> HIDE DEF s
      <4> QED
        BY <4>1, <4>2, <4>3, Zenon
    <3>2. Max(s) = k + 1
      <4>1. s \in SUBSET (1..(k + 1)) /\ k + 1 \in s
        OBVIOUS
      <4> HIDE DEF s
      <4> QED
        BY <4>1, MaxIsLast
    <3> HIDE DEF s
    <3>3. f[s] = Take(f[s \ {Max(s)}], text[Max(s)])
      BY <1>3, <3>1, Zenon
    <3>4. f[s] = Take(f[1..k], text[k + 1])
      BY <3>1, <3>2, <3>3, Zenon
    <3>5. f[1..k] \in PartsType
      BY <1>2, <1>5, <2>1
    <3>6. text[k + 1] \in Words
      BY <1>2, <2>1
    <3>7. f[s] \in PartsType
      BY <3>4, <3>5, <3>6, TakeType
    <3> QED
      BY <3>7 DEF s
  <2> QED
    BY <2>1
<1>6. \A k \in Nat : k \in T
  <2> HIDE DEF T
  <2> QED
    BY <1>4, <1>5, Induction
<1>7. n <= n => f[1..n] \in PartsType
  BY <1>6
<1> QED
  BY <1>1, <1>2, <1>7

-------------------------------------------------------------------------------
\* Filters of a list.
LEMMA NonEmptyType ==
    ASSUME NEW parts \in Seq(Seq(Words))
    PROVE  NonEmpty(parts) \in Seq(Seq(Words))
<1> DEFINE f == [k \in DOMAIN parts |-> IF parts[k] = <<>> THEN <<>> ELSE << parts[k] >>]
<1>1. DOMAIN parts = 1..Len(parts) /\ Len(parts) \in Nat
  BY LenProperties
<1>2. \A k \in 1..Len(parts) :
          (IF parts[k] = <<>> THEN <<>> ELSE << parts[k] >>) \in Seq(Seq(Words))
  BY ElementOfSeq
<1>3. f \in Seq(Seq(Seq(Words)))
  BY <1>1, <1>2
<1>4. FlattenSeq(f) \in Seq(Seq(Words))
  BY <1>3, FlattenType
<1> QED
  BY <1>4 DEF NonEmpty

\* A filtered list is a list.
LEMMA UnnamedType ==
    ASSUME NEW S, NEW list \in Seq(S), NEW keys
    PROVE  Unnamed(list, keys) \in Seq(S)
<1> DEFINE f == [k \in DOMAIN list |->
                   IF Key(list[k]) \in keys THEN <<>> ELSE << list[k] >>]
<1>1. DOMAIN list = 1..Len(list) /\ Len(list) \in Nat
  BY LenProperties
<1>2. \A k \in 1..Len(list) : list[k] \in S
  BY ElementOfSeq
<1>3. \A k \in 1..Len(list) :
          (IF Key(list[k]) \in keys THEN <<>> ELSE << list[k] >>) \in Seq(S)
  BY <1>2
<1>4. f \in Seq(Seq(S))
  BY <1>1, <1>3
<1>5. FlattenSeq(f) \in Seq(S)
  BY <1>4, FlattenType
<1> QED
  BY <1>5 DEF Unnamed

\* No names, and nothing to name.
LEMMA UnnamedAll ==
    ASSUME NEW S, NEW list \in Seq(S)
    PROVE  Unnamed(list, {}) = list
<1>1. [k \in DOMAIN list |-> IF Key(list[k]) \in {} THEN <<>> ELSE << list[k] >>]
        = [k \in DOMAIN list |-> << list[k] >>]
  BY Zenon
<1>2. FlattenSeq([k \in DOMAIN list |-> << list[k] >>]) = list
  BY FlattenSingles
<1> QED
  BY <1>1, <1>2, Zenon DEF Unnamed

LEMMA UnnamedNone ==
    ASSUME NEW keys
    PROVE  Unnamed(<<>>, keys) = <<>>
<1>1. [k \in DOMAIN <<>> |-> IF Key(<<>>[k]) \in keys THEN <<>> ELSE << <<>>[k] >>] = <<>>
  OBVIOUS
<1> QED
  BY <1>1, FlattenEmpty DEF Unnamed

\* The types of what is made of arguments.
LEMMA PartsOfText ==
    ASSUME NEW text \in Seq(Words)
    PROVE  Parts(text) \in Seq(Seq(Words))
<1>1. FoldLeft(Take, << <<>> >>, text) \in Seq(Seq(Words))
  BY FoldType DEF PartsType
<1> QED
  BY <1>1, NonEmptyType DEF Parts

\* Of several texts.
LEMMA PartsOfTexts ==
    ASSUME NEW texts \in Seq(Seq(Words))
    PROVE  AllParts(texts) \in Seq(Seq(Words))
<1> DEFINE f == [i \in DOMAIN texts |-> Parts(texts[i])]
<1>1. DOMAIN texts = 1..Len(texts) /\ Len(texts) \in Nat
  BY LenProperties
<1>2. \A i \in 1..Len(texts) : Parts(texts[i]) \in Seq(Seq(Words))
  BY ElementOfSeq, PartsOfText
<1>3. f \in Seq(Seq(Seq(Words)))
  BY <1>1, <1>2
<1> QED
  BY <1>3, FlattenType DEF AllParts

\* What is given becomes lists for the modules, or None.
LEMMA StructuredType ==
    ASSUME NEW args \in ArgsType, args.shape # "mixed", NEW haveSeqs
    PROVE  Structured(args, haveSeqs) \in ListsType \cup {None}
<1>1. CASE args.shape = "nothing"
  BY <1>1 DEF Structured
<1>2. CASE args.shape = "text"
  <2>1. args.text \in Seq(Words)
    BY <1>2 DEF ArgsType
  <2> DEFINE x == IF IsPlain(args) THEN << args.text >> ELSE Parts(args.text)
  <2>2. x \in Seq(Seq(Words))
    BY <2>1, PartsOfText
  <2>3. Structured(args, haveSeqs) = <<x>>
    BY <1>2 DEF Structured
  <2> HIDE DEF x
  <2> QED
    BY <2>2, <2>3 DEF ListsType
<1>3. CASE args.shape = "texts"
  <2>1. args.texts \in Seq(Seq(Words))
    BY <1>3 DEF ArgsType
  <2>2. AllParts(args.texts) \in Seq(Seq(Words))
    BY <2>1, PartsOfTexts
  <2> QED
    BY <1>3, <2>2 DEF Structured, ListsType
<1>4. CASE args.shape = "lists"
  <2>1. args.lists \in ListsType
    BY <1>4 DEF ArgsType
  <2>2. DOMAIN args.lists = 1..Len(args.lists) /\ Len(args.lists) \in Nat
    BY <2>1, LenProperties DEF ListsType
  <2>3. \A i \in 1..Len(args.lists) : AllParts(args.lists[i]) \in Seq(Seq(Words))
    BY <2>1, ElementOfSeq, PartsOfTexts DEF ListsType
  <2>4. [i \in DOMAIN args.lists |-> AllParts(args.lists[i])] \in ListsType
    BY <2>2, <2>3 DEF ListsType
  <2> QED
    BY <1>4, <2>1, <2>4 DEF Structured
<1> QED
  BY <1>1, <1>2, <1>3, <1>4 DEF ArgsType

-------------------------------------------------------------------------------
\* The arguments of module i, of which there may be none.
At(list, i) == IF Truthy(list) /\ i \in DOMAIN list THEN list[i] ELSE <<>>

\* The number of missing lists, which may be negative.
LEMMA MissingType ==
    ASSUME NEW modules \in ModuleType, NEW args \in ListsType \cup {None},
           NEW list \in ListsType \cup {None}
    PROVE  Missing(modules, args, list) \in Int
<1>1. modules # None => Len(modules) \in Nat
  BY DEF ModuleType
<1>2. (IF args = None THEN 0 ELSE Len(args)) \in Nat
  BY DEF ListsType
<1>3. Truthy(list) => Len(list) \in Nat
  BY DEF ListsType, Truthy
<1> QED
  BY <1>1, <1>2, <1>3 DEF Missing

\* Two sequences joined.
LEMMA JoinedIs ==
    ASSUME NEW S, NEW s \in Seq(S), NEW t \in Seq(S), NEW all, all = s \o t
    PROVE  /\ all \in Seq(S) /\ Len(all) = Len(s) + Len(t)
           /\ \A i \in 1..Len(s) : all[i] = s[i]
           /\ \A i \in 1..Len(all) : i > Len(s) => all[i] = t[i - Len(s)]
  OBVIOUS

\* The lists that are added are empty.
LEMMA ExtendedIs ==
    ASSUME NEW modules \in ModuleType, NEW args \in ListsType \cup {None},
           NEW list \in ListsType \cup {None}
    PROVE  /\ Extended(modules, args, list) \in ListsType \cup {None}
           /\ \A i : At(Extended(modules, args, list), i) = At(args, i)
           /\ Missing(modules, args, list) > 0 =>
                 /\ Extended(modules, args, list) \in ListsType \ {<<>>}
                 /\ Len(Extended(modules, args, list)) =
                        (IF args = None THEN 0 ELSE Len(args)) + Missing(modules, args, list)
           /\ ~(Missing(modules, args, list) > 0) => Extended(modules, args, list) = args
<1>1. PICK n \in Int : n = Missing(modules, args, list)
  BY MissingType
<1>2. CASE ~(n > 0)
  <2>1. Extended(modules, args, list) = args
    BY <1>1, <1>2 DEF Extended
  <2> QED
    BY <1>1, <1>2, <2>1
<1>3. CASE n > 0
  <2>1. PICK have \in ListsType : have = IF args = None THEN <<>> ELSE args
    <3>1. <<>> \in ListsType
      BY DEF ListsType
    <3>2. (IF args = None THEN <<>> ELSE args) \in ListsType
      BY <3>1
    <3> QED
      BY <3>2
  <2>2. PICK more \in ListsType : more = [k \in 1..n |-> <<>>]
    <3>1. n \in Nat /\ <<>> \in Seq(Seq(Words))
      BY <1>3
    <3>2. [k \in 1..n |-> <<>>] \in ListsType
      BY <3>1 DEF ListsType
    <3> QED
      BY <3>2
  <2>3. Len(more) = n /\ \A k \in 1..n : more[k] = <<>>
    BY <1>3, <2>2
  <2>4. PICK all : all = have \o more
    OBVIOUS
  <2>5. Extended(modules, args, list) = all
    BY <1>1, <1>3, <2>1, <2>2, <2>4, Zenon DEF Extended
  <2>6. /\ all \in ListsType /\ Len(all) = Len(have) + n
        /\ \A i \in 1..Len(have) : all[i] = have[i]
        /\ \A i \in 1..Len(all) : i > Len(have) => all[i] = <<>>
    <3>1. have \in ListsType /\ more \in ListsType
      BY <2>1, <2>2
    <3>2. /\ all \in ListsType /\ Len(all) = Len(have) + Len(more)
          /\ \A i \in 1..Len(have) : all[i] = have[i]
          /\ \A i \in 1..Len(all) : i > Len(have) => all[i] = more[i - Len(have)]
      BY <2>4, <3>1, JoinedIs DEF ListsType
    <3>3. Len(have) \in Nat
      BY <3>1, LenProperties DEF ListsType
    <3>4. \A i \in 1..Len(all) : i > Len(have) => i - Len(have) \in 1..n
      BY <1>3, <2>3, <3>2, <3>3
    <3> QED
      BY <2>3, <3>2, <3>4
  <2>7. Len(have) = IF args = None THEN 0 ELSE Len(args)
    BY <2>1
  <2>8. all # <<>> /\ all # None
    BY <1>3, <2>1, <2>6, NoneAssumption DEF ListsType
  <2>9. DOMAIN all = 1..Len(all) /\ DOMAIN have = 1..Len(have) /\ Len(have) \in Nat
    BY <2>1, <2>6, LenProperties DEF ListsType
  <2>10. \A i : At(all, i) = At(args, i)
    <3> SUFFICES ASSUME NEW i
                 PROVE  At(all, i) = At(args, i)
      OBVIOUS
    <3>1. Truthy(all)
      BY <2>8 DEF Truthy
    <3>2. CASE i \in DOMAIN have
      <4>1. args # None /\ have = args /\ args # <<>>
        BY <2>1, <3>2
      <4>2. all[i] = args[i] /\ i \in DOMAIN all
        BY <2>6, <2>9, <3>2, <4>1, <1>3
      <4> QED
        BY <3>1, <3>2, <4>1, <4>2 DEF At, Truthy
    <3>3. CASE i \notin DOMAIN have
      <4>1. At(args, i) = <<>>
        BY <2>1, <3>3 DEF At, Truthy
      <4>2. i \in DOMAIN all => all[i] = <<>>
        BY <2>6, <2>9, <3>3
      <4> QED
        BY <4>1, <4>2 DEF At
    <3> QED
      BY <3>2, <3>3
  <2> QED
    BY <1>1, <1>3, <2>5, <2>6, <2>7, <2>8, <2>10
<1> QED
  BY <1>2, <1>3

\* A text merged with the defaults is one list.
LEMMA ByWordsType ==
    ASSUME NEW text \in Seq(Words), NEW list \in ListsType, list # <<>>
    PROVE  MergeByWords(text, list) \in ListsType
<1>1. list[1] \in Seq(Seq(Words))
  BY DEF ListsType
<1>2. PICK more \in Seq(Words) : more = FlattenSeq(Unnamed(list[1], ToSet(text)))
  BY <1>1, UnnamedType, FlattenType
<1>3. PICK all \in Seq(Words) : all = text \o more
  BY <1>2, ConcatProperties
<1>4. MergeByWords(text, list) = << << all >> >>
  BY <1>2, <1>3, Zenon DEF MergeByWords
<1> QED
  BY <1>4 DEF ListsType

\* Lists merged with the defaults are as many lists.
LEMMA ByDictType ==
    ASSUME NEW args \in ListsType, NEW list \in ListsType, Len(args) <= Len(list),
           NEW given \in Nat
    PROVE  /\ MergeByDict(args, given, list) \in ListsType
           /\ Len(MergeByDict(args, given, list)) = Len(args)
<1> DEFINE rest == FlattenSeq(SubSeq(list, given + 1, Len(args)))
           own(i) == args[i] \o Unnamed(list[i], Keys(args[i]))
           merged(i) == IF i <= given THEN own(i) ELSE rest
<1>1. DOMAIN args = 1..Len(args) /\ Len(args) \in Nat /\ Len(list) \in Nat
  BY LenProperties DEF ListsType
<1>2. rest \in Seq(Seq(Words))
  <2>1. \A i \in (given + 1)..Len(args) : list[i] \in Seq(Seq(Words))
    BY <1>1, ElementOfSeq DEF ListsType
  <2>2. SubSeq(list, given + 1, Len(args)) \in Seq(Seq(Seq(Words)))
    BY <1>1, <2>1, SubSeqProperties
  <2> QED
    BY <2>2, FlattenType
<1>3. \A i \in 1..Len(args) : own(i) \in Seq(Seq(Words))
  <2> SUFFICES ASSUME NEW i \in 1..Len(args)
               PROVE  own(i) \in Seq(Seq(Words))
    OBVIOUS
  <2>1. PICK a \in Seq(Seq(Words)) : a = args[i]
    BY ElementOfSeq DEF ListsType
  <2>2. list[i] \in Seq(Seq(Words))
    BY <1>1, ElementOfSeq DEF ListsType
  <2>3. PICK b \in Seq(Seq(Words)) : b = Unnamed(list[i], Keys(args[i]))
    BY <2>2, UnnamedType
  <2>4. a \o b \in Seq(Seq(Words))
    BY <2>1, <2>3, ConcatProperties
  <2> QED
    BY <2>1, <2>3, <2>4, Zenon
<1>4. MergeByDict(args, given, list) = [i \in DOMAIN args |-> merged(i)]
  BY DEF MergeByDict
<1> HIDE DEF rest, own
<1>5. \A i \in 1..Len(args) : merged(i) \in Seq(Seq(Words))
  BY <1>2, <1>3
<1> HIDE DEF merged
<1> QED
  BY <1>1, <1>4, <1>5 DEF ListsType

-------------------------------------------------------------------------------
\* The ways through fix_modulesArgs.
LEMMA FixedIs ==
    ASSUME NEW modules, NEW args, NEW list, NEW haveSeqs, NEW given,
           given = Structured(args, haveSeqs), NEW fixed,
           fixed = FixModulesArgs(modules, args, list, haveSeqs)
    PROVE  /\ args.shape = "mixed" => fixed = Fails("exit", list)
           /\ args.shape # "mixed" /\ ~Truthy(given) /\ Truthy(list) =>
                 fixed = Gives(Extended(modules, list, list), list)
           /\ args.shape # "mixed" /\ ~Truthy(list) =>
                 fixed = Gives(Extended(modules, given, list), list)
           /\ args.shape # "mixed" /\ Truthy(given) /\ Truthy(list) =>
                 fixed = Merge(modules, args, haveSeqs, list)
<1> DEFINE exit == Fails("exit", list)
           copied == Gives(Extended(modules, list, list), list)
           alone == Gives(Extended(modules, given, list), list)
           merged == Merge(modules, args, haveSeqs, list)
           nothing == ~Truthy(given) /\ Truthy(list)
           mixed == args.shape = "mixed"
<1>1. fixed = IF mixed THEN exit
              ELSE CASE nothing -> copied
                     [] ~Truthy(list) -> alone
                     [] OTHER -> merged
  BY Zenon DEF FixModulesArgs, DefaultsCopied
<1>2. nothing => Truthy(list) /\ ~Truthy(given)
  OBVIOUS
<1>3. Truthy(given) => ~nothing
  OBVIOUS
<1> HIDE DEF exit, copied, alone, merged, mixed
<1>4. mixed => fixed = exit
  BY <1>1
<1>5. ~mixed /\ ~Truthy(given) /\ Truthy(list) => fixed = copied
  BY <1>1
<1>6. ~mixed /\ ~Truthy(list) => fixed = alone
  BY <1>1
<1>7. ~mixed /\ Truthy(given) /\ Truthy(list) => fixed = merged
  BY <1>1
<1> QED
  BY <1>4, <1>5, <1>6, <1>7, Zenon DEF exit, copied, alone, merged, mixed

\* The ways through the merging.
LEMMA MergedIs ==
    ASSUME NEW modules, NEW args, NEW list, NEW haveSeqs, NEW given, NEW extended,
           given = Structured(args, haveSeqs), extended = Extended(modules, given, list),
           Len(extended) \in Nat, Len(list) \in Nat,
           NEW merged, merged = Merge(modules, args, haveSeqs, list)
    PROVE  \/ Len(extended) > Len(list) /\ merged = Fails("exit", list)
           \/ /\ Len(extended) <= Len(list) /\ IsPlain(args)
              /\ merged = Gives(MergeByWords(args.text, list), list)
           \/ /\ Len(extended) <= Len(list) /\ ~IsPlain(args)
              /\ merged = Fails("raised", list)
           \/ /\ Len(extended) <= Len(list) /\ ~IsPlain(args)
              /\ merged = Gives(MergeByDict(extended, Len(given), list), list)
              /\ \A i \in DOMAIN list : i > Len(extended) => list[i] = <<>>
<1> DEFINE exit == Fails("exit", list)
           raised == Fails("raised", list)
           words == Gives(MergeByWords(args.text, list), list)
           dict == Gives(MergeByDict(extended, Len(given), list), list)
           large == Len(extended) > Len(list)
           small == Len(extended) <= Len(list)
           plain == IsPlain(args)
           beyond == \E i \in DOMAIN list : i > Len(extended) /\ list[i] # <<>>
<1>1. merged = CASE large -> exit
                 [] small /\ plain -> words
                 [] OTHER -> IF beyond THEN raised ELSE dict
  BY Zenon DEF Merge
<1>2. large <=> ~small
  OBVIOUS
<1>3. ~beyond => \A i \in DOMAIN list : i > Len(extended) => list[i] = <<>>
  BY Zenon
<1> HIDE DEF exit, raised, words, dict, large, small, plain, beyond
<1>4. large => merged = exit
  BY <1>1, <1>2
<1>5. small /\ plain => merged = words
  BY <1>1, <1>2
<1>6. small /\ ~plain => merged = IF beyond THEN raised ELSE dict
  BY <1>1, <1>2
<1> QED
  BY <1>2, <1>3, <1>4, <1>5, <1>6, Zenon DEF exit, raised, words, dict, large, small, plain

\* What fix_modulesArgs returns are lists for the modules, or None.
LEMMA FixedType ==
    ASSUME NEW modules \in ModuleType, NEW args \in ArgsType,
           NEW list \in ListsType \cup {None}, NEW haveSeqs,
           NEW fixed, fixed = FixModulesArgs(modules, args, list, haveSeqs)
    PROVE  fixed.args \in ListsType \cup {None}
<1>1. \A x : Gives(x, list).args = x
  BY DEF Gives
<1>2. \A how : Fails(how, list).args = None
  BY DEF Fails
<1>3. CASE args.shape = "mixed"
  <2>1. fixed = Fails("exit", list)
    BY <1>3, FixedIs
  <2> QED
    BY <1>2, <2>1
<1>4. CASE args.shape # "mixed"
  <2>1. PICK given \in ListsType \cup {None} : given = Structured(args, haveSeqs)
    BY <1>4, StructuredType
  <2>2. CASE ~Truthy(given) /\ Truthy(list)
    <3>1. fixed = Gives(Extended(modules, list, list), list)
      BY <1>4, <2>1, <2>2, FixedIs
    <3>2. Extended(modules, list, list) \in ListsType \cup {None}
      BY ExtendedIs
    <3> QED
      BY <1>1, <3>1, <3>2, Zenon
  <2>3. CASE ~Truthy(list)
    <3>1. fixed = Gives(Extended(modules, given, list), list)
      BY <1>4, <2>1, <2>3, FixedIs
    <3>2. Extended(modules, given, list) \in ListsType \cup {None}
      BY <2>1, ExtendedIs
    <3> QED
      BY <1>1, <3>1, <3>2, Zenon
  <2>4. CASE Truthy(given) /\ Truthy(list)
    <3>1. fixed = Merge(modules, args, haveSeqs, list)
      BY <1>4, <2>1, <2>4, FixedIs
    <3>2. given \in ListsType /\ list \in ListsType /\ list # <<>>
      BY <2>1, <2>4 DEF Truthy
    <3>3. PICK extended \in ListsType : extended = Extended(modules, given, list)
      <4>1. Extended(modules, given, list) \in ListsType
        BY <2>1, <3>2, ExtendedIs
      <4> QED
        BY <4>1
    <3>4. Len(extended) \in Nat /\ Len(list) \in Nat /\ Len(given) \in Nat
      BY <3>2, <3>3, LenProperties DEF ListsType
    <3>5. IsPlain(args) => MergeByWords(args.text, list) \in ListsType
      <4> SUFFICES ASSUME IsPlain(args)
                   PROVE  MergeByWords(args.text, list) \in ListsType
        OBVIOUS
      <4>1. args.text \in Seq(Words)
        BY DEF IsPlain, ArgsType
      <4> QED
        BY <3>2, <4>1, ByWordsType
    <3>6. Len(extended) <= Len(list) => MergeByDict(extended, Len(given), list) \in ListsType
      BY <3>2, <3>3, <3>4, ByDictType
    <3>7. \/ fixed = Fails("exit", list) \/ fixed = Fails("raised", list)
          \/ IsPlain(args) /\ fixed = Gives(MergeByWords(args.text, list), list)
          \/ /\ Len(extended) <= Len(list)
             /\ fixed = Gives(MergeByDict(extended, Len(given), list), list)
      BY <2>1, <3>1, <3>3, <3>4, MergedIs
    <3> QED
      BY <1>1, <1>2, <3>5, <3>6, <3>7, Zenon
  <2> QED
    BY <2>2, <2>3, <2>4
<1> QED
  BY <1>3, <1>4

-------------------------------------------------------------------------------
\* The Defaults are and stay what the command line made them.
FromCommandLine == defaults # None => defaults = DefaultsFrom(cmd)

\* What is made in one go by NewEnv.
RunnerChecked ==
    runner # None =>
        /\ defaults # None
        /\ runner.interactive = defaults.interactive
        /\ runner.shards = Shards(runner.made)
        /\ runner.port = Port(runner.made)
        /\ MayBeMade(runner.made)

\* The servers were made with the parameters that are compared.
RunnerCompared ==
    current # None =>
        \A param \in EnvCompareParams : runner.made[param] = current[param]

\* There is at least one shard.
ShardsCounted ==
    /\ cmd \in CommandLines
    /\ runner # None => runner.made.shardsCount \in Nat \ {0}

IInv ==
    /\ FromCommandLine
    /\ ShardsCounted
    /\ RunnerCompared
    /\ RunnerChecked

-------------------------------------------------------------------------------
\* However it ends, fix_modulesArgs leaves the defaults it was given.
LEMMA DefaultsAreCopied ==
    ASSUME NEW modules, NEW args, NEW list
    PROVE  FixModulesArgs(modules, args, list, TRUE).defaults = list
  <1>1. \A x : Gives(x, list).defaults = list
    BY DEF Gives
  <1>2. \A how : Fails(how, list).defaults = list
    BY DEF Fails
  <1>3. Merge(modules, args, TRUE, list).defaults = list
    <2> DEFINE given == Structured(args, TRUE)
               extended == Extended(modules, given, list)
               byWords == MergeByWords(args.text, list)
               byDict == MergeByDict(extended, Len(given), list)
               beyond == \E i \in DOMAIN list : i > Len(extended) /\ list[i] # <<>>
               large == Len(extended) > Len(list)
               fits == Len(extended) <= Len(list) /\ IsPlain(args)
    <2>1. Merge(modules, args, TRUE, list) =
            CASE large -> Fails("exit", list)
              [] fits -> Gives(byWords, list)
              [] OTHER -> IF beyond THEN Fails("raised", list) ELSE Gives(byDict, list)
      BY DEF Merge
    <2> HIDE DEF byWords, byDict, beyond, large, fits
    <2> QED
      BY <2>1, <1>1, <1>2
  <1>4. DefaultsCopied(modules, list).defaults = list
    BY <1>1 DEF DefaultsCopied
  <1> DEFINE nothing == ~Truthy(Structured(args, TRUE)) /\ Truthy(list)
             alone == ~Truthy(list)
             mixed == args.shape = "mixed"
             kept == Gives(Extended(modules, Structured(args, TRUE), list), list)
  <1>5. FixModulesArgs(modules, args, list, TRUE) =
          IF mixed THEN Fails("exit", list)
          ELSE CASE nothing -> DefaultsCopied(modules, list)
                 [] alone -> kept
                 [] OTHER -> Merge(modules, args, TRUE, list)
    BY DEF FixModulesArgs
  <1>6. kept.defaults = list
    BY <1>1
  <1> HIDE DEF nothing, alone, mixed, kept
  <1> QED
    BY <1>2, <1>3, <1>4, <1>5, <1>6

\* No Env changes the command line or the Defaults.
LEMMA NewEnvKeepsDefaults ==
    ASSUME FromCommandLine, NEW r \in Requests, NewEnv(r)
    PROVE  UNCHANGED <<cmd, defaults>>
  <1>1. defaults = DefaultsFrom(cmd)
    BY DEF NewEnv, FromCommandLine
  <1> DEFINE list == IF r.noDefaultModuleArgs THEN None ELSE defaults.moduleArgs
             fixed == FixModulesArgs(FixModules(r.module, defaults.module),
                                     r.moduleArgs, list, TRUE)
  <1>2. fixed.defaults = list
    BY DefaultsAreCopied
  <1>3. /\ defaults' = IF r.noDefaultModuleArgs THEN defaults
                       ELSE [defaults EXCEPT !.moduleArgs = fixed.defaults]
        /\ UNCHANGED cmd
    BY DEF NewEnv
  <1> HIDE DEF fixed
  <1>4. ~r.noDefaultModuleArgs =>
            defaults' = [defaults EXCEPT !.moduleArgs = defaults.moduleArgs]
    BY <1>2, <1>3
  <1>5. [defaults EXCEPT !.moduleArgs = defaults.moduleArgs] = defaults
    BY <1>1 DEF DefaultsFrom
  <1> QED
    BY <1>3, <1>4, <1>5

\* The Env at hand and its servers after NewEnv.
LEMMA NewEnvServers ==
    ASSUME IInv, NEW r \in Requests, NewEnv(r)
    PROVE  \/ UNCHANGED <<current, runner>>
           \/ /\ CompareEnvs(current', current) /\ current # None
              /\ UNCHANGED runner
           \/ runner' = NewRunner(current') /\ MayBeMade(current')
  <1> DEFINE list == IF r.noDefaultModuleArgs THEN None ELSE defaults.moduleArgs
             fixed == FixModulesArgs(FixModules(r.module, defaults.module),
                                     r.moduleArgs, list, TRUE)
             e == Resolved(r, fixed.args)
             reuse == ~r.freshEnv /\ CompareEnvs(e, current)
             made == MayBeMade(e) /\ (e.env # "existing-env" => Loadable(e))
  <1>1. IF fixed.how = "returned" /\ (reuse \/ made)
        THEN /\ asked' = r
             /\ current' = e
             /\ runner' = IF reuse THEN runner ELSE NewRunner(e)
        ELSE asked' = None /\ UNCHANGED <<current, runner>>
    BY DEF NewEnv
  <1>2. reuse => CompareEnvs(e, current) /\ current # None
    BY DEF CompareEnvs
  <1>3. made => MayBeMade(e)
    OBVIOUS
  <1> HIDE DEF e, reuse, made
  <1> QED
    BY <1>1, <1>2, <1>3

\* A step keeps the number of shards positive.
LEMMA StepShards == IInv /\ [Next]_vars => ShardsCounted'
  <1> SUFFICES ASSUME IInv, [Next]_vars
               PROVE  ShardsCounted'
    OBVIOUS
  <1> USE DEF IInv, ShardsCounted
  <1>1. CASE ParseCommandLine
    BY <1>1 DEF ParseCommandLine
  <1>2. ASSUME NEW r \in Requests, NewEnv(r)
        PROVE  ShardsCounted'
    <2>1. r.shardsCount \in {None} \cup (Nat \ {0})
      BY ConfigurationAssumption DEF RequestType
    <2>2. cmd.shardsCount \in Nat \ {0}
      BY ConfigurationAssumption DEF CommandLineType
    <2>3. defaults.shardsCount = cmd.shardsCount
      BY <1>2 DEF NewEnv, FromCommandLine, DefaultsFrom
    <2>4. \A args : Resolved(r, args).shardsCount \in Nat \ {0}
      BY <2>1, <2>2, <2>3 DEF Resolved, IfGiven
    <2>5. UNCHANGED cmd
      BY <1>2 DEF NewEnv
    <2>6. UNCHANGED runner \/ (\E args : runner' = NewRunner(Resolved(r, args)))
      BY <1>2 DEF NewEnv
    <2>7. \A e : NewRunner(e).made = e
      BY DEF NewRunner
    <2> QED
      BY <2>4, <2>5, <2>6, <2>7
  <1>3. CASE TakeEnvDown
    BY <1>3 DEF TakeEnvDown
  <1>4. CASE UNCHANGED vars
    BY <1>4 DEF vars
  <1> QED
    BY <1>1, <1>2, <1>3, <1>4 DEF Next

\* The invariant, of the initial states, of a step, and of all behaviours.
LEMMA InitInv == Init => IInv
  BY DEF Init, IInv, FromCommandLine, ShardsCounted, RunnerCompared,
         RunnerChecked

LEMMA StepInv == IInv /\ [Next]_vars => IInv'
  <1> SUFFICES ASSUME IInv, [Next]_vars
               PROVE  IInv'
    OBVIOUS
  <1>5. ShardsCounted'
    BY StepShards
  <1>1. CASE ParseCommandLine
    <2>1. runner = None
      BY <1>1 DEF ParseCommandLine, IInv, RunnerChecked
    <2>2. FromCommandLine'
      BY <1>1 DEF ParseCommandLine, IInv, FromCommandLine, DefaultsFrom
    <2> QED
      BY <1>1, <1>5, <2>1, <2>2
         DEF ParseCommandLine, IInv, RunnerCompared, RunnerChecked
  <1>2. ASSUME NEW r \in Requests, NewEnv(r)
        PROVE  IInv'
    <2>1. UNCHANGED <<cmd, defaults>> /\ defaults # None
      BY <1>2, NewEnvKeepsDefaults DEF IInv, NewEnv
    <2>2. FromCommandLine'
      BY <2>1 DEF IInv, FromCommandLine, DefaultsFrom
    <2>3. \A e : MayBeMade(e)' <=> MayBeMade(e)
      BY <2>1 DEF MayBeMade, MayServe, Shards, Port, SinglePort
    <2>4. \A e : Port(e)' = Port(e)
      BY <2>1 DEF Port, SinglePort
    <2>5. CASE UNCHANGED <<current, runner>>
      BY <1>5, <2>1, <2>2, <2>3, <2>4, <2>5
         DEF IInv, RunnerCompared, RunnerChecked, Shards
    <2>6. CASE CompareEnvs(current', current) /\ current # None /\ UNCHANGED runner
      BY <1>5, <2>1, <2>2, <2>3, <2>4, <2>6
         DEF IInv, RunnerCompared, RunnerChecked, Shards, CompareEnvs
    <2>7. CASE runner' = NewRunner(current') /\ MayBeMade(current')
      <3>1. /\ runner'.made = current' /\ runner'.interactive = defaults.interactive
            /\ runner'.shards = Shards(current') /\ runner'.port = Port(current')
        BY <2>7 DEF NewRunner
      <3>2. RunnerCompared'
        BY <3>1 DEF RunnerCompared
      <3>3. RunnerChecked'
        BY <2>1, <2>7, <3>1
           DEF RunnerChecked, Shards, MayBeMade, MayServe, Port, SinglePort
      <3> QED
        BY <1>5, <2>2, <3>2, <3>3 DEF IInv
    <2> QED
      BY <1>2, <2>5, <2>6, <2>7, NewEnvServers
  <1>3. CASE TakeEnvDown
    BY <1>3, <1>5 DEF TakeEnvDown, IInv, FromCommandLine, RunnerCompared, RunnerChecked
  <1>4. CASE UNCHANGED vars
    BY <1>4, <1>5 DEF vars, IInv, FromCommandLine, RunnerCompared, RunnerChecked,
                DefaultsFrom, MayBeMade, MayServe, Shards, Port, SinglePort
  <1> QED
    BY <1>1, <1>2, <1>3, <1>4 DEF Next

LEMMA Invariant == Spec => []IInv
  BY InitInv, StepInv, PTL DEF Spec

-------------------------------------------------------------------------------
\* Whatever the requests and however they end, the Defaults stay those of the
\* command line.
THEOREM DefaultsStay == Spec => DefaultsUntouched
  <1>1. IInv /\ [Next]_vars => [defaults # None => UNCHANGED defaults]_vars
    <2> SUFFICES ASSUME IInv, Next, defaults # None
                 PROVE  UNCHANGED defaults
      OBVIOUS
    <2> QED
      BY NewEnvKeepsDefaults DEF Next, ParseCommandLine, TakeEnvDown, IInv
  <1> QED
    BY <1>1, Invariant, PTL DEF Spec, DefaultsUntouched

\* Command line, test and constructor together never put an interactive
\* debugger before the servers of a cluster of several shards.
THEOREM DebuggerHasOneServer == Spec => []OneServerToDebug
  <1>1. IInv => OneServerToDebug
    <2> SUFFICES ASSUME IInv, runner # None, runner.interactive
                 PROVE  runner.shards = 1
      BY DEF OneServerToDebug
    <2>1. runner.shards = Shards(runner.made) /\ runner.interactive = defaults.interactive
      BY DEF IInv, RunnerChecked
    <2>2. CASE runner.made.env # "oss-cluster"
      BY <2>1, <2>2 DEF Shards
    <2>3. CASE runner.made.env = "oss-cluster"
      <3>1. Shards(runner.made) = runner.made.shardsCount
        BY <2>3 DEF Shards
      <3>2. \A serverId \in 1..Shards(runner.made) : ~(serverId > 1)
        BY <2>1, <2>3 DEF IInv, RunnerChecked, MayBeMade, MayServe
      <3> QED
        BY <2>1, <3>1, <3>2 DEF IInv, ShardsCounted
    <2> QED
      BY <2>2, <2>3
  <1> QED
    BY <1>1, Invariant, PTL

-------------------------------------------------------------------------------
\* Modules, or None.
LEMMA FixModulesType ==
    ASSUME NEW modules \in ModuleType, NEW default \in ModuleType
    PROVE  FixModules(modules, default) \in ModuleType
  BY DEF FixModules, ModuleType

\* The Defaults of any command line are Defaults.
LEMMA DefaultsTyped ==
    ASSUME NEW c \in CommandLines
    PROVE  DefaultsFrom(c) \in DefaultsType
<1>1. c \in CommandLineType
  BY ConfigurationAssumption
<1>2. c.module \in ModuleType /\ c.moduleArgs \in ArgsType
  BY <1>1 DEF CommandLineType
<1>3. PICK module \in ModuleType : module = FixModules(c.module, None)
  <2>1. None \in ModuleType
    BY DEF ModuleType
  <2> QED
    BY <1>2, <2>1, FixModulesType
<1>4. PICK args \in ListsType \cup {None} :
          args = FixModulesArgs(module, c.moduleArgs, None, TRUE).args
  BY <1>2, FixedType
<1>5. /\ c.env \in Envs /\ c.interactive \in BOOLEAN /\ c.debugger \in BOOLEAN
      /\ c.valgrind \in BOOLEAN /\ c.useSlaves \in BOOLEAN /\ c.noCatch \in BOOLEAN
      /\ c.unix \in BOOLEAN /\ c.useTLS \in BOOLEAN /\ c.certificates \in BOOLEAN
      /\ c.shardsCount \in Nat \ {0} /\ c.randomizePorts \in BOOLEAN
      /\ c.enableDebugCommand \in BOOLEAN
  BY <1>1 DEF CommandLineType
<1> DEFINE noCatch == c.noCatch \/ c.interactive
           interactive == (c.interactive \/ c.debugger) /\ ~c.valgrind
<1>6. noCatch \in BOOLEAN /\ interactive \in BOOLEAN
  OBVIOUS
<1>7. DefaultsFrom(c) =
        [env |-> c.env, module |-> module, moduleArgs |-> args,
         useSlaves |-> c.useSlaves, shardsCount |-> c.shardsCount,
         enableDebugCommand |-> c.enableDebugCommand,
         useTLS |-> c.useTLS, certificates |-> c.certificates, unix |-> c.unix,
         randomizePorts |-> c.randomizePorts, noCatch |-> noCatch,
         interactive |-> interactive]
  BY <1>3, <1>4, Zenon DEF DefaultsFrom
<1> DEFINE d == DefaultsFrom(c)
<1> HIDE DEF noCatch, interactive
<1>8. /\ d.module \in ModuleType /\ d.moduleArgs \in ListsType \cup {None}
  <2>1. d.module = module /\ d.moduleArgs = args
    BY <1>7
  <2> HIDE DEF d
  <2>2. d.module \in ModuleType
    BY <1>3, <2>1, Zenon
  <2>3. d.moduleArgs \in ListsType \cup {None}
    BY <1>4, <2>1, Zenon
  <2> QED
    BY <2>2, <2>3
<1>12. /\ d.env \in Envs /\ d.useSlaves \in BOOLEAN
       /\ d.shardsCount \in Nat \ {0} /\ d.enableDebugCommand \in BOOLEAN
  BY <1>5, <1>7
<1>9. /\ d.useTLS \in BOOLEAN /\ d.certificates \in BOOLEAN /\ d.unix \in BOOLEAN
      /\ d.randomizePorts \in BOOLEAN /\ d.noCatch \in BOOLEAN /\ d.interactive \in BOOLEAN
  BY <1>5, <1>6, <1>7
<1>10. d = [env |-> d.env, module |-> d.module, moduleArgs |-> d.moduleArgs,
            useSlaves |-> d.useSlaves, shardsCount |-> d.shardsCount,
            enableDebugCommand |-> d.enableDebugCommand,
            useTLS |-> d.useTLS, certificates |-> d.certificates, unix |-> d.unix,
            randomizePorts |-> d.randomizePorts, noCatch |-> d.noCatch,
            interactive |-> d.interactive]
  BY <1>7
<1> HIDE DEF d
<1>11. d \in DefaultsType
  BY <1>8, <1>9, <1>10, <1>12 DEF DefaultsType
<1> QED
  BY <1>11 DEF d

\* What fix_modulesArgs makes of a request.
Fixed(r) ==
    FixModulesArgs(FixModules(r.module, defaults.module), r.moduleArgs,
                   IF r.noDefaultModuleArgs THEN None ELSE defaults.moduleArgs, TRUE)

\* What any request is resolved to is an Env.
LEMMA RequestTyped ==
    ASSUME NEW r \in Requests, defaults \in DefaultsType
    PROVE  /\ FixModules(r.module, defaults.module) \in ModuleType
           /\ (IF r.noDefaultModuleArgs THEN None ELSE defaults.moduleArgs)
                 \in ListsType \cup {None}
           /\ r.moduleArgs \in ArgsType
           /\ Resolved(r, Fixed(r).args) \in EnvType
<1>1. r \in RequestType
  BY ConfigurationAssumption
<1>2. r.module \in ModuleType /\ r.moduleArgs \in ArgsType
  BY <1>1 DEF RequestType
<1>3. defaults.module \in ModuleType /\ defaults.moduleArgs \in ListsType \cup {None}
  BY DEF DefaultsType
<1>4. PICK module \in ModuleType : module = FixModules(r.module, defaults.module)
  BY <1>2, <1>3, FixModulesType
<1>5. PICK list \in ListsType \cup {None} :
          list = IF r.noDefaultModuleArgs THEN None ELSE defaults.moduleArgs
  BY <1>3
<1>6. PICK args \in ListsType \cup {None} : args = Fixed(r).args
  BY <1>2, <1>4, <1>5, FixedType DEF Fixed
<1>7. IfGiven(r.env, defaults.env) \in Envs
  BY <1>1 DEF RequestType, DefaultsType, IfGiven
<1>8. IfGiven(r.shardsCount, defaults.shardsCount) \in Nat \ {0}
  BY <1>1 DEF RequestType, DefaultsType, IfGiven
<1>9. IfGiven(r.enableDebugCommand, defaults.enableDebugCommand) \in BOOLEAN
  <2>1. r.enableDebugCommand \in BOOLEAN \cup {None} /\ defaults.enableDebugCommand \in BOOLEAN
    BY <1>1 DEF RequestType, DefaultsType
  <2> QED
    BY <2>1, Zenon DEF IfGiven
<1>10. /\ EitherSet(r.useSlaves, defaults.useSlaves) \in BOOLEAN
       /\ EitherSet(r.useTLS, defaults.useTLS) \in BOOLEAN
  BY DEF EitherSet
<1>11. r.forceTcp \in BOOLEAN
  BY <1>1 DEF RequestType
<1>12. Resolved(r, args) \in EnvType
  BY <1>4, <1>6, <1>7, <1>8, <1>9, <1>10, <1>11 DEF Resolved, EnvType
<1> QED
  BY <1>2, <1>4, <1>5, <1>6, <1>12, Zenon

\* What the constructor of the servers makes of the arguments.
LEMMA ServerArgsType ==
    ASSUME NEW e \in EnvType
    PROVE  ServerArgs(e) \in ListsType \cup {None}
<1> DEFINE args == IF e.moduleArgs = None THEN [shape |-> "nothing"]
                   ELSE [shape |-> "lists", lists |-> e.moduleArgs]
<1>1. None \in ModuleType /\ e.module \in ModuleType
      /\ e.moduleArgs \in ListsType \cup {None}
  BY DEF EnvType, ModuleType
<1>2. FixModules(e.module, None) \in ModuleType
  BY <1>1, FixModulesType
<1>3. args \in ArgsType
  BY <1>1 DEF ArgsType
<1>4. ServerArgs(e) = FixModulesArgs(FixModules(e.module, None), args, None, FALSE).args
  BY Zenon DEF ServerArgs
<1> HIDE DEF args
<1> QED
  BY <1>2, <1>3, <1>4, FixedType

\* What the servers are told to load.
LEMMA LoadsType ==
    ASSUME NEW module \in Seq(Modules), NEW args \in ListsType \cup {None},
           Truthy(args) => Len(module) = Len(args)
    PROVE  LoadModules(module, args) \in Seq(LoadType)
<1> DEFINE words(i) == IF Truthy(args) THEN FlattenSeq(args[i]) ELSE <<>>
           load(i) == [path |-> module[i], words |-> words(i)]
<1>1. DOMAIN module = 1..Len(module) /\ Len(module) \in Nat
  BY LenProperties
<1>2. ASSUME NEW i \in 1..Len(module)
      PROVE  words(i) \in Seq(Words)
  <2>1. CASE Truthy(args)
    <3>1. args \in ListsType
      BY <2>1 DEF Truthy
    <3>2. args[i] \in Seq(Seq(Words))
      BY <2>1, <3>1, ElementOfSeq DEF ListsType
    <3>3. FlattenSeq(args[i]) \in Seq(Words)
      BY <3>2, FlattenType
    <3> QED
      BY <2>1, <3>3
  <2>2. CASE ~Truthy(args)
    BY <2>2
  <2> QED
    BY <2>1, <2>2
<1>3. LoadModules(module, args) = [i \in DOMAIN module |-> load(i)]
  BY Zenon DEF LoadModules
<1> HIDE DEF words
<1>4. \A i \in 1..Len(module) : load(i) \in LoadType
  BY <1>1, <1>2, ElementOfSeq DEF LoadType
<1> HIDE DEF load
<1> QED
  BY <1>1, <1>3, <1>4

\* New servers are servers.
LEMMA RunnerTyped ==
    ASSUME NEW e \in EnvType, runner \in RunnerType \cup {None},
           defaults \in DefaultsType, e.env # "existing-env" => Loadable(e)
    PROVE  NewRunner(e) \in RunnerType
<1>1. Shards(e) \in Nat \ {0}
  BY DEF Shards, EnvType
<1>2. Port(e) \in {"given", "random", "unix"}
  BY DEF Port, SinglePort
<1>3. defaults.interactive \in BOOLEAN
  BY DEF DefaultsType
<1>4. (IF runner = None THEN 0 ELSE 1 - runner.serial) \in 0..1
  BY DEF RunnerType
<1> DEFINE loads == IF e.module = None \/ e.env = "existing-env" THEN <<>>
                    ELSE LoadModules(e.module, ServerArgs(e))
<1>5. loads \in Seq(LoadType)
  <2>1. CASE e.module = None \/ e.env = "existing-env"
    BY <2>1
  <2>2. CASE ~(e.module = None \/ e.env = "existing-env")
    <3>1. e.module \in Seq(Modules)
      BY <2>2 DEF EnvType, ModuleType
    <3>2. Truthy(ServerArgs(e)) => Len(e.module) = Len(ServerArgs(e))
      BY <2>2 DEF Loadable
    <3> QED
      BY <2>2, <3>1, <3>2, ServerArgsType, LoadsType
  <2> QED
    BY <2>1, <2>2
<1>6. NewRunner(e) = [made |-> e, shards |-> Shards(e), port |-> Port(e),
          interactive |-> defaults.interactive, loads |-> loads,
          serial |-> IF runner = None THEN 0 ELSE 1 - runner.serial]
  BY Zenon DEF NewRunner
<1> HIDE DEF loads
<1> QED
  BY <1>1, <1>2, <1>3, <1>4, <1>5, <1>6 DEF RunnerType

-------------------------------------------------------------------------------
\* How NewEnv ends, by what Fixed is.
LEMMA NewEnvEnds ==
    ASSUME FromCommandLine, NEW r \in Requests, NewEnv(r),
           NEW e, e = Resolved(r, Fixed(r).args)
    PROVE  /\ UNCHANGED <<cmd, defaults>> /\ defaults # None
           /\ ended' \in BOOLEAN
           /\ \/ asked' = None /\ UNCHANGED <<current, runner>>
              \/ /\ asked' = r /\ current' = e /\ Fixed(r).how = "returned"
                 /\ \/ current # None /\ CompareEnvs(e, current) /\ UNCHANGED runner
                    \/ /\ e.env # "existing-env" => Loadable(e)
                       /\ runner' = NewRunner(e)
           /\ ~r.freshEnv /\ CompareEnvs(e, current) /\ Fixed(r).how = "returned" =>
                  UNCHANGED runner
<1> DEFINE reuse == ~r.freshEnv /\ CompareEnvs(e, current)
           loadable == e.env # "existing-env" => Loadable(e)
           made == MayBeMade(e) /\ loadable
<1>1. UNCHANGED <<cmd, defaults>> /\ defaults # None
  BY NewEnvKeepsDefaults DEF NewEnv
<1>2. /\ IF Fixed(r).how = "returned" /\ (reuse \/ made)
         THEN /\ asked' = r
              /\ current' = e
              /\ runner' = IF reuse THEN runner ELSE NewRunner(e)
         ELSE asked' = None /\ UNCHANGED <<current, runner>>
      /\ ended' = \/ Fixed(r).how = "exit"
                  \/ Fixed(r).how = "returned" /\ ~reuse /\ ~made /\ MayBeMade(e)
  BY Zenon DEF NewEnv, Fixed
<1>3. reuse => CompareEnvs(e, current) /\ current # None
  BY DEF CompareEnvs
<1>4. ended' \in BOOLEAN
  <2> HIDE DEF reuse, made
  <2> QED
    BY <1>2
<1>5. made => loadable
  OBVIOUS
<1>6. ~r.freshEnv /\ CompareEnvs(e, current) => reuse
  OBVIOUS
<1> HIDE DEF reuse, made, loadable
<1>7. \/ asked' = None /\ UNCHANGED <<current, runner>>
      \/ /\ asked' = r /\ current' = e /\ Fixed(r).how = "returned"
         /\ \/ current # None /\ CompareEnvs(e, current) /\ UNCHANGED runner
            \/ loadable /\ runner' = NewRunner(e)
  BY <1>2, <1>3, <1>5
<1>8. reuse /\ Fixed(r).how = "returned" => UNCHANGED runner
  BY <1>2
<1> QED
  BY <1>1, <1>4, <1>6, <1>7, <1>8 DEF loadable

\* A step keeps the types.
LEMMA StepType ==
    ASSUME IInv, TypeOK, [Next]_vars
    PROVE  TypeOK'
<1>1. CASE ParseCommandLine
  <2>1. current = None /\ runner = None /\ asked = None
    BY <1>1 DEF ParseCommandLine, TypeOK
  <2>2. /\ UNCHANGED <<cmd, current, runner, asked>>
        /\ \/ defaults' = DefaultsFrom(cmd) /\ UNCHANGED ended
           \/ ended' = TRUE /\ UNCHANGED defaults
    BY <1>1 DEF ParseCommandLine
  <2>3. cmd \in CommandLines /\ DefaultsFrom(cmd) \in DefaultsType
    BY DefaultsTyped DEF TypeOK
  <2> QED
    BY <2>1, <2>2, <2>3 DEF TypeOK
<1>2. ASSUME NEW r \in Requests, NewEnv(r)
      PROVE  TypeOK'
  <2> DEFINE e == Resolved(r, Fixed(r).args)
  <2>1. defaults \in DefaultsType /\ runner \in RunnerType \cup {None}
        /\ current \in EnvType \cup {None}
    BY <1>2 DEF TypeOK, NewEnv
  <2>2. e \in EnvType
    BY <2>1, RequestTyped
  <2> HIDE DEF e
  <2>3. /\ UNCHANGED <<cmd, defaults>> /\ defaults # None
        /\ ended' \in BOOLEAN
        /\ \/ asked' = None /\ UNCHANGED <<current, runner>>
           \/ /\ asked' = r /\ current' = e
              /\ \/ current # None /\ UNCHANGED runner
                 \/ (e.env # "existing-env" => Loadable(e)) /\ runner' = NewRunner(e)
    BY <1>2, NewEnvEnds DEF IInv, e
  <2>4. (e.env # "existing-env" => Loadable(e)) => NewRunner(e) \in RunnerType
    BY <2>1, <2>2, RunnerTyped
  <2>5. None \notin EnvType /\ None \notin RunnerType /\ None \notin Requests
    BY NoneAssumption
  <2>6. CASE asked' = None /\ UNCHANGED <<current, runner>>
    BY <2>1, <2>3, <2>6 DEF TypeOK
  <2>7. CASE asked' = r /\ current' = e /\ current # None /\ UNCHANGED runner
    BY <2>1, <2>2, <2>3, <2>5, <2>7 DEF TypeOK
  <2>8. CASE asked' = r /\ current' = e /\ runner' \in RunnerType
    BY <2>1, <2>2, <2>3, <2>5, <2>8 DEF TypeOK
  <2> QED
    BY <2>3, <2>4, <2>6, <2>7, <2>8
<1>3. CASE TakeEnvDown
  BY <1>3 DEF TakeEnvDown, TypeOK
<1>4. CASE UNCHANGED vars
  BY <1>4 DEF vars, TypeOK
<1> QED
  BY <1>1, <1>2, <1>3, <1>4 DEF Next

LEMMA InitType == Init => TypeOK
  BY DEF Init, TypeOK

\* The type invariant, whatever the command lines and the requests.
THEOREM TypeCorrect == Spec => []TypeOK
<1>1. IInv /\ TypeOK /\ [Next]_vars => TypeOK'
  BY StepType
<1> QED
  BY <1>1, InitType, Invariant, PTL DEF Spec

\* The Env at hand is what the last request asks for, if that was granted.
AskedFor ==
    asked # None =>
        /\ current = Resolved(asked, Fixed(asked).args)
        /\ Fixed(asked).how = "returned"

\* The servers at hand could be given their modules and were given them.
LoadsMade ==
    runner # None =>
        /\ runner.made.env # "existing-env" => Loadable(runner.made)
        /\ runner.loads =
             IF runner.made.module = None \/ runner.made.env = "existing-env" THEN <<>>
             ELSE LoadModules(runner.made.module, ServerArgs(runner.made))

RequestInv == IInv /\ TypeOK /\ AskedFor /\ LoadsMade

\* A step keeps what is known of the last request.
LEMMA StepRequest ==
    ASSUME RequestInv, [Next]_vars
    PROVE  RequestInv'
<1>1. IInv' /\ TypeOK'
  BY StepInv, StepType DEF RequestInv
<1>2. CASE ParseCommandLine
  <2>1. asked' = None /\ runner' = None
    BY <1>2 DEF ParseCommandLine, RequestInv, TypeOK
  <2> QED
    BY <1>1, <2>1 DEF RequestInv, AskedFor, LoadsMade
<1>3. ASSUME NEW r \in Requests, NewEnv(r)
      PROVE  RequestInv'
  <2>1. PICK e : e = Resolved(r, Fixed(r).args)
    OBVIOUS
  <2>2. /\ UNCHANGED defaults
        /\ \/ asked' = None /\ UNCHANGED <<current, runner>>
           \/ /\ asked' = r /\ current' = e /\ Fixed(r).how = "returned"
              /\ \/ current # None /\ UNCHANGED runner
                 \/ (e.env # "existing-env" => Loadable(e)) /\ runner' = NewRunner(e)
    BY <1>3, <2>1, NewEnvEnds DEF RequestInv, IInv
  <2>3. AskedFor'
    <3>1. CASE asked' = None
      BY <3>1 DEF AskedFor
    <3>2. CASE asked' = r /\ current' = e /\ Fixed(r).how = "returned"
      <4>1. Fixed(r)' = Fixed(r) /\ Resolved(r, Fixed(r).args)' = Resolved(r, Fixed(r).args)
        BY <2>2 DEF Fixed, Resolved
      <4> QED
        BY <2>1, <3>2, <4>1 DEF AskedFor, Fixed, Resolved
    <3> QED
      BY <2>2, <3>1, <3>2
  <2>4. LoadsMade'
    <3>1. CASE UNCHANGED runner
      BY <3>1 DEF RequestInv, LoadsMade, Loadable, ServerArgs
    <3>2. CASE (e.env # "existing-env" => Loadable(e)) /\ runner' = NewRunner(e)
      <4>1. /\ runner'.made = e
            /\ runner'.loads = IF e.module = None \/ e.env = "existing-env" THEN <<>>
                               ELSE LoadModules(e.module, ServerArgs(e))
        BY <3>2 DEF NewRunner
      <4> QED
        BY <3>2, <4>1 DEF LoadsMade, Loadable, ServerArgs
    <3> QED
      BY <2>2, <3>1, <3>2
  <2> QED
    BY <1>1, <2>3, <2>4 DEF RequestInv
<1>4. CASE TakeEnvDown
  BY <1>1, <1>4 DEF TakeEnvDown, RequestInv, AskedFor, LoadsMade
<1>5. CASE UNCHANGED vars
  BY <1>1, <1>5 DEF vars, RequestInv, AskedFor, LoadsMade, Fixed, Resolved, Loadable,
                    ServerArgs
<1> QED
  BY <1>2, <1>3, <1>4, <1>5 DEF Next

LEMMA RequestInvariant == Spec => []RequestInv
<1>1. Init => RequestInv
  BY InitInv, InitType DEF Init, RequestInv, AskedFor, LoadsMade
<1>2. RequestInv /\ [Next]_vars => RequestInv'
  BY StepRequest
<1> QED
  BY <1>1, <1>2, PTL DEF Spec

\* After any number of Envs that were given the servers of the one before, the
\* servers at hand are those that would be made for the Env at hand, but that
\* they may not speak TLS as it asks.
THEOREM ServersFit == Spec => []ServersAsIfNew
<1>1. RequestInv => ServersAsIfNew
  <2> SUFFICES ASSUME RequestInv, current # None
               PROVE  /\ \A param \in DOMAIN current \ {"useTLS"} :
                            runner.made[param] = current[param]
                      /\ \A what \in {"shards", "port", "loads"} :
                            runner[what] = NewRunner(current)[what]
    BY DEF ServersAsIfNew
  <2>1. current \in EnvType /\ runner # None
    BY DEF RequestInv, TypeOK
  <2>2. DOMAIN current \ {"useTLS"} = EnvCompareParams
    BY <2>1 DEF EnvType, EnvCompareParams
  <2>3. \A param \in EnvCompareParams : runner.made[param] = current[param]
    BY DEF RequestInv, IInv, RunnerCompared
  <2>4. /\ runner.made.env = current.env
        /\ runner.made.shardsCount = current.shardsCount
        /\ runner.made.forceTcp = current.forceTcp
        /\ runner.made.module = current.module
        /\ runner.made.moduleArgs = current.moduleArgs
    BY <2>3 DEF EnvCompareParams
  <2>5. runner.shards = NewRunner(current).shards
    BY <2>1, <2>4 DEF RequestInv, IInv, RunnerChecked, Shards, NewRunner
  <2>6. runner.port = NewRunner(current).port
    BY <2>1, <2>4 DEF RequestInv, IInv, RunnerChecked, Port, SinglePort, NewRunner
  <2>7. runner.loads = NewRunner(current).loads
    BY <2>1, <2>4 DEF RequestInv, LoadsMade, ServerArgs, NewRunner
  <2> QED
    BY <2>2, <2>3, <2>5, <2>6, <2>7
<1> QED
  BY <1>1, RequestInvariant, PTL

\* A request repeated with success, nothing but Envs in between, keeps the
\* servers.
THEOREM SameRequestReuses == Spec => SameSpecReuses
<1>1. RequestInv /\ [Next]_vars =>
          [asked # None /\ ~asked.freshEnv /\ asked' = asked => UNCHANGED runner]_vars
  <2> SUFFICES ASSUME RequestInv, Next, asked # None, ~asked.freshEnv, asked' = asked
               PROVE  UNCHANGED runner
    OBVIOUS
  <2>1. CASE ParseCommandLine
    BY <2>1 DEF ParseCommandLine
  <2>2. CASE TakeEnvDown
    BY <2>2 DEF TakeEnvDown
  <2>3. ASSUME NEW r \in Requests, NewEnv(r)
        PROVE  UNCHANGED runner
    <3>1. asked' = None \/ asked' = r
      BY <2>3, NewEnvEnds DEF RequestInv, IInv
    <3>2. r = asked
      BY <3>1
    <3>3. PICK e : e = Resolved(r, Fixed(r).args)
      OBVIOUS
    <3>4. e = current /\ Fixed(r).how = "returned" /\ current # None
      BY <3>2, <3>3 DEF RequestInv, AskedFor, TypeOK
    <3>5. CompareEnvs(e, current)
      BY <3>4 DEF CompareEnvs
    <3> QED
      BY <2>3, <3>2, <3>3, <3>4, <3>5, NewEnvEnds DEF RequestInv, IInv
  <2> QED
    BY <2>1, <2>2, <2>3 DEF Next
<1> QED
  BY <1>1, RequestInvariant, PTL DEF Spec, SameSpecReuses

-------------------------------------------------------------------------------
\* Words that are the arguments given and then those defaults that named does
\* not name.
HasArgs(words, given, named, default) ==
    words = FlattenSeq(given) \o FlattenSeq(Unnamed(default, named))

\* Some of each.
LEMMA GivenAndDefault ==
    ASSUME NEW given \in Seq(Seq(Words)), NEW default \in Seq(Seq(Words)), NEW named,
           NEW all, all = given \o Unnamed(default, named)
    PROVE  HasArgs(FlattenSeq(all), given, named, default)
<1>1. PICK rest \in Seq(Seq(Words)) : rest = Unnamed(default, named)
  BY UnnamedType
<1>2. FlattenSeq(given \o rest) = FlattenSeq(given) \o FlattenSeq(rest)
  BY FlattenConcat
<1> QED
  BY <1>1, <1>2, Zenon DEF HasArgs

\* Nothing to add, and nothing given.
LEMMA OnlyGiven ==
    ASSUME NEW given \in Seq(Seq(Words)), NEW named
    PROVE  HasArgs(FlattenSeq(given), given, named, <<>>)
<1>1. Unnamed(<<>>, named) = <<>> /\ FlattenSeq(<<>>) = <<>>
  BY UnnamedNone, FlattenEmpty
<1>2. PICK words \in Seq(Words) : words = FlattenSeq(given)
  BY FlattenType
<1>3. words \o <<>> = words
  BY ConcatEmptySeq
<1> QED
  BY <1>1, <1>2, <1>3, Zenon DEF HasArgs

LEMMA OnlyDefault ==
    ASSUME NEW default \in Seq(Seq(Words))
    PROVE  HasArgs(FlattenSeq(default), <<>>, {}, default)
<1>1. Unnamed(default, {}) = default /\ FlattenSeq(<<>>) = <<>>
  BY UnnamedAll, FlattenEmpty
<1>2. PICK words \in Seq(Words) : words = FlattenSeq(default)
  BY FlattenType
<1>3. <<>> \o words = words
  BY ConcatEmptySeq
<1> QED
  BY <1>1, <1>2, <1>3, Zenon DEF HasArgs

\* What the merged lists are, one by one.
LEMMA ByDictAt ==
    ASSUME NEW args \in ListsType, NEW list \in ListsType, NEW given \in Nat,
           NEW i \in 1..Len(args), NEW merged, merged = MergeByDict(args, given, list)
    PROVE  /\ i <= given => merged[i] = args[i] \o Unnamed(list[i], Keys(args[i]))
           /\ i > given => merged[i] = FlattenSeq(SubSeq(list, given + 1, Len(args)))
<1> DEFINE rest == FlattenSeq(SubSeq(list, given + 1, Len(args)))
           own(k) == args[k] \o Unnamed(list[k], Keys(args[k]))
<1>1. i \in DOMAIN args /\ i \in Int
  BY LenProperties DEF ListsType
<1>2. merged = [k \in DOMAIN args |-> IF k <= given THEN own(k) ELSE rest]
  BY Zenon DEF MergeByDict
<1> HIDE DEF rest, own
<1>3. merged[i] = IF i <= given THEN own(i) ELSE rest
  BY <1>1, <1>2
<1>4. i > given => ~(i <= given)
  BY <1>1
<1> QED
  BY <1>3, <1>4, Zenon DEF rest, own

\* One list of defaults, shared by one module.
LEMMA OneDefault ==
    ASSUME NEW list \in ListsType, NEW i \in 1..Len(list)
    PROVE  FlattenSeq(SubSeq(list, i, i)) = list[i]
<1>1. list[i] \in Seq(Seq(Words))
  BY ElementOfSeq DEF ListsType
<1>2. PICK x \in Seq(Seq(Words)) : x = list[i]
  BY <1>1
<1>3. SubSeq(list, i, i) = << x >>
  <2>1. PICK n \in Nat : n = Len(list) /\ DOMAIN list = 1..n
    BY LenProperties DEF ListsType
  <2>2. i \in 1..n
    BY <2>1
  <2>3. SubSeq(list, i, i) = [k \in 1..1 |-> list[i]]
    BY <2>1, <2>2
  <2> QED
    BY <1>2, <2>3
<1>4. FlattenSeq(<< x >>) = x
  BY FlattenOne
<1> QED
  BY <1>2, <1>3, <1>4, Zenon

\* No lists.
LEMMA AtNone == ~Truthy(None) /\ \A i : At(None, i) = <<>>
  BY DEF At, Truthy

\* One list.
LEMMA AtOne ==
    ASSUME NEW x \in Seq(Seq(Words)), NEW list, list = << x >>
    PROVE  /\ list \in ListsType /\ Truthy(list) /\ Len(list) = 1
           /\ \A i : At(list, i) = IF i = 1 THEN x ELSE <<>>
<1>1. list \in ListsType /\ list # <<>> /\ Len(list) = 1 /\ DOMAIN list = {1}
  BY DEF ListsType
<1>2. Truthy(list)
  BY <1>1, NoneAssumption DEF Truthy
<1> QED
  BY <1>1, <1>2 DEF At

\* Lists.
LEMMA AtMany ==
    ASSUME NEW list \in ListsType
    PROVE  /\ Len(list) \in Nat
           /\ Truthy(list) <=> Len(list) > 0
           /\ \A i : At(list, i) = IF i \in 1..Len(list) THEN list[i] ELSE <<>>
           /\ \A i : At(list, i) \in Seq(Seq(Words))
<1>1. Len(list) \in Nat /\ DOMAIN list = 1..Len(list)
  BY LenProperties DEF ListsType
<1>2. Truthy(list) <=> Len(list) > 0
  <2>1. list # None
    BY NoneAssumption
  <2>2. list # <<>> <=> Len(list) > 0
    BY EmptySeq, <1>1 DEF ListsType
  <2> QED
    BY <2>1, <2>2 DEF Truthy
<1>3. \A i : At(list, i) = IF i \in 1..Len(list) THEN list[i] ELSE <<>>
  <2>1. Len(list) > 0 <=> 1..Len(list) # {}
    BY <1>1
  <2> QED
    BY <1>1, <1>2, <2>1 DEF At
<1>4. \A i \in 1..Len(list) : list[i] \in Seq(Seq(Words))
  BY ElementOfSeq DEF ListsType
<1>5. \A i : At(list, i) \in Seq(Seq(Words))
  <2> SUFFICES ASSUME NEW i
               PROVE  At(list, i) \in Seq(Seq(Words))
    OBVIOUS
  <2>1. <<>> \in Seq(Seq(Words))
    OBVIOUS
  <2> QED
    BY <1>3, <1>4, <2>1
<1> QED
  BY <1>1, <1>2, <1>3, <1>5

\* What is made of what a request gives.
Given(args) == Structured(args, TRUE)

\* It is what the request gives to each module.
LEMMA GivenAt ==
    ASSUME NEW args \in ArgsType, args.shape # "mixed", NEW i \in Nat,
           NEW given, given = Given(args)
    PROVE  /\ At(given, i) = GivenTo(args, i)
           /\ GivenTo(args, i) \in Seq(Seq(Words))
           /\ Truthy(given) => Len(given) = GivenLists(args) /\ GivenLists(args) > 0
           /\ args.shape = "text" => Truthy(given)
<1>1. CASE args.shape = "nothing"
  <2>1. given = None
    BY <1>1 DEF Structured, Given
  <2>2. GivenTo(args, i) = <<>> /\ args.shape # "text"
    BY <1>1 DEF GivenTo
  <2>3. At(given, i) = <<>> /\ ~Truthy(given)
    BY <2>1, AtNone
  <2> QED
    BY <2>2, <2>3
<1>2. CASE args.shape = "text"
  <2>1. PICK list \in Seq(Seq(Words)) :
            list = IF IsPlain(args) THEN << args.text >> ELSE Parts(args.text)
    <3>1. args.text \in Seq(Words)
      BY <1>2 DEF ArgsType
    <3>2. << args.text >> \in Seq(Seq(Words)) /\ Parts(args.text) \in Seq(Seq(Words))
      BY <3>1, PartsOfText
    <3> QED
      BY <3>2
  <2>2. given = << list >>
    BY <1>2, <2>1 DEF Structured, Given
  <2>3. GivenTo(args, i) = IF i = 1 THEN list ELSE <<>>
    BY <1>2, <2>1 DEF GivenTo
  <2>4. GivenLists(args) = 1
    BY <1>2 DEF GivenLists
  <2>5. list \in Seq(Seq(Words))
    BY <2>1
  <2>6. Truthy(given) /\ Len(given) = 1 /\ At(given, i) = IF i = 1 THEN list ELSE <<>>
    BY <2>2, <2>5, AtOne
  <2> QED
    BY <2>3, <2>4, <2>5, <2>6
<1>3. CASE args.shape = "texts"
  <2>1. PICK list \in Seq(Seq(Words)) : list = AllParts(args.texts)
    BY <1>3, PartsOfTexts DEF ArgsType
  <2>2. given = << list >>
    BY <1>3, <2>1 DEF Structured, Given
  <2>3. GivenTo(args, i) = IF i = 1 THEN list ELSE <<>>
    BY <1>3, <2>1 DEF GivenTo
  <2>4. GivenLists(args) = 1 /\ args.shape # "text"
    BY <1>3 DEF GivenLists
  <2>5. Truthy(given) /\ Len(given) = 1 /\ At(given, i) = IF i = 1 THEN list ELSE <<>>
    BY <2>1, <2>2, AtOne
  <2> QED
    BY <2>1, <2>3, <2>4, <2>5
<1>4. CASE args.shape = "lists"
  <2>1. given = [k \in DOMAIN args.lists |-> AllParts(args.lists[k])]
    BY <1>4 DEF Structured, Given
  <2>2. args.lists \in ListsType
    BY <1>4 DEF ArgsType
  <2>3. PICK n \in Nat : n = Len(args.lists) /\ DOMAIN args.lists = 1..n
    BY <2>2, LenProperties DEF ListsType
  <2> DEFINE parts(k) == AllParts(args.lists[k])
  <2>4. \A k \in 1..n : parts(k) \in Seq(Seq(Words))
    BY <2>2, <2>3, ElementOfSeq, PartsOfTexts DEF ListsType
  <2>5. given = [k \in 1..n |-> parts(k)]
    BY <2>1, <2>3
  <2>6. GivenTo(args, i) = IF i \in 1..n THEN parts(i) ELSE <<>>
    BY <1>4, <2>3 DEF GivenTo
  <2>7. GivenLists(args) = n /\ args.shape # "text"
    BY <1>4, <2>3 DEF GivenLists
  <2> HIDE DEF parts
  <2>8. given \in ListsType
    <3>1. given \in Seq(Seq(Seq(Words)))
      BY <2>4, <2>5
    <3> QED
      BY <3>1 DEF ListsType
  <2>9. Len(given) = n /\ \A k \in 1..n : given[k] = parts(k)
    BY <2>3, <2>5
  <2>10. Truthy(given) => n > 0
    BY <2>8, <2>9, AtMany
  <2>11. At(given, i) = IF i \in 1..n THEN parts(i) ELSE <<>>
    <3>1. At(given, i) = IF i \in 1..Len(given) THEN given[i] ELSE <<>>
      BY <2>8, AtMany
    <3> QED
      BY <2>9, <3>1
  <2> QED
    BY <2>4, <2>6, <2>7, <2>9, <2>10, <2>11
<1>5. args.shape \in {"nothing", "text", "texts", "lists"}
  BY DEF ArgsType
<1> QED
  BY <1>1, <1>2, <1>3, <1>4, <1>5

-------------------------------------------------------------------------------
\* fix_modulesArgs as Env.__init__ calls it.
Fixing(modules, args, list) == FixModulesArgs(modules, args, list, TRUE)

\* The ways to return.
LEMMA FixingIs ==
    ASSUME NEW modules \in ModuleType, NEW args \in ArgsType,
           NEW list \in ListsType \cup {None},
           Fixing(modules, args, list).how = "returned"
    PROVE  /\ args.shape # "mixed"
           /\ \/ /\ ~Truthy(Given(args)) /\ Truthy(list)
                 /\ Fixing(modules, args, list).args = Extended(modules, list, list)
              \/ /\ ~Truthy(list)
                 /\ Fixing(modules, args, list).args = Extended(modules, Given(args), list)
              \/ /\ Truthy(Given(args)) /\ Truthy(list) /\ IsPlain(args)
                 /\ Fixing(modules, args, list).args = MergeByWords(args.text, list)
              \/ /\ Truthy(Given(args)) /\ Truthy(list) /\ ~IsPlain(args)
                 /\ Len(Extended(modules, Given(args), list)) <= Len(list)
                 /\ Fixing(modules, args, list).args =
                        MergeByDict(Extended(modules, Given(args), list),
                                    Len(Given(args)), list)
                 /\ \A i \in DOMAIN list :
                       i > Len(Extended(modules, Given(args), list)) => list[i] = <<>>
<1>1. PICK haveSeqs : haveSeqs = TRUE
  OBVIOUS
<1>2. PICK fixed : fixed = Fixing(modules, args, list)
  OBVIOUS
<1>3. PICK given : given = Given(args)
  OBVIOUS
<1>4. given = Structured(args, haveSeqs)
      /\ fixed = FixModulesArgs(modules, args, list, haveSeqs)
  BY <1>1, <1>2, <1>3, Zenon DEF Given, Fixing
<1>5. fixed.how = "returned"
  BY <1>2
<1>6. \A x : Gives(x, list).args = x
  BY DEF Gives
<1>7. /\ Fails("exit", list).how # "returned"
      /\ Fails("raised", list).how # "returned"
  BY DEF Fails
<1>8. args.shape # "mixed"
  BY <1>4, <1>5, <1>7, FixedIs
<1>9. CASE ~Truthy(given) /\ Truthy(list)
  <2>1. fixed = Gives(Extended(modules, list, list), list)
    BY <1>4, <1>8, <1>9, FixedIs
  <2> QED
    BY <1>2, <1>3, <1>6, <1>8, <1>9, <2>1, Zenon
<1>10. CASE ~Truthy(list)
  <2>1. fixed = Gives(Extended(modules, given, list), list)
    BY <1>4, <1>8, <1>10, FixedIs
  <2> QED
    BY <1>2, <1>3, <1>6, <1>8, <1>10, <2>1, Zenon
<1>11. CASE Truthy(given) /\ Truthy(list)
  <2>1. fixed = Merge(modules, args, haveSeqs, list)
    BY <1>4, <1>8, <1>11, FixedIs
  <2>2. given \in ListsType /\ list \in ListsType
    <3>1. given \in ListsType \cup {None}
      BY <1>4, <1>8, StructuredType
    <3> QED
      BY <1>11, <3>1 DEF Truthy
  <2>3. PICK extended : extended = Extended(modules, given, list)
    OBVIOUS
  <2>4. extended \in ListsType
    <3>1. Extended(modules, given, list) \in ListsType
      BY <2>2, ExtendedIs
    <3> QED
      BY <2>3, <3>1
  <2>5. Len(extended) \in Nat /\ Len(list) \in Nat
    BY <2>2, <2>4, AtMany
  <2>6. \/ fixed = Fails("exit", list) \/ fixed = Fails("raised", list)
        \/ IsPlain(args) /\ fixed = Gives(MergeByWords(args.text, list), list)
        \/ /\ Len(extended) <= Len(list) /\ ~IsPlain(args)
           /\ fixed = Gives(MergeByDict(extended, Len(given), list), list)
           /\ \A i \in DOMAIN list : i > Len(extended) => list[i] = <<>>
    BY <1>4, <2>1, <2>3, <2>5, MergedIs
  <2> QED
    BY <1>2, <1>3, <1>5, <1>6, <1>7, <1>8, <1>11, <2>3, <2>6, Zenon
<1> QED
  BY <1>3, <1>9, <1>10, <1>11

\* The names under which a default is not added.
Named(args, given) == IF IsPlain(args) THEN ToSet(args.text) ELSE Keys(given)

\* A plain text is one argument for the first module.
LEMMA PlainText ==
    ASSUME NEW args \in ArgsType, IsPlain(args)
    PROVE  /\ args.shape = "text" /\ args.text \in Seq(Words)
           /\ GivenTo(args, 1) = << args.text >> /\ GivenLists(args) = 1
<1>1. args.shape = "text"
  BY DEF IsPlain
<1> QED
  BY <1>1 DEF GivenTo, GivenLists, ArgsType

\* No argument, no name.
LEMMA KeysOfNone == Keys(<<>>) = {}
  BY DEF Keys

\* The facts above as formulas.
LEMMA AllExtended ==
    \A modules \in ModuleType : \A args \in ListsType \cup {None} :
    \A list \in ListsType \cup {None} :
        \A i : At(Extended(modules, args, list), i) = At(args, i)
  BY ExtendedIs

LEMMA AllByDict ==
    \A args \in ListsType : \A list \in ListsType : \A given \in Nat :
    \A i \in 1..Len(args) :
        /\ i <= given => MergeByDict(args, given, list)[i] =
                             args[i] \o Unnamed(list[i], Keys(args[i]))
        /\ i > given => MergeByDict(args, given, list)[i] =
                             FlattenSeq(SubSeq(list, given + 1, Len(args)))
<1> SUFFICES ASSUME NEW args \in ListsType, NEW list \in ListsType, NEW given \in Nat,
                    NEW i \in 1..Len(args)
             PROVE  /\ i <= given => MergeByDict(args, given, list)[i] =
                             args[i] \o Unnamed(list[i], Keys(args[i]))
                    /\ i > given => MergeByDict(args, given, list)[i] =
                             FlattenSeq(SubSeq(list, given + 1, Len(args)))
  BY Zenon
<1> DEFINE own == args[i] \o Unnamed(list[i], Keys(args[i]))
           rest == FlattenSeq(SubSeq(list, given + 1, Len(args)))
<1>1. PICK merged : merged = MergeByDict(args, given, list)
  OBVIOUS
<1>2. (i <= given => merged[i] = own) /\ (i > given => merged[i] = rest)
  BY <1>1, ByDictAt
<1> QED
  BY <1>1, <1>2, Zenon

\* Each module gets what a request gives to it and those of its defaults that
\* this does not name.
LEMMA ArgsFixed ==
    ASSUME NEW modules \in ModuleType, NEW args \in ArgsType,
           NEW list \in ListsType \cup {None},
           NEW fixed, fixed = Fixing(modules, args, list), fixed.how = "returned",
           NEW i \in Nat \ {0}, IsPlain(args) => i = 1,
           \* the lists that were added are not one list for several modules
           Truthy(Given(args)) /\ Truthy(list)
             /\ i \in (Len(Given(args)) + 1)..(Len(Given(args))
                                                 + Missing(modules, Given(args), list)) =>
               Missing(modules, Given(args), list) <= 1
    PROVE  HasArgs(FlattenSeq(At(fixed.args, i)), GivenTo(args, i),
                   Named(args, GivenTo(args, i)), At(list, i))
<1>1. args.shape # "mixed"
  BY FixingIs
<1>2. PICK given : given = Given(args)
  OBVIOUS
<1>3. given \in ListsType \cup {None}
  BY <1>1, <1>2, StructuredType DEF Given
<1>4. PICK own \in Seq(Seq(Words)) : own = GivenTo(args, i) /\ own = At(given, i)
  BY <1>1, <1>2, GivenAt
<1>5. PICK default \in Seq(Seq(Words)) : default = At(list, i)
  <2>1. CASE list \in ListsType
    BY <2>1, AtMany
  <2>2. CASE list = None
    <3>1. At(list, i) = <<>> /\ <<>> \in Seq(Seq(Words))
      BY <2>2, AtNone
    <3> QED
      BY <3>1
  <2> QED
    BY <2>1, <2>2
<1>6. PICK named : named = Named(args, own)
  OBVIOUS
<1>7. SUFFICES HasArgs(FlattenSeq(At(fixed.args, i)), own, named, default)
  BY <1>4, <1>5, <1>6, Zenon
<1>8. CASE ~Truthy(given) /\ Truthy(list)
           /\ fixed.args = Extended(modules, list, list)
  <2>1. At(fixed.args, i) = default
    BY <1>5, <1>8, ExtendedIs
  <2>2. own = <<>>
    BY <1>4, <1>8 DEF At
  <2>3. ~IsPlain(args)
    BY <1>1, <1>2, <1>8, GivenAt DEF IsPlain
  <2>4. named = {}
    BY <1>6, <2>2, <2>3, KeysOfNone DEF Named
  <2> QED
    BY <1>5, <2>1, <2>2, <2>4, OnlyDefault
<1>9. CASE ~Truthy(list) /\ fixed.args = Extended(modules, given, list)
  <2>1. At(fixed.args, i) = own
    <3>1. \A k : At(Extended(modules, given, list), k) = At(given, k)
      BY <1>3, AllExtended, Zenon
    <3> QED
      BY <1>4, <1>9, <3>1
  <2>2. default = <<>>
    BY <1>5, <1>9 DEF At
  <2> QED
    BY <1>4, <2>1, <2>2, OnlyGiven
<1>10. CASE Truthy(given) /\ Truthy(list) /\ IsPlain(args)
            /\ fixed.args = MergeByWords(args.text, list)
  <2>1. i = 1 /\ args.text \in Seq(Words) /\ own = << args.text >>
    BY <1>4, <1>10, PlainText
  <2>2. list \in ListsType /\ default = list[1]
    <3>1. list \in ListsType
      BY <1>10 DEF Truthy
    <3>2. 1 \in 1..Len(list)
      BY <1>10, <3>1, AtMany
    <3> QED
      BY <1>5, <2>1, <3>1, <3>2, AtMany
  <2>3. PICK rest \in Seq(Words) : rest = FlattenSeq(Unnamed(default, named))
    BY <1>5, UnnamedType, FlattenType
  <2>4. named = ToSet(args.text)
    BY <1>6, <1>10, Zenon DEF Named
  <2>5. PICK text \in Seq(Words) : text = args.text
    BY <2>1
  <2>6. PICK all \in Seq(Words) : all = text \o rest
    BY <2>3, <2>5, ConcatProperties
  <2>7. fixed.args = << << all >> >>
    BY <1>10, <2>2, <2>3, <2>4, <2>5, <2>6, Zenon DEF MergeByWords
  <2>8. << all >> \in Seq(Seq(Words))
    BY <2>6
  <2>9. At(fixed.args, i) = << all >>
    BY <2>1, <2>7, <2>8, AtOne
  <2>10. FlattenSeq(<< all >>) = all
    BY <2>6, FlattenOne
  <2>11. FlattenSeq(<< text >>) = text
    BY <2>5, FlattenOne
  <2> QED
    BY <2>1, <2>3, <2>5, <2>6, <2>9, <2>10, <2>11, Zenon DEF HasArgs
<1>11. CASE /\ Truthy(given) /\ Truthy(list) /\ ~IsPlain(args)
            /\ Len(Extended(modules, given, list)) <= Len(list)
            /\ fixed.args = MergeByDict(Extended(modules, given, list), Len(given), list)
            /\ \A k \in DOMAIN list :
                  k > Len(Extended(modules, given, list)) => list[k] = <<>>
  <2>1. given \in ListsType /\ list \in ListsType
    BY <1>3, <1>11 DEF Truthy
  <2>2. PICK extended : extended = Extended(modules, given, list)
    OBVIOUS
  <2>3. PICK n \in Int : n = Missing(modules, given, list)
    BY <2>1, MissingType
  <2>4. /\ extended \in ListsType
        /\ At(extended, i) = own
        /\ n > 0 => Len(extended) = Len(given) + n
        /\ ~(n > 0) => extended = given
    <3>1. given # None
      BY <1>11 DEF Truthy
    <3> QED
      BY <1>4, <2>1, <2>2, <2>3, <3>1, ExtendedIs
  <2>5. PICK m \in Nat, g \in Nat, d \in Nat :
            m = Len(extended) /\ g = Len(given) /\ d = Len(list)
    BY <2>1, <2>4, AtMany
  <2>6. m <= d /\ g <= m
    BY <1>11, <2>2, <2>3, <2>4, <2>5
  <2>7. PICK merged \in ListsType : merged = MergeByDict(extended, g, list) /\ Len(merged) = m
    BY <2>1, <2>4, <2>5, <2>6, ByDictType
  <2>12. \A k \in 1..m :
            /\ k <= g => merged[k] = extended[k] \o Unnamed(list[k], Keys(extended[k]))
            /\ k > g => merged[k] = FlattenSeq(SubSeq(list, g + 1, m))
    <3>1. m = Len(extended) /\ merged = MergeByDict(extended, g, list)
      BY <2>5, <2>7
    <3>2. extended \in ListsType /\ list \in ListsType /\ g \in Nat
      BY <2>1, <2>4, <2>5
    <3> QED
      <4> SUFFICES ASSUME NEW k \in 1..m
                   PROVE  /\ k <= g => merged[k] = extended[k] \o Unnamed(list[k], Keys(extended[k]))
                          /\ k > g => merged[k] = FlattenSeq(SubSeq(list, g + 1, m))
        BY Zenon
      <4>1. k \in 1..Len(extended)
        BY <3>1
      <4>2. /\ k <= g => MergeByDict(extended, g, list)[k] =
                             extended[k] \o Unnamed(list[k], Keys(extended[k]))
            /\ k > g => MergeByDict(extended, g, list)[k] =
                             FlattenSeq(SubSeq(list, g + 1, Len(extended)))
        BY <3>2, <4>1, AllByDict, Zenon
      <4> QED
        BY <3>1, <4>2, Zenon
  <2>8. fixed.args = merged
    BY <1>11, <2>2, <2>5, <2>7
  <2>9. named = Keys(own)
    BY <1>6, <1>11, Zenon DEF Named
  <2>10. CASE i \in 1..g
    <3>1. i \in 1..m /\ i \in 1..d /\ i <= g
      BY <2>5, <2>6, <2>10
    <3>2. extended[i] = own /\ list[i] = default /\ At(merged, i) = merged[i]
      BY <1>5, <2>1, <2>4, <2>5, <2>7, <3>1, AtMany
    <3>3. merged[i] = extended[i] \o Unnamed(list[i], Keys(extended[i]))
      BY <2>12, <3>1, Zenon
    <3>4. merged[i] = own \o Unnamed(default, named)
      BY <2>9, <3>2, <3>3, Zenon
    <3> QED
      BY <1>4, <1>5, <2>8, <3>2, <3>4, GivenAndDefault
  <2>11. CASE i \notin 1..g
    <3>1. own = <<>>
      BY <1>4, <2>1, <2>5, <2>11, AtMany
    <3>2. named = {}
      BY <2>9, <3>1, KeysOfNone
    <3>3. i > g
      BY <2>5, <2>11
    <3>4. CASE i \in 1..m
      <4>1. n <= 1
        <5>1. i \in (g + 1)..(g + n)
          BY <2>3, <2>4, <2>5, <3>3, <3>4
        <5>2. i \in (g + 1)..(g + n) => n <= 1
          BY <1>2, <1>11, <2>3, <2>5
        <5> QED
          BY <5>1, <5>2
      <4>2. m = g + 1 /\ i = g + 1 /\ i \in 1..d
        BY <2>3, <2>4, <2>5, <2>6, <3>3, <3>4, <4>1
      <4>3. At(merged, i) = merged[i] /\ list[i] = default
        BY <1>5, <2>1, <2>5, <2>7, <3>4, <4>2, AtMany
      <4>4. merged[i] = FlattenSeq(SubSeq(list, g + 1, m))
        BY <2>12, <3>3, <3>4, Zenon
      <4>5. FlattenSeq(SubSeq(list, i, i)) = list[i]
        BY <2>1, <2>5, <4>2, OneDefault
      <4>6. At(fixed.args, i) = default
        BY <2>8, <4>2, <4>3, <4>4, <4>5, Zenon
      <4> QED
        BY <1>5, <3>1, <3>2, <4>6, OnlyDefault
    <3>5. CASE i \notin 1..m
      <4>1. At(merged, i) = <<>>
        BY <2>5, <2>7, <3>5, AtMany
      <4>2. default = <<>>
        <5>1. i \in 1..d => list[i] = <<>>
          <6>1. DOMAIN list = 1..d /\ (i \in 1..d => i > m)
            BY <2>1, <2>5, <3>5, LenProperties DEF ListsType
          <6> QED
            BY <1>11, <2>2, <2>5, <6>1
        <5> QED
          BY <1>5, <2>1, <2>5, <5>1, AtMany
      <4> QED
        BY <1>4, <2>8, <3>1, <4>1, <4>2, OnlyGiven
    <3> QED
      BY <3>4, <3>5
  <2> QED
    BY <2>10, <2>11
<1> QED
  BY <1>2, <1>8, <1>9, <1>10, <1>11, FixingIs

-------------------------------------------------------------------------------
\* The constructor of the servers loses none of the arguments and adds none.
LEMMA WordsLoaded ==
    ASSUME NEW e \in EnvType, e.module # None, Loadable(e), NEW i \in DOMAIN e.module
    PROVE  LoadModules(e.module, ServerArgs(e))[i].words = FlattenSeq(At(e.moduleArgs, i))
<1>1. PICK modules \in Seq(Modules) : modules = e.module
  BY DEF EnvType, ModuleType
<1>2. PICK given \in ListsType \cup {None} : given = e.moduleArgs
  BY DEF EnvType
<1>3. PICK args : args = IF given = None THEN [shape |-> "nothing"]
                         ELSE [shape |-> "lists", lists |-> given]
  OBVIOUS
<1>4. PICK haveSeqs : haveSeqs = FALSE
  OBVIOUS
<1>5. FixModules(modules, None) = modules
  BY <1>1 DEF FixModules
<1>6. PICK fixed : fixed = FixModulesArgs(modules, args, None, haveSeqs)
  OBVIOUS
<1>7. ServerArgs(e) = fixed.args
  BY <1>1, <1>2, <1>3, <1>4, <1>5, <1>6, Zenon DEF ServerArgs
<1>8. given = Structured(args, haveSeqs) /\ args.shape # "mixed"
  <2>1. CASE given = None
    <3>1. args.shape = "nothing"
      BY <1>3, <2>1
    <3> QED
      BY <2>1, <3>1 DEF Structured
  <2>2. CASE given # None
    <3>1. args.shape = "lists" /\ args.lists = given
      BY <1>3, <2>2
    <3>2. ~haveSeqs
      BY <1>4
    <3>3. Structured(args, haveSeqs) =
            IF haveSeqs THEN [k \in DOMAIN args.lists |-> AllParts(args.lists[k])]
            ELSE args.lists
      BY <3>1 DEF Structured
    <3>4. Structured(args, haveSeqs) = args.lists
      BY <3>2, <3>3, Zenon
    <3> QED
      BY <3>1, <3>4
  <2> QED
    BY <2>1, <2>2
<1>9. fixed = Gives(Extended(modules, given, None), None)
  BY <1>6, <1>8, AtNone, FixedIs
<1>10. fixed.args = Extended(modules, given, None)
  BY <1>9 DEF Gives
<1>11. PICK made : made = ServerArgs(e)
  OBVIOUS
<1>12. At(made, i) = At(given, i)
  <2>1. modules \in ModuleType
    BY <1>1 DEF ModuleType
  <2>2. At(Extended(modules, given, None), i) = At(given, i)
    <3>1. None \in ListsType \cup {None}
      OBVIOUS
    <3>2. given \in ListsType \cup {None}
      BY <1>2
    <3>3. \A old, list \in ListsType \cup {None} :
              \A k : At(Extended(modules, old, list), k) = At(old, k)
      BY <2>1, AllExtended, Zenon
    <3> QED
      BY <3>1, <3>2, <3>3, Zenon
  <2> QED
    BY <1>7, <1>10, <1>11, <2>2, Zenon
<1>13. Truthy(made) => Len(modules) = Len(made)
  BY <1>1, <1>11 DEF Loadable
<1>14. made \in ListsType \cup {None}
  BY <1>11, ServerArgsType
<1>15. LoadModules(modules, made)[i].words = IF Truthy(made) THEN FlattenSeq(made[i]) ELSE <<>>
  BY <1>1 DEF LoadModules
<1>16. CASE Truthy(made)
  <2>1. made \in ListsType
    BY <1>14, <1>16 DEF Truthy
  <2>2. i \in 1..Len(made)
    BY <1>1, <1>13, <1>16
  <2>3. At(made, i) = made[i]
    BY <2>1, <2>2, AtMany
  <2> QED
    BY <1>1, <1>2, <1>11, <1>12, <1>15, <1>16, <2>3, Zenon
<1>17. CASE ~Truthy(made)
  <2>1. At(made, i) = <<>>
    BY <1>17, Zenon DEF At
  <2> QED
    BY <1>1, <1>2, <1>11, <1>12, <1>15, <1>17, <2>1, FlattenEmpty, Zenon
<1> QED
  BY <1>16, <1>17

\* The list of defaults for a request.
DefaultList(r) == IF r.noDefaultModuleArgs THEN None ELSE defaults.moduleArgs

\* What is loaded is what the last request and the Defaults say.
LEMMA RequestLoads ==
    ASSUME RequestInv, asked # None, current.env # "existing-env",
           NEW i \in DOMAIN runner.loads, ~SharesAList(i),
           IsPlain(asked.moduleArgs) => i = 1
    PROVE  HasItsArgs(i)
<1>1. /\ asked \in Requests /\ current \in EnvType /\ runner \in RunnerType
      /\ defaults \in DefaultsType /\ runner # None /\ current # None
  BY NoneAssumption DEF RequestInv, TypeOK
<1>2. PICK args \in ArgsType : args = asked.moduleArgs
  BY <1>1, RequestTyped
<1>3. PICK list \in ListsType \cup {None} : list = DefaultList(asked)
  BY <1>1, RequestTyped DEF DefaultList
<1>4. PICK e \in EnvType : e = runner.made
  BY <1>1 DEF RunnerType
<1>5. e.env = current.env /\ e.module = current.module /\ e.moduleArgs = current.moduleArgs
  BY <1>1, <1>4 DEF RequestInv, IInv, RunnerCompared, EnvCompareParams
<1>6. e.env # "existing-env" /\ Loadable(e)
      /\ runner.loads = IF e.module = None THEN <<>>
                        ELSE LoadModules(e.module, ServerArgs(e))
  BY <1>1, <1>4, <1>5 DEF RequestInv, LoadsMade
<1>7. e.module # None
  BY <1>6
<1>8. PICK modules \in Seq(Modules) : modules = e.module
  BY <1>7 DEF EnvType, ModuleType
<1>9. runner.loads = LoadModules(e.module, ServerArgs(e)) /\ DOMAIN runner.loads = DOMAIN modules
  BY <1>6, <1>7, <1>8 DEF LoadModules
<1>10. runner.loads[i].words = FlattenSeq(At(e.moduleArgs, i))
  BY <1>6, <1>7, <1>8, <1>9, WordsLoaded
<1>11. PICK fixed : fixed = Fixing(modules, args, list)
  OBVIOUS
<1>12. Fixed(asked) = fixed
  <2>1. modules = FixModules(asked.module, defaults.module)
    BY <1>5, <1>8 DEF RequestInv, AskedFor, Resolved
  <2> QED
    BY <1>2, <1>3, <1>11, <2>1, Zenon DEF Fixed, Fixing, DefaultList
<1>13. fixed.how = "returned" /\ e.moduleArgs = fixed.args
  BY <1>5, <1>12 DEF RequestInv, AskedFor, Resolved
<1>14. modules \in ModuleType
  BY <1>8 DEF ModuleType
<1>15. PICK given : given = Given(args)
  OBVIOUS
<1>16. args.shape # "mixed"
  BY <1>11, <1>13, <1>14, FixingIs
<1>17. given \in ListsType \cup {None}
  BY <1>15, <1>16, StructuredType DEF Given
<1>18. i \in 1..Len(modules) /\ Len(modules) \in Nat /\ Len(runner.loads) = Len(modules)
  <2>1. i \in 1..Len(modules) /\ Len(modules) \in Nat /\ DOMAIN modules = 1..Len(modules)
    BY <1>9, LenProperties
  <2>2. runner.loads \in Seq(LoadType)
    BY <1>1 DEF RunnerType
  <2>3. Len(runner.loads) = Len(modules)
    BY <1>9, <2>1, <2>2, LenProperties
  <2> QED
    BY <2>1, <2>3
<1>19. /\ GivenTo(args, i) \in Seq(Seq(Words))
       /\ Truthy(given) => Len(given) = GivenLists(args) /\ GivenLists(args) > 0
  BY <1>15, <1>16, <1>18, GivenAt
<1>20. ASSUME Truthy(given), Truthy(list),
              i \in (Len(given) + 1)..(Len(given) + Missing(modules, given, list))
       PROVE  Missing(modules, given, list) <= 1
  <2>1. given \in ListsType /\ list \in ListsType
    BY <1>17, <1>20 DEF Truthy
  <2>2. PICK m \in Nat, g \in Nat, d \in Nat :
            m = Len(modules) /\ g = Len(given) /\ d = Len(list)
    BY <1>18, <2>1, AtMany
  <2>3. PICK n \in Int : n = Missing(modules, given, list)
    BY <1>14, <2>1, MissingType
  <2>4. g > 0 /\ i > g /\ i <= m
    BY <1>18, <1>19, <1>20, <2>2, <2>3
  <2>5. n = m - d
    BY <1>8, <1>20, <2>2, <2>3, <2>4, NoneAssumption, <1>7 DEF Missing
  <2>6. list = defaults.moduleArgs /\ ~asked.noDefaultModuleArgs
    BY <1>3, <1>20 DEF DefaultList, Truthy
  <2>7. ~(m - d > 1 /\ i \in (g + 1)..(g + (m - d)))
    BY <1>2, <1>18, <1>19, <1>20, <2>2, <2>6 DEF SharesAList
  <2>8. i \in (g + 1)..(g + n)
    BY <1>20, <2>2, <2>3
  <2> QED
    BY <2>2, <2>3, <2>5, <2>7, <2>8
<1>21. HasArgs(FlattenSeq(At(fixed.args, i)), GivenTo(args, i),
               Named(args, GivenTo(args, i)), At(list, i))
  <2>1. i \in Nat \ {0} /\ (IsPlain(args) => i = 1)
    BY <1>2, <1>18
  <2> QED
    BY <1>11, <1>13, <1>14, <1>15, <1>20, <2>1, ArgsFixed
<1>22. DefaultOf(asked, i) = At(list, i)
  <2>1. CASE asked.noDefaultModuleArgs
    BY <1>3, <2>1, AtNone DEF DefaultOf, DefaultList
  <2>2. CASE ~asked.noDefaultModuleArgs
    <3>1. list = defaults.moduleArgs
      BY <1>3, <2>2 DEF DefaultList
    <3> QED
      BY <2>2, <3>1, Zenon DEF DefaultOf, At
  <2> QED
    BY <2>1, <2>2
<1> QED
  BY <1>2, <1>10, <1>13, <1>21, <1>22, Zenon DEF HasItsArgs, HasArgs, Named

\* Whatever the shape of what a test gives, its module arguments and its
\* defaults reach the modules they are for.
THEOREM ArgsArrive == Spec => []ArgsReachModules
<1>1. RequestInv => ArgsReachModules
  <2> SUFFICES ASSUME RequestInv, asked # None, current.env # "existing-env",
                      NEW i \in DOMAIN runner.loads,
                      ~SharesAList(i), IsPlain(asked.moduleArgs) => i = 1
               PROVE  HasItsArgs(i)
    BY DEF ArgsReachModules
  <2> QED
    BY RequestLoads
<1> QED
  BY <1>1, RequestInvariant, PTL
================================================================================
