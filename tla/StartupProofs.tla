----------------------------- MODULE StartupProofs -----------------------------
(***************************************************************************)
(* Theorems about Startup, for every set of directories, files, edits and  *)
(* commands, and any number of commands and edits.                         *)
(*                                                                         *)
(* The first part is about Configuration and the search for files, in two  *)
(* states of the files of which one comes from the other by one edit.  The *)
(* second part carries along what a command has in hand: PlaceInv and      *)
(* CleanInv say what belongs to its place, ReadInv and ResolvedInv that it *)
(* is what the files of one moment amount to, if they were edited at most  *)
(* once since it began, HandInv what follows if they were not edited.      *)
(* HeardInv says the same of the answers that were given; the theorems     *)
(* follow from it.                                                         *)
(***************************************************************************)
EXTENDS Startup, WellFoundedInduction, TLAPS

-----------------------------------------------------------------------------
(* Layers. *)

LEMMA OverDomain ==
  ASSUME NEW f, NEW g
  PROVE  DOMAIN Over(f, g) = (DOMAIN f) \cup (DOMAIN g)
BY DEF Over

LEMMA OverUpper ==
  ASSUME NEW f, NEW g, NEW x \in DOMAIN f
  PROVE  Over(f, g)[x] = f[x]
BY DEF Over

LEMMA OverLower ==
  ASSUME NEW f, NEW g, NEW x \in DOMAIN g, x \notin DOMAIN f
  PROVE  Over(f, g)[x] = g[x]
BY DEF Over

\* A layer with nothing in it covers nothing.
LEMMA OverNothing ==
  ASSUME NEW g, NEW S, g \in [DOMAIN g -> S]
  PROVE  Over(<<>>, g) = g
<1>1. DOMAIN <<>> = {}
  OBVIOUS
<1>2. Over(<<>>, g) = [k \in DOMAIN g |-> g[k]]
  BY <1>1 DEF Over
<1>3. g = [k \in DOMAIN g |-> g[k]]
  OBVIOUS
<1> QED BY <1>2, <1>3

\* Two layers say the same of a name.
Agree(f, g, x) ==
  /\ x \in DOMAIN f <=> x \in DOMAIN g
  /\ x \in DOMAIN f => f[x] = g[x]

\* A least element is the one that is chosen.
LEMMA ChosenLeast ==
  ASSUME NEW S, S \subseteq Nat, NEW n \in S, \A j \in S : n <= j
  PROVE  (CHOOSE i \in S : \A j \in S : i <= j) = n
<1> DEFINE P(i) == i \in S /\ \A j \in S : i <= j
<1>1. P(n)
  OBVIOUS
<1>2. ASSUME NEW i, P(i) PROVE i = n
  <2>1. i \in Nat /\ n \in Nat /\ i <= n /\ n <= i
    BY <1>2
  <2> QED BY <2>1
<1>3. (CHOOSE i : P(i)) = n
  <2> HIDE DEF P
  <2> QED BY <1>1, <1>2
<1>4. (CHOOSE i : P(i)) = CHOOSE i \in S : \A j \in S : i <= j
  OBVIOUS
<1> QED BY <1>3, <1>4

\* FirstNonEmpty for any empty value: that it is a text does not matter.
FirstNot(empty, texts) ==
  LET hits == {i \in DOMAIN texts : texts[i] # empty}
  IN  IF hits = {} THEN empty ELSE texts[CHOOSE i \in hits : \A j \in hits : i <= j]

LEMMA FirstIsNot == ASSUME NEW texts PROVE FirstNonEmpty(texts) = FirstNot("", texts)
BY Zenon DEF FirstNonEmpty, FirstNot

LEMMA FirstOf ==
  ASSUME NEW empty, NEW n \in Nat, NEW texts, DOMAIN texts = 1 .. n,
         NEW i \in 1 .. n, texts[i] # empty, \A j \in 1 .. n : j < i => texts[j] = empty
  PROVE  FirstNot(empty, texts) = texts[i]
<1> DEFINE hits == {j \in DOMAIN texts : texts[j] # empty}
<1>1. i \in hits /\ \A j \in hits : i <= j
  OBVIOUS
<1>2. hits \subseteq Nat
  OBVIOUS
<1>3. (CHOOSE j \in hits : \A k \in hits : j <= k) = i
  <2> HIDE DEF hits
  <2> QED BY <1>1, <1>2, ChosenLeast
<1>4. hits # {}
  BY <1>1
<1> QED BY <1>3, <1>4 DEF FirstNot

LEMMA FirstFirst ==
  ASSUME NEW empty, NEW n \in Nat \ {0}, NEW texts, DOMAIN texts = 1 .. n, texts[1] # empty
  PROVE  FirstNot(empty, texts) = texts[1]
<1>1. n \in Nat /\ 1 \in 1 .. n /\ \A j \in 1 .. n : j < 1 => texts[j] = empty
  OBVIOUS
<1> QED BY <1>1, FirstOf

\* Two texts and three, as Resolve makes lists of them.
LEMMA Lists ==
  /\ 2 \in Nat \ {0} /\ 3 \in Nat \ {0}
  /\ \A a, b : \E texts : texts = <<a, b>> /\ DOMAIN texts = 1 .. 2 /\ texts[1] = a
  /\ \A a, b, c : \E texts : texts = <<a, b, c>> /\ DOMAIN texts = 1 .. 3 /\ texts[1] = a
<1>1. 2 \in Nat \ {0} /\ 3 \in Nat \ {0}
  OBVIOUS
<1>2. ASSUME NEW a, NEW b
      PROVE  \E texts : texts = <<a, b>> /\ DOMAIN texts = 1 .. 2 /\ texts[1] = a
  <2> WITNESS <<a, b>>
  <2> QED OBVIOUS
<1>3. ASSUME NEW a, NEW b, NEW c
      PROVE  \E texts : texts = <<a, b, c>> /\ DOMAIN texts = 1 .. 3 /\ texts[1] = a
  <2> WITNESS <<a, b, c>>
  <2> QED OBVIOUS
<1> QED BY <1>1, <1>2, <1>3, Zenon

\* What is asked for goes before mode and setting.
LEMMA AskedFirst ==
  ASSUME NEW a, a # ""
  PROVE  /\ \A b : FirstNonEmpty(<<a, b>>) = a
         /\ \A b, c : FirstNonEmpty(<<a, b, c>>) = a
<1>1. ASSUME NEW texts, NEW n \in Nat \ {0}, DOMAIN texts = 1 .. n, texts[1] = a
      PROVE  FirstNonEmpty(texts) = a
  BY <1>1, FirstFirst, FirstIsNot, Zenon
<1>2. ASSUME NEW b PROVE FirstNonEmpty(<<a, b>>) = a
  <2>1. PICK texts : texts = <<a, b>> /\ DOMAIN texts = 1 .. 2 /\ texts[1] = a
    BY Lists, Zenon
  <2>2. FirstNonEmpty(texts) = a
    BY <1>1, <2>1, Lists, Zenon
  <2> QED BY <2>1, <2>2, Zenon
<1>3. ASSUME NEW b, NEW c PROVE FirstNonEmpty(<<a, b, c>>) = a
  <2>1. PICK texts : texts = <<a, b, c>> /\ DOMAIN texts = 1 .. 3 /\ texts[1] = a
    BY Lists, Zenon
  <2>2. FirstNonEmpty(texts) = a
    BY <1>1, <2>1, Lists, Zenon
  <2> QED BY <2>1, <2>2, Zenon
<1> QED BY <1>2, <1>3, Zenon

-----------------------------------------------------------------------------
(* Looking for a file. *)

\* There is something to read, or to fail on.
Hit(dir, tree, i) == tree[Up[dir][i]].kind \notin {"absent", "dir"}

Less == {ss \in Nat \X Nat : ss[1] < ss[2]}

LEMMA LessWellFounded == IsWellFoundedOn(Less, Nat)
BY NatLessThanWellFounded DEF OpToRel, Less

LEMMA UpType ==
  ASSUME NEW dir \in Dirs
  PROVE  /\ DOMAIN Up[dir] \subseteq Nat \ {0}
         /\ \A i \in DOMAIN Up[dir] : Up[dir][i] \in Dirs
         /\ NoDir \notin Dirs
         /\ HomeDir \in Dirs
<1>1. Up[dir] \in Seq(Dirs)
  BY UpAssumption DEF Dirs
<1>2. NoDir \notin Dirs /\ HomeDir \in Dirs
  BY UpAssumption DEF Dirs, NoDir
<1>3. \A i \in DOMAIN Up[dir] : i \in Nat \ {0} /\ Up[dir][i] \in Dirs
  BY <1>1
<1> QED BY <1>2, <1>3

\* The nearest directory with a hit is found.
LEMMA FoundNearest ==
  ASSUME NEW dir \in Dirs, NEW tree,
         NEW i \in DOMAIN Up[dir], Hit(dir, tree, i),
         \A j \in DOMAIN Up[dir] : j < i => ~Hit(dir, tree, j)
  PROVE  FindUpward(dir, tree) = Up[dir][i]
<1> DEFINE hits == {j \in DOMAIN Up[dir] : tree[Up[dir][j]].kind \notin {"absent", "dir"}}
           P(j) == \A k \in hits : j <= k
<1>1. i \in hits /\ P(i)
  BY UpType DEF Hit
<1>2. \A j \in hits : P(j) => j = i
  BY <1>1, UpType
<1>3. (CHOOSE j \in hits : P(j)) = i
  BY <1>1, <1>2
<1>4. FindUpward(dir, tree) = Up[dir][CHOOSE j \in hits : P(j)]
  BY <1>1 DEF FindUpward
<1> QED BY <1>3, <1>4

LEMMA FoundNothing ==
  ASSUME NEW dir \in Dirs, NEW tree,
         \A j \in DOMAIN Up[dir] : ~Hit(dir, tree, j)
  PROVE  FindUpward(dir, tree) = NoDir
BY DEF FindUpward, Hit

\* There are no other ways.
LEMMA FoundKinds ==
  ASSUME NEW dir \in Dirs, NEW tree
  PROVE  \/ /\ FindUpward(dir, tree) = NoDir
            /\ \A j \in DOMAIN Up[dir] : ~Hit(dir, tree, j)
         \/ \E i \in DOMAIN Up[dir] :
               /\ FindUpward(dir, tree) = Up[dir][i]
               /\ Hit(dir, tree, i)
               /\ \A j \in DOMAIN Up[dir] : j < i => ~Hit(dir, tree, j)
<1>1. CASE \A j \in DOMAIN Up[dir] : ~Hit(dir, tree, j)
  BY <1>1, FoundNothing
<1>2. CASE \E j \in DOMAIN Up[dir] : Hit(dir, tree, j)
  <2> DEFINE hits == {j \in DOMAIN Up[dir] : Hit(dir, tree, j)}
  <2>1. hits \subseteq Nat /\ hits # {}
    BY <1>2, UpType
  <2>2. PICK i \in hits : \A j \in hits : ~(<<j, i>> \in Less)
    BY <2>1, LessWellFounded, WFMin, Zenon
  <2>3. \A j \in DOMAIN Up[dir] : j < i => ~Hit(dir, tree, j)
    BY <2>1, <2>2, UpType DEF Less
  <2>4. FindUpward(dir, tree) = Up[dir][i]
    BY <2>2, <2>3, FoundNearest
  <2> QED BY <2>2, <2>3, <2>4
<1> QED BY <1>1, <1>2

LEMMA FoundType ==
  ASSUME NEW dir \in Dirs, NEW tree
  PROVE  /\ FindUpward(dir, tree) \in Dirs \cup {NoDir}
         /\ FindUpward(dir, tree) # NoDir =>
               tree[FindUpward(dir, tree)].kind \notin {"absent", "dir"}
BY FoundKinds, UpType DEF Hit

-----------------------------------------------------------------------------
(* Files before and after one edit. *)

SameBut(f, g, e) == \A d \in Dirs \ {e} : f[d] = g[d]

\* What is found before an edit and can be read after it is either found after it too,
\* or has not been edited.
LEMMA EditedSearch ==
  ASSUME NEW dir \in Dirs, NEW f, NEW g, NEW e \in Dirs, SameBut(f, g, e),
         FindUpward(dir, f) # NoDir,
         g[FindUpward(dir, f)].kind \notin {"absent", "dir"}
  PROVE  LET d == FindUpward(dir, f)
         IN  \/ d = e /\ FindUpward(dir, g) = d
             \/ d # e /\ g[d] = f[d]
<1>1. PICK i \in DOMAIN Up[dir] :
         /\ FindUpward(dir, f) = Up[dir][i]
         /\ Hit(dir, f, i)
         /\ \A j \in DOMAIN Up[dir] : j < i => ~Hit(dir, f, j)
  BY FoundKinds
<1>2. CASE Up[dir][i] = e
  <2>1. \A j \in DOMAIN Up[dir] : j < i => ~Hit(dir, g, j)
    <3> SUFFICES ASSUME NEW j \in DOMAIN Up[dir], j < i PROVE ~Hit(dir, g, j)
      OBVIOUS
    <3>1. Up[dir][j] # e
      BY <1>1, <1>2 DEF Hit
    <3>2. g[Up[dir][j]] = f[Up[dir][j]]
      BY <3>1, UpType DEF SameBut
    <3> QED BY <1>1, <3>2 DEF Hit
  <2>2. Hit(dir, g, i)
    BY <1>1 DEF Hit
  <2>3. FindUpward(dir, g) = Up[dir][i]
    BY <2>1, <2>2, FoundNearest
  <2> QED BY <1>1, <1>2, <2>3
<1>3. CASE Up[dir][i] # e
  BY <1>1, <1>3, UpType DEF SameBut
<1> QED BY <1>2, <1>3

\* So it is with the config file: it is read as it was when it was found, or would be
\* found again.
LEMMA EditedConfig ==
  ASSUME NEW explicit \in Dirs \cup {NoDir}, NEW anchor \in Dirs, NEW f, NEW g,
         NEW e \in Dirs, SameBut(f, g, e),
         DiscoverConfigPath(explicit, anchor, f).load # NoDir,
         g[DiscoverConfigPath(explicit, anchor, f).load].kind = "config"
  PROVE  LET path == DiscoverConfigPath(explicit, anchor, f)
         IN  \/ DiscoverConfigPath(explicit, anchor, g) = path
             \/ g[path.load] = f[path.load]
<1> DEFINE first == IF explicit # NoDir THEN explicit ELSE HomeDir
           near  == FindUpward(anchor, f)
<1>0. first \in Dirs
  BY UpType
<1>1. CASE f[first].kind # "absent"
  <2>1. DiscoverConfigPath(explicit, anchor, f) = Discovered(first, first)
    BY <1>1 DEF DiscoverConfigPath
  <2>2. DiscoverConfigPath(explicit, anchor, f).load = first
    BY <2>1 DEF Discovered
  <2>3. CASE first = e
    <3>1. g[first].kind # "absent"
      BY <2>2
    <3>2. DiscoverConfigPath(explicit, anchor, g) = Discovered(first, first)
      BY <3>1 DEF DiscoverConfigPath
    <3> QED BY <2>1, <3>2
  <2>4. CASE first # e
    BY <1>0, <2>2, <2>4 DEF SameBut
  <2> QED BY <2>3, <2>4
<1>2. CASE f[first].kind = "absent" /\ explicit # NoDir
  <2>1. DiscoverConfigPath(explicit, anchor, f) = Discovered(NoDir, explicit)
    BY <1>2 DEF DiscoverConfigPath
  <2> QED BY <2>1 DEF Discovered
<1>3. CASE f[first].kind = "absent" /\ explicit = NoDir
  <2>1. DiscoverConfigPath(explicit, anchor, f) = Discovered(near, near) /\ first = HomeDir
    BY <1>3 DEF DiscoverConfigPath
  <2>2. DiscoverConfigPath(explicit, anchor, f).load = near
    BY <2>1 DEF Discovered
  <2>3. near # NoDir /\ g[near].kind = "config"
    BY <2>2
  <2>4. g[near].kind \notin {"absent", "dir"}
    BY <2>3
  <2>5. CASE near = e /\ FindUpward(anchor, g) = near
    <3>1. f[near].kind # "absent"
      BY <2>3, FoundType
    <3>2. HomeDir # e /\ g[HomeDir].kind = "absent"
      BY <1>3, <2>1, <2>5, <3>1, UpType DEF SameBut
    <3>3. DiscoverConfigPath(explicit, anchor, g) = Discovered(near, near)
      BY <1>3, <2>1, <2>5, <3>2 DEF DiscoverConfigPath
    <3> QED BY <2>1, <3>3
  <2>6. CASE g[near] = f[near]
    BY <2>2, <2>6
  <2> QED BY <2>3, <2>4, <2>5, <2>6, EditedSearch
<1> QED BY <1>1, <1>2, <1>3

\* What AliasesAt takes from a directory.
AliasesIn(tree, d) ==
  IF d = NoDir \/ tree[d].kind = "absent" THEN <<>> ELSE tree[d].aliases

Readable(tree, near) ==
  /\ near # NoDir => tree[near].kind = "models"
  /\ tree[HomeDir].kind \in {"absent", "models"}

Known(tree, dir) ==
  Over(AliasesIn(tree, HomeDir), AliasesIn(tree, FindUpward(dir, tree)))

LEMMA AgreeOver ==
  ASSUME NEW x, NEW f, NEW g, NEW h
  PROVE  /\ Agree(f, f, x)
         /\ Agree(Over(<<>>, f), f, x) /\ Agree(f, Over(<<>>, f), x)
         /\ Agree(Over(f, <<>>), f, x) /\ Agree(Over(f, f), f, x)
         /\ Agree(Over(f, <<>>), Over(f, f), x)
         /\ x \in DOMAIN f => Agree(Over(f, g), Over(f, h), x)
         /\ x \notin DOMAIN f => Agree(Over(f, g), g, x) /\ Agree(Over(f, g), Over(<<>>, g), x)
         /\ x \notin DOMAIN f => Agree(Over(f, g), Over(g, g), x)
<1>1. DOMAIN <<>> = {}
  OBVIOUS
<1>2. Agree(f, f, x)
  BY DEF Agree
<1>3. \A u : Agree(Over(<<>>, u), u, x) /\ Agree(u, Over(<<>>, u), x)
  <2> SUFFICES ASSUME NEW u PROVE Agree(Over(<<>>, u), u, x) /\ Agree(u, Over(<<>>, u), x)
    OBVIOUS
  <2>1. DOMAIN Over(<<>>, u) = DOMAIN u
    <3>1. DOMAIN Over(<<>>, u) = (DOMAIN <<>>) \cup (DOMAIN u)
      BY OverDomain, Zenon
    <3> QED BY <1>1, <3>1
  <2>2. x \in DOMAIN u => Over(<<>>, u)[x] = u[x]
    BY <1>1, OverLower
  <2> QED BY <2>1, <2>2 DEF Agree
<1>4. \A u : DOMAIN u \subseteq DOMAIN f => Agree(Over(f, u), f, x)
  <2> SUFFICES ASSUME NEW u, DOMAIN u \subseteq DOMAIN f PROVE Agree(Over(f, u), f, x)
    OBVIOUS
  <2>1. DOMAIN Over(f, u) = DOMAIN f
    BY OverDomain
  <2> QED BY <2>1, OverUpper DEF Agree
<1>5. Agree(Over(f, <<>>), f, x) /\ Agree(Over(f, f), f, x)
  BY <1>1, <1>4
<1>6. \A u : x \in DOMAIN f => x \in DOMAIN Over(f, u) /\ Over(f, u)[x] = f[x]
  BY OverDomain, OverUpper
<1>7. \A u : x \notin DOMAIN f => Agree(Over(f, u), u, x)
  <2> SUFFICES ASSUME NEW u, x \notin DOMAIN f PROVE Agree(Over(f, u), u, x)
    OBVIOUS
  <2>0. DOMAIN Over(f, u) = (DOMAIN f) \cup (DOMAIN u)
    BY OverDomain, Zenon
  <2>1. x \in DOMAIN Over(f, u) <=> x \in DOMAIN u
    BY <2>0
  <2>2. x \in DOMAIN u => Over(f, u)[x] = u[x]
    BY OverLower
  <2> QED BY <2>1, <2>2 DEF Agree
<1>8. Agree(Over(f, <<>>), Over(f, f), x)
  BY <1>5 DEF Agree
<1>9. x \in DOMAIN f => Agree(Over(f, g), Over(f, h), x)
  BY <1>6 DEF Agree
<1>10. x \notin DOMAIN f => Agree(Over(f, g), Over(<<>>, g), x)
  BY <1>3, <1>7 DEF Agree
<1>11. Agree(g, Over(g, g), x)
  <2>1. DOMAIN Over(g, g) = DOMAIN g
    BY OverDomain
  <2> QED BY <2>1, OverUpper DEF Agree
<1>12. x \notin DOMAIN f => Agree(Over(f, g), Over(g, g), x)
  BY <1>7, <1>11 DEF Agree
<1> QED BY <1>2, <1>3, <1>5, <1>7, <1>8, <1>9, <1>10, <1>12

LEMMA AgreeTrans ==
  ASSUME NEW x, NEW f, NEW g, NEW h, Agree(f, g, x), Agree(g, h, x)
  PROVE  Agree(f, h, x)
BY DEF Agree

\* The file at home is read after the nearest one, which may be the same one: if an
\* edit comes between, every single alias is still as it was before or is after it.
LEMMA EditedHome ==
  ASSUME NEW dir \in Dirs, NEW f, NEW g, NEW e \in Dirs, SameBut(f, g, e),
         f[e].kind = "dir" => g[e].kind \in {"absent", "dir"},
         FindUpward(dir, f) # NoDir => f[FindUpward(dir, f)].kind = "models",
         g[HomeDir].kind \in {"absent", "models"},
         NEW x
  PROVE  LET read == Over(AliasesIn(g, HomeDir), AliasesIn(f, FindUpward(dir, f)))
         IN  \/ Readable(f, FindUpward(dir, f)) /\ Agree(read, Known(f, dir), x)
             \/ Readable(g, FindUpward(dir, g)) /\ Agree(read, Known(g, dir), x)
<1> DEFINE near == FindUpward(dir, f)
           now  == FindUpward(dir, g)
           home == AliasesIn(g, HomeDir)
           read == Over(home, AliasesIn(f, near))
<1>h. HomeDir \in Dirs /\ HomeDir # NoDir
  BY UpType
<1>n. AliasesIn(f, NoDir) = <<>> /\ AliasesIn(g, NoDir) = <<>>
  BY DEF AliasesIn
<1> HIDE DEF near, now, home, read
<1> SUFFICES \/ Readable(f, near) /\ Agree(read, Known(f, dir), x)
             \/ Readable(g, now) /\ Agree(read, Known(g, dir), x)
  BY DEF near, now, home, read
<1>f. Known(f, dir) = Over(AliasesIn(f, HomeDir), AliasesIn(f, near))
  BY DEF Known, near
<1>g. Known(g, dir) = Over(home, AliasesIn(g, now))
  BY DEF Known, now, home
<1>r. read = Over(home, AliasesIn(f, near)) /\ home = AliasesIn(g, HomeDir)
  BY DEF read, home
<1>k. near # NoDir => f[near].kind = "models"
  BY DEF near
<1>1. CASE e # HomeDir
  <2>1. g[HomeDir] = f[HomeDir]
    BY <1>1, <1>h DEF SameBut
  <2>2. home = AliasesIn(f, HomeDir)
    BY <1>r, <2>1 DEF AliasesIn
  <2>3. Readable(f, near)
    BY <1>k, <2>1 DEF Readable
  <2> QED BY <1>f, <1>r, <2>2, <2>3, AgreeOver
<1>2. CASE e = HomeDir /\ near = HomeDir
  <2>1. f[HomeDir].kind = "models"
    BY <1>2, <1>h, <1>k
  <2>2. Readable(f, near)
    BY <1>2, <2>1 DEF Readable
  <2>3. CASE x \in DOMAIN home
    <3>1. g[HomeDir].kind = "models"
      <4>1. g[HomeDir].kind # "absent"
        BY <1>r, <2>3 DEF AliasesIn
      <4> QED BY <4>1
    <3>2. now = HomeDir
      BY <1>2, <1>h, <3>1, EditedSearch DEF near, now
    <3>3. Readable(g, now)
      BY <3>1, <3>2 DEF Readable
    <3> QED BY <1>g, <1>r, <2>3, <3>3, AgreeOver
  <2>4. CASE x \notin DOMAIN home
    <3>1. Known(f, dir) = Over(AliasesIn(f, near), AliasesIn(f, near))
      BY <1>2, <1>f
    <3>2. Agree(read, Known(f, dir), x)
      BY <1>r, <2>4, <3>1, AgreeOver
    <3> QED BY <2>2, <3>2
  <2> QED BY <2>3, <2>4
<1>3. CASE e = HomeDir /\ near \notin {NoDir, HomeDir}
  <2>1. near \in Dirs /\ f[near].kind = "models"
    BY <1>3, <1>k, FoundType DEF near
  <2>2. g[near] = f[near]
    BY <1>3, <2>1 DEF SameBut
  <2>3. AliasesIn(g, near) = AliasesIn(f, near)
    BY <2>2 DEF AliasesIn
  <2>4. PICK i \in DOMAIN Up[dir] :
           /\ near = Up[dir][i]
           /\ Hit(dir, f, i)
           /\ \A j \in DOMAIN Up[dir] : j < i => ~Hit(dir, f, j)
    BY <1>3, FoundKinds DEF near
  <2>5. \A j \in DOMAIN Up[dir] : j < i /\ Hit(dir, g, j) =>
            Up[dir][j] = HomeDir /\ f[HomeDir].kind \in {"absent", "dir"}
    <3> SUFFICES ASSUME NEW j \in DOMAIN Up[dir], j < i, Hit(dir, g, j)
                 PROVE  Up[dir][j] = HomeDir /\ f[HomeDir].kind \in {"absent", "dir"}
      OBVIOUS
    <3>1. ~Hit(dir, f, j) /\ Up[dir][j] \in Dirs
      BY <2>4, UpType
    <3>2. Up[dir][j] = HomeDir
      BY <1>3, <3>1 DEF Hit, SameBut
    <3> QED BY <3>1, <3>2 DEF Hit
  <2>6. CASE \A j \in DOMAIN Up[dir] : j < i => ~Hit(dir, g, j)
    <3>1. Hit(dir, g, i)
      BY <2>2, <2>4 DEF Hit
    <3>2. now = near
      BY <2>4, <2>6, <3>1, FoundNearest DEF now
    <3>3. Readable(g, now)
      BY <2>1, <2>2, <3>2 DEF Readable
    <3> QED BY <1>g, <1>r, <2>3, <3>2, <3>3, AgreeOver
  <2>7. CASE \E j \in DOMAIN Up[dir] : j < i /\ Hit(dir, g, j)
    <3>1. PICK j \in DOMAIN Up[dir] : j < i /\ Hit(dir, g, j)
      BY <2>7
    <3>2. PICK k \in DOMAIN Up[dir] :
             /\ now = Up[dir][k]
             /\ Hit(dir, g, k)
             /\ \A l \in DOMAIN Up[dir] : l < k => ~Hit(dir, g, l)
      BY <3>1, FoundKinds DEF now
    <3>3. k < i
      BY <3>1, <3>2, UpType
    <3>4. now = HomeDir /\ f[HomeDir].kind \in {"absent", "dir"}
      BY <2>5, <3>2, <3>3
    <3>5. g[HomeDir].kind = "models"
      BY <3>2, <3>4 DEF Hit
    <3>6. f[HomeDir].kind = "absent"
      BY <1>3, <3>4, <3>5
    <3>7. Readable(g, now) /\ Readable(f, near)
      BY <1>k, <3>4, <3>5, <3>6 DEF Readable
    <3>8. AliasesIn(f, HomeDir) = <<>>
      BY <3>6 DEF AliasesIn
    <3>9. CASE x \in DOMAIN home
      BY <1>g, <1>r, <3>7, <3>9, AgreeOver
    <3>10. CASE x \notin DOMAIN home
      BY <1>f, <1>r, <3>7, <3>8, <3>10, AgreeOver
    <3> QED BY <3>9, <3>10
  <2> QED BY <2>6, <2>7
<1>4. CASE e = HomeDir /\ near = NoDir
  <2>1. \A j \in DOMAIN Up[dir] : ~Hit(dir, f, j)
    <3>1. \A j \in DOMAIN Up[dir] : Up[dir][j] # NoDir
      BY UpType
    <3> QED BY <1>4, <3>1, FoundKinds DEF near
  <2>2. now \in {NoDir, HomeDir} /\ (now = HomeDir => g[HomeDir].kind = "models")
    <3>1. CASE now = NoDir
      BY <3>1, <1>h
    <3>2. CASE now # NoDir
      <4>1. PICK k \in DOMAIN Up[dir] : now = Up[dir][k] /\ Hit(dir, g, k)
        BY <3>2, FoundKinds DEF now
      <4>2. Up[dir][k] = HomeDir
        BY <1>4, <2>1, <4>1, UpType DEF Hit, SameBut
      <4> QED BY <4>1, <4>2 DEF Hit
    <3> QED BY <3>1, <3>2
  <2>3. Readable(g, now)
    BY <2>2 DEF Readable
  <2>4. read = Over(home, <<>>)
    BY <1>4, <1>n, <1>r
  <2>5. Known(g, dir) \in {Over(home, <<>>), Over(home, home)}
    BY <1>g, <1>n, <1>r, <2>2
  <2> QED BY <2>3, <2>4, <2>5, AgreeOver
<1> QED BY <1>1, <1>2, <1>3, <1>4

\* A mode depends on one alias only, that of the model it names.
LEMMA ResolveAgrees ==
  ASSUME NEW config, NEW req, NEW f, NEW g, Agree(f, g, Model(config, req))
  PROVE  /\ ResolveCode(config, f, req) = ResolveCode(config, g, req)
         /\ Resolve(config, f, req) = Resolve(config, g, req)
<1>1. \A flag : ModelCode(f, Model(config, req), flag) = ModelCode(g, Model(config, req), flag)
  BY DEF ModelCode, Agree
<1>2. ResolveModel(f, Model(config, req)) = ResolveModel(g, Model(config, req))
  BY DEF ResolveModel, Agree
<1>3. ResolveCode(config, f, req) = ResolveCode(config, g, req)
  BY <1>1 DEF ResolveCode
<1>4. Resolve(config, f, req) = Resolve(config, g, req)
  BY <1>2 DEF Resolve
<1> QED BY <1>3, <1>4

-----------------------------------------------------------------------------
(***************************************************************************)
(* What a state of Startup is like.  Moments are numbered by the edits     *)
(* before them; FilesAt(k) are the files at moment k.                      *)
(***************************************************************************)
OneEdit(a, b) ==
  \E e \in Dirs :
     \/ /\ a.models = b.models
        /\ SameBut(a.configs, b.configs, e)
     \/ /\ a.configs = b.configs
        /\ SameBut(a.models, b.models, e)
        /\ a.models[e].kind = "dir" => b.models[e].kind \in {"absent", "dir"}

HistoryInv ==
  /\ past \in Seq(Snapshots)
  /\ Now \in Snapshots
  /\ \A k \in 0 .. edits - 1 : OneEdit(FilesAt(k), FilesAt(k + 1))

IsList(s) == \E S : s \in Seq(S)

\* Which commands get to which places.
PlaceInv ==
  /\ pc = "preflight" => cmd.kind = "run"
  /\ pc \in {"project skill", "global skill", "inline skill"} =>
        cmd.kind \in {"run", "skill"} /\ (cmd.kind = "run" => cmd.skill # "")
  /\ pc = "list others" => cmd.kind = "skills"
  /\ pc = "show" => cmd.kind \in {"mode", "skill", "skills"}

\* A configuration that can be worked with.
ConfigOK(config) ==
  /\ DOMAIN config.settings = Settings
  /\ config.settings["skills_dir"] \in Dirs \cup {NoDir}
  /\ \A m \in DOMAIN config.modes : DOMAIN config.modes[m] = DOMAIN NoMode

TypeInv ==
  /\ TypeOK
  /\ HistoryInv
  /\ PlaceInv
  /\ env \in Environments
  /\ since \in 0 .. edits
  /\ ConfigOK(cfg)
  /\ pc \in {"read models", "read home models"} => modelFile # NoDir
  /\ pc # "idle" => Len(log) < MaxCommands
  /\ IsList(log)
  /\ \A i \in DOMAIN log : /\ log[i].cmd \in Commands
                           /\ log[i].since \in Nat
                           /\ log[i].until \in log[i].since .. edits

LEMMA DefaultModesOK ==
  \A m \in DOMAIN DefaultConfig.modes : DOMAIN DefaultConfig.modes[m] = DOMAIN NoMode
<1>1. \A m : DOMAIN CopyTools(m) = DOMAIN m
  BY DEF CopyTools
<1>2. \A t, c, s, r : DOMAIN ShippedMode(t, c, s, r) = DOMAIN NoMode
  BY DEF ShippedMode
<1>3. \A m \in DOMAIN ShippedModes : DOMAIN ShippedModes[m] = DOMAIN NoMode
  <2>1. DOMAIN ShippedModes = {"text", "tool", "commander"}
    BY DEF ShippedModes
  <2>2. /\ ShippedModes["text"] = ShippedMode({}, FALSE, 4, 0)
        /\ ShippedModes["tool"] = ShippedMode({"read_file", "write_file"}, TRUE, 8, 3)
        /\ ShippedModes["commander"] = ShippedMode({"bash"}, TRUE, 12, 3)
    BY DEF ShippedModes
  <2>3. /\ DOMAIN ShippedModes["text"] = DOMAIN NoMode
        /\ DOMAIN ShippedModes["tool"] = DOMAIN NoMode
        /\ DOMAIN ShippedModes["commander"] = DOMAIN NoMode
    BY <1>2, <2>2
  <2> QED BY <2>1, <2>3
<1>4. DefaultConfig.modes = [m \in DOMAIN ShippedModes |-> CopyTools(ShippedModes[m])]
  BY DEF DefaultConfig
<1> QED BY <1>1, <1>3, <1>4

LEMMA HomeIsDir == HomeDir \in Dirs /\ NoDir \notin Dirs
BY UpAssumption DEF Dirs, NoDir

LEMMA DefaultOK == ConfigOK(DefaultConfig)
<1>1. DefaultConfig.settings = DefaultSettings
  BY DEF DefaultConfig
<1>2. DOMAIN DefaultSettings = Settings /\ DefaultSettings.skills_dir = HomeDir
  BY DEF DefaultSettings, Settings, Texts, Counts
<1> QED BY <1>1, <1>2, DefaultModesOK, HomeIsDir DEF ConfigOK

LEMMA MergedOK ==
  ASSUME NEW f \in ConfigFiles, f.kind = "config"
  PROVE  ConfigOK(MergeConfig(DefaultConfig, f))
<1> DEFINE Base(m) == IF m \in DOMAIN DefaultConfig.modes THEN DefaultConfig.modes[m] ELSE NoMode
           config  == MergeConfig(DefaultConfig, f)
           own     == [m \in DOMAIN f.modes |-> MergeModeConfig(Base(m), f.modes[m])]
<1>1. /\ "skills_dir" \in DOMAIN f.set => f.set["skills_dir"] \in Dirs \cup {NoDir}
      /\ \A m \in DOMAIN f.modes : DOMAIN f.modes[m] \subseteq DOMAIN NoMode
  BY ConfigFilesAssumption
<1>2. config.settings = [k \in Settings |-> IF Counted(f, k) THEN f.set[k] ELSE DefaultConfig.settings[k]]
  BY DEF MergeConfig
<1>3. "skills_dir" \in Settings
  BY DEF Settings, Texts
<1>4. DOMAIN config.settings = Settings
  BY <1>2
<1>5. config.settings["skills_dir"] \in Dirs \cup {NoDir}
  BY <1>1, <1>2, <1>3, DefaultOK DEF ConfigOK, Counted
<1>6. config.modes = Over(own, DefaultConfig.modes)
  BY DEF MergeConfig
<1>7. \A m \in DOMAIN own : DOMAIN own[m] = DOMAIN NoMode
  <2> SUFFICES ASSUME NEW m \in DOMAIN f.modes PROVE DOMAIN own[m] = DOMAIN NoMode
    OBVIOUS
  <2>1. DOMAIN Base(m) = DOMAIN NoMode
    BY DefaultModesOK
  <2>2. DOMAIN MergeModeConfig(Base(m), f.modes[m]) = DOMAIN Over(f.modes[m], Base(m))
    BY DEF MergeModeConfig, CopyTools
  <2>3. DOMAIN Over(f.modes[m], Base(m)) = (DOMAIN f.modes[m]) \cup (DOMAIN Base(m))
    BY OverDomain, Zenon
  <2>4. DOMAIN MergeModeConfig(Base(m), f.modes[m]) = DOMAIN NoMode
    BY <1>1, <2>1, <2>2, <2>3, Zenon
  <2> QED BY <2>4
<1> HIDE DEF own, config
<1>8. \A m \in DOMAIN config.modes : DOMAIN config.modes[m] = DOMAIN NoMode
  <2> SUFFICES ASSUME NEW m \in DOMAIN Over(own, DefaultConfig.modes)
               PROVE  DOMAIN Over(own, DefaultConfig.modes)[m] = DOMAIN NoMode
    BY <1>6
  <2>1. CASE m \in DOMAIN own
    BY <1>7, <2>1, OverUpper
  <2>2. CASE m \notin DOMAIN own
    <3> DEFINE base == DefaultConfig.modes
    <3> HIDE DEF base
    <3>0. DOMAIN Over(own, base) = (DOMAIN own) \cup (DOMAIN base)
      BY OverDomain
    <3>1. m \in DOMAIN base
      BY <2>2, <3>0 DEF base
    <3>2. Over(own, base)[m] = base[m]
      BY <2>2, <3>1, OverLower
    <3> QED BY <3>1, <3>2, DefaultModesOK DEF base
  <2> QED BY <2>1, <2>2
<1> QED BY <1>4, <1>5, <1>8 DEF ConfigOK, config

LEMMA AppliedOK ==
  ASSUME NEW e \in Environments, NEW config, ConfigOK(config),
         config \in {DefaultConfig} \cup {MergeConfig(DefaultConfig, f) : f \in ConfigFiles}
  PROVE  ConfigOK(ApplyEnv(config, e))
<1>1. /\ ApplyEnv(config, e).settings = Over(e.set, config.settings)
      /\ ApplyEnv(config, e).modes = config.modes
  BY DEF ApplyEnv, DefaultConfig, MergeConfig
<1>2. DOMAIN Over(e.set, config.settings) = Settings
  <2>1. DOMAIN Over(e.set, config.settings) = (DOMAIN e.set) \cup (DOMAIN config.settings)
    BY OverDomain, Zenon
  <2>2. DOMAIN e.set \subseteq Settings
    BY EnvironmentsAssumption
  <2> QED BY <2>1, <2>2 DEF ConfigOK
<1>3. "skills_dir" \in Settings
  BY DEF Settings, Texts
<1>4. Over(e.set, config.settings)["skills_dir"] \in Dirs \cup {NoDir}
  BY <1>3, EnvironmentsAssumption, OverUpper, OverLower DEF ConfigOK
<1> QED BY <1>1, <1>2, <1>4 DEF ConfigOK

-----------------------------------------------------------------------------
(* The files and their history. *)

Still == UNCHANGED <<configs, models, skills, past, env>>

USE DEF edits

LEMMA StillFiles ==
  ASSUME Still
  PROVE  /\ edits' = edits
         /\ Now' = Now
         /\ \A k : FilesAt(k)' = FilesAt(k)
BY DEF Still, Now, FilesAt

LEMMA LastIsNow ==
  ASSUME HistoryInv
  PROVE  /\ edits \in Nat
         /\ FilesAt(edits) = Now
         /\ \A k \in 0 .. edits : FilesAt(k) \in Snapshots
<1>1. past \in Seq(Snapshots) /\ Now \in Snapshots
  BY DEF HistoryInv
<1>2. Append(past, Now) \in Seq(Snapshots) /\ Len(Append(past, Now)) = Len(past) + 1
  BY <1>1
<1>3. Append(past, Now)[Len(past) + 1] = Now
  BY <1>1
<1>4. \A k \in 0 .. Len(past) : k + 1 \in DOMAIN Append(past, Now)
  BY <1>1, <1>2
<1> QED BY <1>1, <1>2, <1>3, <1>4 DEF FilesAt

LEMMA EditFiles ==
  ASSUME HistoryInv, Edit
  PROVE  /\ edits' = edits + 1
         /\ env' = env
         /\ \A k \in 0 .. edits : FilesAt(k)' = FilesAt(k)
         /\ HistoryInv'
<1>1. past \in Seq(Snapshots) /\ Now \in Snapshots /\ past' = Append(past, Now)
  BY DEF HistoryInv, Edit
<1>2. edits' = edits + 1 /\ past' \in Seq(Snapshots) /\ edits \in Nat
  BY <1>1
<1>3. ASSUME NEW k \in 0 .. edits PROVE FilesAt(k)' = FilesAt(k)
  <2>1. k + 1 \in 1 .. Len(past')
    BY <1>2
  <2>2. Append(past', Now')[k + 1] = past'[k + 1]
    BY <1>2, <2>1
  <2> QED BY <1>1, <2>2 DEF FilesAt
<1>4. configs \in [Dirs -> ConfigFiles] /\ models \in [Dirs -> ModelFiles] /\ skills \in [Dirs -> SkillFolders]
  BY <1>1 DEF Now, Snapshots
<1>5. PICK e \in Edits :
         /\ e.what = "config" => MayReplace(configs[e.dir], e.content)
         /\ e.what = "models" => MayReplace(models[e.dir], e.content)
         /\ configs' = IF e.what = "config" THEN [configs EXCEPT ![e.dir] = e.content] ELSE configs
         /\ models'  = IF e.what = "models" THEN [models EXCEPT ![e.dir] = e.content] ELSE models
         /\ skills'  = IF e.what = "skills" THEN [skills EXCEPT ![e.dir] = e.content] ELSE skills
  BY DEF Edit
<1>6. e.dir \in Dirs /\ e.what \in {"config", "models", "skills"}
  BY EditsAssumption
<1>7. configs' \in [Dirs -> ConfigFiles]
  <2>1. e.what = "config" => e.content \in ConfigFiles
    BY DEF ConfigFiles
  <2> QED BY <1>4, <1>5, <2>1
<1>8. models' \in [Dirs -> ModelFiles]
  <2>1. e.what = "models" => e.content \in ModelFiles
    BY DEF ModelFiles
  <2> QED BY <1>4, <1>5, <2>1
<1>9. skills' \in [Dirs -> SkillFolders]
  <2>1. e.what = "skills" => e.content \in SkillFolders
    BY DEF SkillFolders
  <2> QED BY <1>4, <1>5, <2>1
<1>10. Now' \in Snapshots
  BY <1>7, <1>8, <1>9 DEF Now, Snapshots
<1>11. OneEdit(Now, Now')
  <2>1. SameBut(configs, configs', e.dir) /\ SameBut(models, models', e.dir)
    BY <1>4, <1>5, <1>6 DEF SameBut
  <2>2. CASE e.what = "models"
    <3>1. models'[e.dir] = e.content
      BY <1>4, <1>5, <1>6, <2>2
    <3>2. models[e.dir].kind = "dir" => models'[e.dir].kind \in {"absent", "dir"}
      BY <1>5, <2>2, <3>1 DEF MayReplace
    <3>3. configs' = configs
      BY <1>5, <2>2
    <3> QED BY <1>6, <2>1, <3>2, <3>3 DEF OneEdit, Now
  <2>3. CASE e.what # "models"
    BY <1>5, <1>6, <2>1, <2>3 DEF OneEdit, Now
  <2> QED BY <2>2, <2>3
<1> PICK n \in Nat : n = edits
  BY <1>2
<1>12. FilesAt(n)' = Now
  BY <1>2, <1>3, LastIsNow
<1>13. FilesAt(n + 1)' = Now'
  <2>1. Append(past', Now')[Len(past') + 1] = Now'
    BY <1>2
  <2>2. Len(past') = n + 1
    BY <1>2
  <2> QED BY <2>1, <2>2 DEF FilesAt
<1>14. \A k \in 0 .. edits' - 1 : OneEdit(FilesAt(k)', FilesAt(k + 1)')
  <2> SUFFICES ASSUME NEW k \in 0 .. edits PROVE OneEdit(FilesAt(k)', FilesAt(k + 1)')
    BY <1>2
  <2>1. CASE k = n
    BY <1>11, <1>12, <1>13, <2>1
  <2>2. CASE k \in 0 .. edits - 1
    <3>1. k + 1 \in 0 .. edits
      BY <1>2, <2>2
    <3>2. OneEdit(FilesAt(k), FilesAt(k + 1))
      BY <2>2 DEF HistoryInv
    <3> QED BY <1>3, <3>1, <3>2
  <2> QED BY <1>2, <2>1, <2>2
<1>15. env' = env
  BY DEF Edit
<1>16. HistoryInv'
  BY <1>2, <1>10, <1>14 DEF HistoryInv
<1> QED BY <1>2, <1>3, <1>15, <1>16

HIDE DEF edits

LEMMA StillHistory ==
  ASSUME HistoryInv, Still
  PROVE  HistoryInv'
<1>1. past' = past /\ Now' = Now /\ edits' = edits
  BY StillFiles DEF Still
<1> QED BY <1>1, StillFiles DEF HistoryInv

-----------------------------------------------------------------------------
(* Types. *)

LEMMA TypeParts ==
  ASSUME TypeInv
  PROVE  /\ edits \in Nat /\ since \in Nat /\ since <= edits
         /\ pc # "idle" => cmd \in Commands
         /\ cmd \in Commands => /\ cmd.dir \in Dirs /\ cmd.config \in Dirs \cup {NoDir}
                                /\ cmd.kind \in Kinds
         /\ found.load \in Dirs \cup {NoDir} /\ found.display \in Dirs \cup {NoDir}
         /\ modelFile \in Dirs \cup {NoDir}
         /\ configs \in [Dirs -> ConfigFiles]
         /\ models \in [Dirs -> ModelFiles]
         /\ skills \in [Dirs -> SkillFolders]
<1>1. edits \in Nat /\ since \in Nat /\ since <= edits
  <2>1. HistoryInv /\ since \in 0 .. edits
    BY DEF TypeInv
  <2> QED BY <2>1, LastIsNow
<1>2. pc # "idle" => cmd \in Commands
  BY DEF TypeInv, TypeOK
<1>3. cmd \in Commands => /\ cmd.dir \in Dirs /\ cmd.config \in Dirs \cup {NoDir}
                          /\ cmd.kind \in Kinds
  BY CommandsAssumption
<1>4. /\ found.load \in Dirs \cup {NoDir} /\ found.display \in Dirs \cup {NoDir}
      /\ modelFile \in Dirs \cup {NoDir}
  BY DEF TypeInv, TypeOK
<1>5. configs \in [Dirs -> ConfigFiles] /\ models \in [Dirs -> ModelFiles] /\ skills \in [Dirs -> SkillFolders]
  BY DEF TypeInv, HistoryInv, Now, Snapshots
<1> QED BY <1>1, <1>2, <1>3, <1>4, <1>5

LEMMA NobodyTypes == NoCommand \notin Commands
BY CommandsAssumption DEF NoCommand, Kinds

LEMMA NowhereType ==
  /\ Nowhere.load = NoDir /\ Nowhere.display = NoDir
  /\ NoCommand.kind = "none"
BY DEF Nowhere, Discovered, NoCommand

\* A command that ends leaves a well-typed state.
LEMMA EndTypes ==
  ASSUME TypeInv, pc # "idle", NEW exit, NEW report, EndWith(exit, report)
  PROVE  TypeInv'
<1>1. Still /\ pc' = "idle" /\ cmd' = NoCommand /\ since' = 0 /\ found' = Nowhere
  BY DEF EndWith, Still, files
<1>2. cfg' = DefaultConfig /\ modelFile' = NoDir /\ source' = "" /\ listing' = <<>>
  BY DEF EndWith
<1> DEFINE entry == [cmd |-> cmd, since |-> since, until |-> edits, code |-> exit,
                     mode |-> resolved, source |-> source, listing |-> listing,
                     report |-> report]
<1>3. /\ log' = Append(log, entry)
      /\ entry.cmd = cmd /\ entry.since = since /\ entry.until = edits
  BY DEF EndWith
<1> HIDE DEF entry
<1>4. PICK S : log \in Seq(S)
  BY DEF TypeInv, IsList
<1>5. /\ log' \in Seq(S \cup {entry})
      /\ Len(log') = Len(log) + 1 /\ DOMAIN log' = 1 .. Len(log) + 1
      /\ DOMAIN log = 1 .. Len(log) /\ Len(log) \in Nat
      /\ \A i \in 1 .. Len(log) : log'[i] = log[i]
      /\ log'[Len(log) + 1] = entry
  BY <1>3, <1>4
<1>6. Len(log') <= MaxCommands
  <2>1. Len(log) < MaxCommands
    BY DEF TypeInv
  <2> QED BY <1>5, <2>1, BoundsAssumption
<1>7. HistoryInv' /\ edits' = edits
  BY <1>1, StillHistory, StillFiles DEF TypeInv
<1>8. IsList(log')
  BY <1>5 DEF IsList
<1>9. ASSUME NEW i \in DOMAIN log'
      PROVE  /\ log'[i].cmd \in Commands
             /\ log'[i].since \in Nat
             /\ log'[i].until \in log'[i].since .. edits'
  <2>1. CASE i = Len(log) + 1
    BY <1>3, <1>5, <1>7, <2>1, TypeParts
  <2>2. CASE i \in 1 .. Len(log)
    BY <1>5, <1>7, <2>2 DEF TypeInv
  <2> QED BY <1>5, <2>1, <2>2
<1>10. env' \in Environments /\ since' \in 0 .. edits'
  <2>1. env' = env /\ env \in Environments
    BY <1>1 DEF TypeInv, Still
  <2> QED BY <1>1, <1>7, <2>1, TypeParts
<1>11. ConfigOK(cfg') /\ DOMAIN cfg'.settings = Settings
  BY <1>2, DefaultOK DEF ConfigOK
<1>12. edits' <= MaxEdits /\ since' <= edits'
  <2>1. edits <= MaxEdits
    BY DEF TypeInv, TypeOK
  <2> QED BY <1>1, <1>7, <2>1, TypeParts
<1>13. TypeOK'
  <2>1. found'.load = NoDir /\ found'.display = NoDir
    BY <1>1, NowhereType
  <2>2. \A n \in DOMAIN listing' : listing'[n] \in Origins
    <3>1. DOMAIN <<>> = {}
      OBVIOUS
    <3> QED BY <1>2, <3>1
  <2> QED BY <1>1, <1>2, <1>6, <1>11, <1>12, <2>1, <2>2 DEF TypeOK, Places
<1>14. PlaceInv'
  BY <1>1 DEF PlaceInv
<1> QED BY <1>1, <1>7, <1>8, <1>9, <1>10, <1>11, <1>13, <1>14 DEF TypeInv

\* And so does one that goes on, if what it takes along is well typed.
LEMMA GoingTypes ==
  ASSUME TypeInv, pc # "idle", Still, UNCHANGED <<cmd, since, log>>,
         pc' \in Places \ {"idle"},
         found'.load \in Dirs \cup {NoDir}, found'.display \in Dirs \cup {NoDir},
         ConfigOK(cfg'), modelFile' \in Dirs \cup {NoDir},
         pc' \in {"read models", "read home models"} => modelFile' # NoDir,
         source' \in Origins \cup {""},
         \A n \in DOMAIN listing' : listing'[n] \in Origins,
         PlaceInv'
  PROVE  TypeInv'
<1>1. HistoryInv' /\ edits' = edits /\ env' = env
  BY StillHistory, StillFiles DEF TypeInv, Still
<1>2. cmd \in Commands /\ cmd # NoCommand /\ Len(log) < MaxCommands
  BY TypeParts, NobodyTypes DEF TypeInv
<1>3. TypeOK'
  BY <1>1, <1>2 DEF TypeInv, TypeOK, ConfigOK
<1> QED BY <1>1, <1>2, <1>3 DEF TypeInv

\* Actions that keep the files, and what the command is.
Goes(place) == /\ pc # "idle" /\ pc' = place /\ Still /\ UNCHANGED <<cmd, since, log>>

LEMMA GoesByGoto ==
  ASSUME NEW place, Goto(place), pc # "idle"
  PROVE  Goes(place)
BY DEF Goto, Goes, Still, files

LEMMA OverOrigins ==
  ASSUME NEW f, NEW g,
         \A n \in DOMAIN f : f[n] \in Origins, \A n \in DOMAIN g : g[n] \in Origins
  PROVE  \A n \in DOMAIN Over(f, g) : Over(f, g)[n] \in Origins
<1> SUFFICES ASSUME NEW n \in DOMAIN Over(f, g) PROVE Over(f, g)[n] \in Origins
  OBVIOUS
<1>0. DOMAIN Over(f, g) = (DOMAIN f) \cup (DOMAIN g)
  BY OverDomain, Zenon
<1>1. CASE n \in DOMAIN f
  BY <1>1, OverUpper
<1>2. CASE n \notin DOMAIN f
  BY <1>0, <1>2, OverLower
<1> QED BY <1>1, <1>2

LEMMA ScanOrigins ==
  ASSUME NEW folder, NEW origin \in Origins
  PROVE  \A n \in DOMAIN ScanDir(folder, origin) : ScanDir(folder, origin)[n] \in Origins
<1>1. CASE folder.kind # "there"
  <2>1. DOMAIN <<>> = {}
    OBVIOUS
  <2>2. ScanDir(folder, origin) = <<>>
    BY <1>1 DEF ScanDir
  <2> QED BY <2>1, <2>2
<1>2. CASE folder.kind = "there"
  BY <1>2 DEF ScanDir
<1> QED BY <1>1, <1>2

\* Reading settles nothing that has a type of its own but what it reads.
LEMMA LoadTypes == TypeInv /\ Load => TypeInv'
<1> SUFFICES ASSUME TypeInv, Load PROVE TypeInv'
  OBVIOUS
<1>t. /\ cmd \in Commands => cmd.dir \in Dirs /\ cmd.config \in Dirs \cup {NoDir}
      /\ pc # "idle" => cmd \in Commands
      /\ found.load \in Dirs \cup {NoDir} /\ found.display \in Dirs \cup {NoDir}
      /\ modelFile \in Dirs \cup {NoDir}
      /\ ConfigOK(cfg)
      /\ source \in Origins \cup {""} /\ \A n \in DOMAIN listing : listing[n] \in Origins
  BY TypeParts DEF TypeInv, TypeOK
<1>f. \A code : pc # "idle" /\ Fail(code) => TypeInv'
  BY EndTypes DEF Fail
<1>1. CASE Discover
  <2>1. pc = "discover" /\ cmd.dir \in Dirs /\ cmd.config \in Dirs \cup {NoDir}
    BY <1>1, <1>t DEF Discover
  <2> DEFINE path == DiscoverConfigPath(cmd.config, cmd.dir, configs)
  <2>2. CASE \E code : Fail(code)
    BY <1>f, <2>1, <2>2
  <2>3. CASE /\ found' = path
             /\ Goto("load config")
             /\ UNCHANGED <<cfg, modelFile, aliases, answer>>
    <3>1. Goes("load config")
      BY <2>1, <2>3, GoesByGoto
    <3>2. path.load \in Dirs \cup {NoDir} /\ path.display \in Dirs \cup {NoDir}
      BY <2>1, FoundType, HomeIsDir DEF DiscoverConfigPath, Discovered
    <3> HIDE DEF path
    <3>3. PlaceInv'
      BY <3>1 DEF Goes, PlaceInv
    <3>4. UNCHANGED <<cfg, modelFile, source, listing>>
      BY <2>3 DEF answer
    <3> QED BY <1>t, <2>1, <2>3, <3>1, <3>2, <3>3, <3>4, GoingTypes DEF Goes, Places
  <2> QED BY <1>1, <2>2, <2>3 DEF Discover
<1>2. CASE LoadConfig
  <2>1. pc = "load config"
    BY <1>2 DEF LoadConfig
  <2> DEFINE file == IF found.load = NoDir THEN DefaultConfig
                     ELSE MergeConfig(DefaultConfig, configs[found.load])
  <2>2. CASE \E code : Fail(code)
    BY <1>f, <2>1, <2>2
  <2>3. CASE /\ found.load # NoDir => configs[found.load].kind = "config"
             /\ cfg' = ApplyEnv(file, env)
             /\ Goto("find models")
             /\ UNCHANGED <<found, modelFile, aliases, answer>>
    <3>1. Goes("find models")
      BY <2>1, <2>3, GoesByGoto
    <3>2. /\ ConfigOK(file)
          /\ file \in {DefaultConfig} \cup {MergeConfig(DefaultConfig, f) : f \in ConfigFiles}
      <4>1. CASE found.load = NoDir
        BY <4>1, DefaultOK
      <4>2. CASE found.load # NoDir
        <5>1. configs[found.load] \in ConfigFiles
          BY <1>t, <4>2, TypeParts
        <5> QED BY <2>3, <4>2, <5>1, MergedOK
      <4> QED BY <4>1, <4>2
    <3> HIDE DEF file
    <3>3. ConfigOK(cfg')
      BY <2>3, <3>2, AppliedOK DEF TypeInv
    <3>4. PlaceInv'
      BY <3>1 DEF Goes, PlaceInv
    <3>5. UNCHANGED <<found, modelFile, source, listing>>
      BY <2>3 DEF answer
    <3> QED BY <1>t, <3>1, <3>3, <3>4, <3>5, GoingTypes DEF Goes, Places
  <2> QED BY <1>2, <2>2, <2>3 DEF LoadConfig
<1>3. CASE FindModels
  <2>1. pc = "find models"
    BY <1>3 DEF FindModels
  <2> DEFINE anchor == ModelDiscoveryAnchor(found, cmd.dir)
             path   == FindUpward(anchor, models)
             place  == IF path = NoDir THEN "find home models" ELSE "read models"
  <2>2. CASE \E code : Fail(code)
    BY <1>f, <2>1, <2>2
  <2>3. CASE /\ modelFile' = path
             /\ Goto(place)
             /\ UNCHANGED <<found, cfg, aliases, answer>>
    <3>1. Goes(place)
      BY <2>1, <2>3, GoesByGoto
    <3>2. anchor \in Dirs
      BY <1>t, <2>1 DEF ModelDiscoveryAnchor
    <3>3. path \in Dirs \cup {NoDir}
      BY <3>2, FoundType
    <3> HIDE DEF path
    <3>4. PlaceInv'
      BY <3>1 DEF Goes, PlaceInv
    <3>5. UNCHANGED <<found, cfg, source, listing>>
      BY <2>3 DEF answer
    <3> QED BY <1>t, <2>3, <3>1, <3>3, <3>4, <3>5, GoingTypes DEF Goes, Places
  <2> QED BY <1>3, <2>2, <2>3 DEF FindModels
<1>4. CASE FindHomeModels
  <2>1. pc = "find home models"
    BY <1>4 DEF FindHomeModels
  <2> DEFINE place == IF models[HomeDir].kind = "absent" THEN "loaded" ELSE "read home models"
  <2>2. CASE \E code : Fail(code)
    BY <1>f, <2>1, <2>2
  <2>3. CASE /\ modelFile' = HomeDir
             /\ Goto(place)
             /\ UNCHANGED <<found, cfg, aliases, answer>>
    <3>1. Goes(place)
      BY <2>1, <2>3, GoesByGoto
    <3>2. place \in {"loaded", "read home models"}
      OBVIOUS
    <3> HIDE DEF place
    <3>3. PlaceInv'
      BY <3>1, <3>2 DEF Goes, PlaceInv
    <3>4. UNCHANGED <<found, cfg, source, listing>>
      BY <2>3 DEF answer
    <3> QED BY <1>t, <2>3, <3>1, <3>2, <3>3, <3>4, HomeIsDir, GoingTypes DEF Goes, Places
  <2> QED BY <1>4, <2>2, <2>3 DEF FindHomeModels
<1>5. CASE ReadModels
  <2>1. pc \in {"read models", "read home models"}
    BY <1>5 DEF ReadModels
  <2> DEFINE place == IF pc = "read models" THEN "find home models" ELSE "loaded"
  <2>2. CASE \E code : Fail(code)
    BY <1>f, <2>1, <2>2
  <2>3. CASE /\ Goto(place)
             /\ UNCHANGED <<found, cfg, modelFile, answer>>
    <3>1. Goes(place)
      BY <2>1, <2>3, GoesByGoto
    <3>2. place \in {"loaded", "find home models"}
      OBVIOUS
    <3> HIDE DEF place
    <3>3. PlaceInv'
      BY <3>1, <3>2 DEF Goes, PlaceInv
    <3>4. UNCHANGED <<found, cfg, modelFile, source, listing>>
      BY <2>3 DEF answer
    <3> QED BY <1>t, <3>1, <3>2, <3>3, <3>4, GoingTypes DEF Goes, Places
  <2> QED BY <1>5, <2>2, <2>3 DEF ReadModels
<1> QED BY <1>1, <1>2, <1>3, <1>4, <1>5 DEF Load

Working == {"loaded", "preflight", "project skill", "global skill", "inline skill",
            "list others", "show"}

Work == \/ ResolveMode \/ ValidateConfig \/ Preflight
        \/ LoadSkill \/ ProjectSkill \/ GlobalSkill \/ InlineSkill
        \/ ListProject \/ ListOthers \/ Show

\* With the configuration loaded a command ends or goes on to another place, and
\* loads nothing more.
GoesOn(place) == place \in Working /\ Goes(place) /\ UNCHANGED loading

LEMMA GoesOnByGoto ==
  ASSUME NEW place \in Working, Goto(place), pc # "idle", UNCHANGED loading
  PROVE  GoesOn(place)
BY GoesByGoto DEF GoesOn

LEMMA GoesOnTypes ==
  ASSUME TypeInv, NEW place, GoesOn(place),
         source' \in Origins \cup {""},
         \A n \in DOMAIN listing' : listing'[n] \in Origins,
         PlaceInv'
  PROVE  TypeInv'
<1>1. /\ pc # "idle" /\ Still /\ UNCHANGED <<cmd, since, log>>
      /\ pc' \in Places \ {"idle"} /\ pc' \notin {"read models", "read home models"}
  BY DEF GoesOn, Goes, Working, Places
<1>2. UNCHANGED <<found, cfg, modelFile>>
  BY DEF GoesOn, loading
<1>3. /\ found.load \in Dirs \cup {NoDir} /\ found.display \in Dirs \cup {NoDir}
      /\ modelFile \in Dirs \cup {NoDir} /\ ConfigOK(cfg)
  BY TypeParts DEF TypeInv
<1> QED BY <1>1, <1>2, <1>3, GoingTypes

\* The name that is looked for.
Wanted == TrimSpace(cmd.skill)

\* The three ways TrySkill takes.
SkillFound(dir, origin) ==
  /\ FileKind(skills[dir], Wanted) = "file"
  /\ source' = origin
  /\ GoesOn(IF cmd.kind = "run" THEN "preflight" ELSE "show")
  /\ UNCHANGED <<resolved, listing>>
SkillMissing(dir, next) ==
  /\ FileKind(skills[dir], Wanted) = "absent"
  /\ GoesOn(next)
  /\ UNCHANGED answer
SkillRefused(dir) ==
  /\ FileKind(skills[dir], Wanted) \in {"locked", "dir"}
  /\ Fail(ExitRuntime)

LEMMA TrySkillKinds ==
  ASSUME NEW dir, NEW origin, NEW next \in Working, TrySkill(dir, origin, next), pc # "idle"
  PROVE  SkillFound(dir, origin) \/ SkillMissing(dir, next) \/ SkillRefused(dir)
<1> DEFINE kind  == FileKind(skills[dir], Wanted)
           place == IF cmd.kind = "run" THEN "preflight" ELSE "show"
<1>1. place \in Working
  BY DEF Working
<1>2. CASE kind \in {"locked", "dir"} /\ Fail(ExitRuntime)
  BY <1>2 DEF SkillRefused
<1>3. CASE kind = "file" /\ source' = origin /\ Goto(place) /\ UNCHANGED <<loading, resolved, listing>>
  BY <1>1, <1>3, GoesOnByGoto DEF SkillFound
<1>4. CASE kind = "absent" /\ Goto(next) /\ UNCHANGED <<loading, answer>>
  BY <1>4, GoesOnByGoto DEF SkillMissing
<1> QED BY <1>2, <1>3, <1>4 DEF TrySkill, Wanted

LEMMA TrySkillTypes ==
  ASSUME TypeInv, NEW dir, NEW origin \in Origins, NEW next \in {"global skill", "inline skill"},
         TrySkill(dir, origin, next), pc \in {"project skill", "global skill"}
  PROVE  TypeInv'
<1>p. cmd.kind \in {"run", "skill"} /\ (cmd.kind = "run" => cmd.skill # "")
  BY DEF TypeInv, PlaceInv
<1>t. source \in Origins \cup {""} /\ \A n \in DOMAIN listing : listing[n] \in Origins
  BY DEF TypeInv, TypeOK
<1>w. next \in Working /\ pc # "idle"
  BY DEF Working
<1>1. CASE SkillFound(dir, origin)
  <2> PICK place : place \in {"preflight", "show"} /\ GoesOn(place) /\ place = IF cmd.kind = "run" THEN "preflight" ELSE "show"
    BY <1>1 DEF SkillFound
  <2>1. PlaceInv'
    BY <1>p DEF PlaceInv, GoesOn, Goes
  <2> QED BY <1>t, <1>1, <2>1, GoesOnTypes DEF SkillFound
<1>2. CASE SkillMissing(dir, next)
  <2>1. PlaceInv'
    BY <1>p, <1>2 DEF PlaceInv, GoesOn, Goes, SkillMissing
  <2> QED BY <1>t, <1>2, <2>1, GoesOnTypes DEF SkillMissing, answer
<1>3. CASE SkillRefused(dir)
  BY <1>3, <1>w, EndTypes DEF SkillRefused, Fail
<1> QED BY <1>w, <1>1, <1>2, <1>3, TrySkillKinds

LEMMA WorkTypes == TypeInv /\ Work => TypeInv'
<1> SUFFICES ASSUME TypeInv, Work PROVE TypeInv'
  OBVIOUS
<1>t. source \in Origins \cup {""} /\ \A n \in DOMAIN listing : listing[n] \in Origins
  BY DEF TypeInv, TypeOK
<1>f. \A code, report : pc # "idle" /\ EndWith(code, report) => TypeInv'
  BY EndTypes
<1>1. CASE ResolveMode
  <2>1. pc = "loaded" /\ cmd.kind \in {"run", "mode"}
    BY <1>1 DEF ResolveMode
  <2> DEFINE place == CASE cmd.kind = "mode" -> "show"
                        [] cmd.kind = "run" /\ cmd.skill = "" -> "preflight"
                        [] OTHER -> "project skill"
  <2>2. CASE \E code : Fail(code)
    BY <1>f, <2>1, <2>2 DEF Fail
  <2>3. CASE Goto(place) /\ UNCHANGED <<loading, source, listing>>
    <3>1. /\ place \in {"show", "preflight", "project skill"}
          /\ place = "show" => cmd.kind = "mode"
          /\ place = "preflight" => cmd.kind = "run"
          /\ place = "project skill" => cmd.skill # "" /\ cmd.kind = "run"
      <4>1. CASE cmd.kind = "mode"
        BY <4>1
      <4>2. CASE cmd.kind = "run" /\ cmd.skill = ""
        BY <4>2
      <4>3. CASE cmd.kind = "run" /\ cmd.skill # ""
        BY <4>3
      <4> QED BY <2>1, <4>1, <4>2, <4>3
    <3> HIDE DEF place
    <3>2. GoesOn(place)
      BY <2>1, <2>3, <3>1, GoesOnByGoto DEF Working
    <3>3. PlaceInv'
      BY <3>1, <3>2 DEF PlaceInv, GoesOn, Goes
    <3> QED BY <1>t, <2>3, <3>2, <3>3, GoesOnTypes
  <2> QED BY <1>1, <2>2, <2>3 DEF ResolveMode
<1>2. CASE ValidateConfig
  BY <1>f, <1>2 DEF ValidateConfig
<1>3. CASE Preflight
  BY <1>f, <1>3 DEF Preflight
<1>4. CASE LoadSkill
  <2>1. pc = "loaded" /\ cmd.kind = "skill" /\ Goto("project skill") /\ UNCHANGED <<loading, answer>>
    BY <1>4 DEF LoadSkill
  <2>2. GoesOn("project skill")
    BY <2>1, GoesOnByGoto DEF Working
  <2>3. PlaceInv'
    BY <2>1, <2>2 DEF PlaceInv, GoesOn, Goes
  <2> QED BY <1>t, <2>1, <2>2, <2>3, GoesOnTypes DEF answer
<1>5. CASE ProjectSkill
  <2>1. CASE Fail(ExitRuntime)
    BY <1>5, <1>f, <2>1 DEF ProjectSkill, Fail
  <2>2. CASE TrySkill(cmd.dir, "project-local", "global skill")
    BY <1>5, <2>2, TrySkillTypes DEF ProjectSkill, Origins
  <2> QED BY <1>5, <2>1, <2>2 DEF ProjectSkill
<1>6. CASE GlobalSkill
  <2> DEFINE dir == cfg.settings.skills_dir
  <2>1. CASE TrySkill(dir, "global", "inline skill")
    BY <1>6, <2>1, TrySkillTypes DEF GlobalSkill, Origins
  <2>2. CASE Goto("inline skill") /\ UNCHANGED <<loading, answer>>
    <3>1. pc = "global skill"
      BY <1>6 DEF GlobalSkill
    <3>2. GoesOn("inline skill")
      BY <2>2, <3>1, GoesOnByGoto DEF Working
    <3>3. PlaceInv'
      BY <3>1, <3>2 DEF PlaceInv, GoesOn, Goes, TypeInv
    <3> QED BY <1>t, <2>2, <3>2, <3>3, GoesOnTypes DEF answer
  <2> QED BY <1>6, <2>1, <2>2 DEF GlobalSkill
<1>7. CASE InlineSkill
  <2>1. pc = "inline skill" /\ cmd.kind \in {"run", "skill"}
    BY <1>7 DEF InlineSkill, TypeInv, PlaceInv
  <2> DEFINE place == IF cmd.kind = "run" THEN "preflight" ELSE "show"
  <2>2. CASE \E code : Fail(code)
    BY <1>f, <2>1, <2>2 DEF Fail
  <2>3. CASE source' = "config-inline" /\ Goto(place) /\ UNCHANGED <<loading, resolved, listing>>
    <3>1. GoesOn(place)
      BY <2>1, <2>3, GoesOnByGoto DEF Working
    <3>2. PlaceInv'
      BY <2>1, <3>1 DEF PlaceInv, GoesOn, Goes
    <3>3. source' \in Origins
      BY <2>3 DEF Origins
    <3> QED BY <1>t, <2>3, <3>1, <3>2, <3>3, GoesOnTypes
  <2> QED BY <1>7, <2>2, <2>3 DEF InlineSkill
<1>8. CASE ListProject
  <2>1. pc = "loaded" /\ cmd.kind = "skills"
    BY <1>8 DEF ListProject
  <2>2. CASE \E code : Fail(code)
    BY <1>f, <2>1, <2>2 DEF Fail
  <2>3. CASE /\ listing' = ScanDir(skills[cmd.dir], "project-local")
             /\ Goto("list others")
             /\ UNCHANGED <<loading, resolved, source>>
    <3>1. GoesOn("list others")
      BY <2>1, <2>3, GoesOnByGoto DEF Working
    <3>2. PlaceInv'
      BY <2>1, <3>1 DEF PlaceInv, GoesOn, Goes
    <3>3. \A n \in DOMAIN listing' : listing'[n] \in Origins
      BY <2>3, ScanOrigins DEF Origins
    <3> QED BY <1>t, <2>3, <3>1, <3>2, <3>3, GoesOnTypes
  <2> QED BY <1>8, <2>2, <2>3 DEF ListProject
<1>9. CASE ListOthers
  <2>1. pc = "list others" /\ cmd.kind = "skills"
    BY <1>9 DEF ListOthers, TypeInv, PlaceInv
  <2> DEFINE dir    == cfg.settings.skills_dir
             global == IF dir = NoDir THEN <<>> ELSE ScanDir(skills[dir], "global")
             inline == [n \in cfg.skills |-> "config-inline"]
  <2>2. CASE \E code : Fail(code)
    BY <1>f, <2>1, <2>2 DEF Fail
  <2>3. CASE /\ listing' = Over(Over(listing, global), inline)
             /\ Goto("show")
             /\ UNCHANGED <<loading, resolved, source>>
    <3>1. GoesOn("show")
      BY <2>1, <2>3, GoesOnByGoto DEF Working
    <3>2. PlaceInv'
      BY <2>1, <3>1 DEF PlaceInv, GoesOn, Goes
    <3>3. \A n \in DOMAIN global : global[n] \in Origins
      <4>1. DOMAIN <<>> = {} /\ "global" \in Origins
        BY DEF Origins
      <4> QED BY <4>1, ScanOrigins
    <3>4. \A n \in DOMAIN inline : inline[n] \in Origins
      BY DEF Origins
    <3> HIDE DEF global, inline
    <3>5. \A n \in DOMAIN Over(listing, global) : Over(listing, global)[n] \in Origins
      BY <1>t, <3>3, OverOrigins
    <3>6. \A n \in DOMAIN listing' : listing'[n] \in Origins
      BY <2>3, <3>4, <3>5, OverOrigins
    <3> QED BY <1>t, <2>3, <3>1, <3>2, <3>6, GoesOnTypes
  <2> QED BY <1>9, <2>2, <2>3 DEF ListOthers
<1>10. CASE Show
  BY <1>f, <1>10 DEF Show
<1> QED BY <1>1, <1>2, <1>3, <1>4, <1>5, <1>6, <1>7, <1>8, <1>9, <1>10 DEF Work

LEMMA TypeInit == Init => TypeInv
<1> SUFFICES ASSUME Init PROVE TypeInv
  OBVIOUS
<1>1. PICK w \in Worlds : configs = w.configs /\ models = w.models /\ skills = w.skills
  BY DEF Init
<1>2. Now \in Snapshots
  BY <1>1, WorldsAssumption DEF Now, Snapshots
<1>3. past = <<>> /\ edits = 0
  BY DEF Init, edits
<1>z. since = 0
  BY DEF Init
<1>4. HistoryInv
  BY <1>2, <1>3 DEF HistoryInv
<1>5. /\ pc = "idle" /\ cmd = NoCommand /\ since = 0 /\ found = Nowhere /\ cfg = DefaultConfig
      /\ modelFile = NoDir /\ source = "" /\ listing = <<>> /\ log = <<>> /\ env \in Environments
  BY DEF Init
<1>6. DOMAIN <<>> = {} /\ Len(<<>>) = 0 /\ <<>> \in Seq({})
  OBVIOUS
<1>7. found.load = NoDir /\ found.display = NoDir
  BY <1>5, NowhereType
<1>e. /\ Len(log) = 0 /\ DOMAIN log = {} /\ DOMAIN listing = {}
  BY <1>5, <1>6
<1>8. TypeOK
  <2>1. edits <= MaxEdits /\ since <= edits /\ Len(log) <= MaxCommands
    <3>1. MaxEdits \in Nat /\ MaxCommands \in Nat
      BY BoundsAssumption
    <3> QED BY <1>3, <1>z, <1>e, <3>1
  <2>2. DOMAIN cfg.settings = Settings
    BY <1>5, DefaultOK DEF ConfigOK
  <2> QED BY <1>5, <1>7, <1>e, <2>1, <2>2 DEF TypeOK, Places
<1>9. PlaceInv
  BY <1>5 DEF PlaceInv
<1>10. IsList(log)
  BY <1>5, <1>6 DEF IsList
<1>11. since \in 0 .. edits
  BY <1>3, <1>z
<1>12. ConfigOK(cfg)
  BY <1>5, DefaultOK
<1> QED BY <1>4, <1>5, <1>e, <1>8, <1>9, <1>10, <1>11, <1>12 DEF TypeInv

LEMMA TypeStep == TypeInv /\ [Next]_vars => TypeInv'
<1> SUFFICES ASSUME TypeInv, [Next]_vars PROVE TypeInv'
  OBVIOUS
<1>1. CASE Type
  <2>1. /\ cmd' \in Commands /\ since' = edits /\ pc' = "discover" /\ pc = "idle"
        /\ Still /\ UNCHANGED <<found, cfg, modelFile, source, listing, log>>
        /\ Len(log) < MaxCommands
    BY <1>1 DEF Type, Still, files, loading, answer
  <2>2. HistoryInv' /\ edits' = edits /\ env' = env
    BY <2>1, StillHistory, StillFiles DEF TypeInv, Still
  <2>3. cmd' # NoCommand
    BY <2>1, NobodyTypes
  <2>4. PlaceInv'
    BY <2>1 DEF PlaceInv
  <2>5. since' \in 0 .. edits' /\ since' <= edits'
    BY <2>1, <2>2, TypeParts
  <2>6. TypeOK'
    BY <2>1, <2>2, <2>3, <2>5 DEF TypeInv, TypeOK, Places
  <2> QED BY <2>1, <2>2, <2>4, <2>5, <2>6 DEF TypeInv
<1>2. CASE Edit
  <2>1. HistoryInv' /\ edits' = edits + 1 /\ env' = env
    BY <1>2, EditFiles DEF TypeInv
  <2>2. UNCHANGED <<pc, cmd, since, found, cfg, modelFile, source, listing, log>> /\ edits < MaxEdits
    BY <1>2 DEF Edit, loading, answer
  <2>3. since' \in 0 .. edits' /\ since' <= edits' /\ edits' <= MaxEdits
    BY <2>1, <2>2, TypeParts, BoundsAssumption
  <2>4. PlaceInv'
    BY <2>2 DEF PlaceInv, TypeInv
  <2>5. TypeOK'
    BY <2>1, <2>2, <2>3 DEF TypeInv, TypeOK
  <2>6. ASSUME NEW i \in DOMAIN log'
        PROVE  /\ log'[i].cmd \in Commands
               /\ log'[i].since \in Nat
               /\ log'[i].until \in log'[i].since .. edits'
    <3>1. /\ log[i].cmd \in Commands
          /\ log[i].since \in Nat
          /\ log[i].until \in log[i].since .. edits
      BY <2>2 DEF TypeInv
    <3> QED BY <2>1, <2>2, <3>1, TypeParts
  <2> QED BY <2>1, <2>2, <2>3, <2>4, <2>5, <2>6 DEF TypeInv
<1>3. CASE Load
  BY <1>3, LoadTypes
<1>4. CASE Work
  BY <1>4, WorkTypes
<1>5. CASE UNCHANGED vars
  <2>1. Still /\ UNCHANGED <<pc, cmd, since, found, cfg, modelFile, source, listing, log>>
    BY <1>5 DEF vars, Still, files, loading, answer
  <2>2. HistoryInv' /\ edits' = edits /\ env' = env
    BY <2>1, StillHistory, StillFiles DEF TypeInv, Still
  <2> QED BY <2>1, <2>2 DEF TypeInv, TypeOK, PlaceInv
<1> QED BY <1>1, <1>2, <1>3, <1>4, <1>5 DEF Next, Work

\* Every variable keeps its type: in particular a command is at a place that belongs to
\* it, and works with a configuration that has all settings and whole modes
\* (LoadFromAnchor, config.go:112-159; executeRun, cmd_run.go:91-160).
THEOREM TypeCorrect == Spec => []TypeOK
<1>1. TypeInv => TypeOK
  BY DEF TypeInv
<1> QED BY <1>1, TypeInit, TypeStep, PTL DEF Spec

-----------------------------------------------------------------------------
(***************************************************************************)
(* What a command has read, if at most one edit has come since it began.   *)
(***************************************************************************)
Moments == since .. edits
Anchor  == ModelDiscoveryAnchor(found, cmd.dir)
NearAt(k) == FindUpward(Anchor, FilesAt(k).models)

DiscoveredAt(k) == found = DiscoverConfigPath(cmd.config, cmd.dir, FilesAt(k).configs)

ConfiguredAt(k) ==
  /\ DiscoveredAt(k)
  /\ ~env.bad
  /\ found.load # NoDir => FilesAt(k).configs[found.load].kind = "config"
  /\ cfg = ApplyEnv(ConfigAt(FilesAt(k), cmd), env)

NearReadAt(k) ==
  /\ NearAt(k) # NoDir => FilesAt(k).models[NearAt(k)].kind = "models"
  /\ aliases = AliasesIn(FilesAt(k).models, NearAt(k))

KnownAt(k, x) ==
  /\ Readable(FilesAt(k).models, NearAt(k))
  /\ Agree(aliases, Known(FilesAt(k).models, Anchor), x)

\* Every file of the configuration was as it is at one of the moments, and so is every
\* alias.  It need not be the same moment; but if it is not, one of the two kinds of
\* files was the same at both.
ReadInv ==
  pc # "idle" /\ edits <= since + 1 =>
     /\ pc = "load config" => \E k \in Moments : DiscoveredAt(k)
     /\ pc \notin {"discover", "load config"} => \E k \in Moments : ConfiguredAt(k)
     /\ pc = "read models" => \E k \in Moments : modelFile = NearAt(k)
     /\ pc \in {"find home models", "read home models"} => \E k \in Moments : NearReadAt(k)
     /\ pc \in Working => \A x : \E k \in Moments : KnownAt(k, x)

ResolvedInv ==
  resolved # <<>> /\ edits <= since + 1 =>
     \E k \in Moments : resolved = ModeAt(FilesAt(k), cmd)

\* Nothing is left of an earlier command.
CleanInv ==
  /\ pc \in {"idle", "discover", "load config", "find models", "read models"} => aliases = <<>>
  /\ pc \notin Working \/ pc = "loaded" => resolved = <<>> /\ source = "" /\ listing = <<>>
  /\ pc = "read home models" => modelFile = HomeDir

LEMMA OverEmpty ==
  ASSUME NEW f, NEW S, f \in [DOMAIN f -> S]
  PROVE  Over(f, <<>>) = f
<1>1. DOMAIN <<>> = {}
  OBVIOUS
<1>2. (DOMAIN f) \cup (DOMAIN <<>>) = DOMAIN f
  BY <1>1
<1>3. Over(f, <<>>) = [k \in DOMAIN f |-> f[k]]
  BY <1>2 DEF Over
<1>4. f = [k \in DOMAIN f |-> f[k]]
  OBVIOUS
<1> QED BY <1>3, <1>4

LEMMA MomentsType ==
  ASSUME TypeInv
  PROVE  /\ edits \in Moments /\ Moments \subseteq 0 .. edits
         /\ FilesAt(edits) = Now
         /\ \A k \in Moments : FilesAt(k) \in Snapshots
<1>1. edits \in Nat /\ since \in Nat /\ since <= edits
  BY TypeParts
<1>2. HistoryInv
  BY DEF TypeInv
<1>3. edits \in Moments /\ Moments \subseteq 0 .. edits
  BY <1>1 DEF Moments
<1> QED BY <1>2, <1>3, LastIsNow

\* There are two moments at most, with one edit between them.
LEMMA TwoMoments ==
  ASSUME TypeInv, edits <= since + 1, NEW k \in Moments, NEW m \in Moments
  PROVE  k = m \/ OneEdit(FilesAt(k), FilesAt(m)) \/ OneEdit(FilesAt(m), FilesAt(k))
<1>1. /\ edits \in Nat /\ since \in Nat /\ since <= edits
      /\ k \in since .. edits /\ m \in since .. edits
  BY TypeParts DEF Moments
<1>2. CASE k # m
  <2>0. edits = since + 1
    BY <1>1, <1>2
  <2>1. /\ since \in 0 .. edits - 1
        /\ (k = since /\ m = since + 1) \/ (m = since /\ k = since + 1)
    BY <1>1, <1>2, <2>0
  <2>2. OneEdit(FilesAt(since), FilesAt(since + 1))
    BY <2>1 DEF TypeInv, HistoryInv
  <2> QED BY <2>1, <2>2
<1> QED BY <1>2

\* The other moment is before the present one.
LEMMA ThisMoment ==
  ASSUME TypeInv, edits <= since + 1, NEW k \in Moments
  PROVE  FilesAt(k) = Now \/ OneEdit(FilesAt(k), Now)
<1>1. /\ edits \in Nat /\ since \in Nat /\ since <= edits /\ k \in since .. edits
  BY TypeParts DEF Moments
<1>2. CASE k # edits
  <2>1. k \in 0 .. edits - 1 /\ k + 1 = edits
    BY <1>1, <1>2
  <2>2. OneEdit(FilesAt(k), FilesAt(k + 1))
    BY <2>1 DEF TypeInv, HistoryInv
  <2> QED BY <2>1, <2>2, MomentsType
<1> QED BY <1>2, MomentsType

LEMMA AnchorType ==
  ASSUME TypeInv, pc # "idle"
  PROVE  Anchor \in Dirs /\ cmd.dir \in Dirs /\ cmd.config \in Dirs \cup {NoDir}
BY TypeParts DEF Anchor, ModelDiscoveryAnchor

LEMMA SnapshotType ==
  ASSUME NEW fs \in Snapshots
  PROVE  /\ fs.configs \in [Dirs -> ConfigFiles]
         /\ fs.models \in [Dirs -> ModelFiles]
         /\ fs.skills \in [Dirs -> SkillFolders]
BY DEF Snapshots

\* The config file is as it was when it was found, or is found as it is.
LEMMA ConfigRead ==
  ASSUME TypeInv, pc # "idle", edits <= since + 1, NEW k \in Moments, DiscoveredAt(k),
         found.load # NoDir => configs[found.load].kind = "config"
  PROVE  \E m \in Moments :
            /\ DiscoveredAt(m)
            /\ found.load # NoDir =>
                  /\ FilesAt(m).configs[found.load].kind = "config"
                  /\ FilesAt(m).configs[found.load] = configs[found.load]
<1>0. /\ found.load \in Dirs \cup {NoDir} /\ Now.configs = configs
      /\ cmd.dir \in Dirs /\ cmd.config \in Dirs \cup {NoDir}
      /\ edits \in Moments /\ FilesAt(edits) = Now
  BY TypeParts, AnchorType, MomentsType DEF Now
<1>1. CASE found.load = NoDir
  BY <1>1
<1>2. CASE found.load # NoDir /\ FilesAt(k).configs[found.load] = configs[found.load]
  BY <1>2
<1>3. CASE found.load # NoDir /\ FilesAt(k).configs[found.load] # configs[found.load]
  <2>1. OneEdit(FilesAt(k), Now)
    BY <1>0, <1>3, ThisMoment
  <2>2. PICK e \in Dirs : SameBut(FilesAt(k).configs, configs, e)
    BY <1>0, <1>3, <2>1 DEF OneEdit
  <2>3. found = DiscoverConfigPath(cmd.config, cmd.dir, FilesAt(k).configs)
    BY DEF DiscoveredAt
  <2>4. DiscoverConfigPath(cmd.config, cmd.dir, configs) = found
    BY <1>0, <1>3, <2>2, <2>3, EditedConfig
  <2>5. DiscoveredAt(edits)
    BY <1>0, <2>4 DEF DiscoveredAt
  <2> QED BY <1>0, <1>3, <2>5
<1> QED BY <1>1, <1>2, <1>3

\* So it is with the nearest model file.
LEMMA NearRead ==
  ASSUME TypeInv, pc # "idle", edits <= since + 1, NEW k \in Moments, modelFile = NearAt(k),
         modelFile # NoDir, models[modelFile].kind = "models"
  PROVE  \E m \in Moments : /\ NearAt(m) = modelFile
                            /\ FilesAt(m).models[modelFile] = models[modelFile]
<1>0. /\ modelFile \in Dirs /\ Now.models = models /\ Anchor \in Dirs
      /\ edits \in Moments /\ FilesAt(edits) = Now
  BY TypeParts, AnchorType, MomentsType DEF Now
<1>1. CASE FilesAt(k).models[modelFile] = models[modelFile]
  BY <1>1
<1>2. CASE FilesAt(k).models[modelFile] # models[modelFile]
  <2>1. OneEdit(FilesAt(k), Now)
    BY <1>0, <1>2, ThisMoment
  <2>2. PICK e \in Dirs : SameBut(FilesAt(k).models, models, e)
    BY <1>0, <1>2, <2>1 DEF OneEdit
  <2>3. models[modelFile].kind \notin {"absent", "dir"}
    OBVIOUS
  <2>4. FindUpward(Anchor, models) = modelFile
    BY <1>0, <1>2, <2>2, <2>3, EditedSearch DEF NearAt
  <2>5. NearAt(edits) = modelFile
    BY <1>0, <2>4 DEF NearAt
  <2> QED BY <1>0, <2>5
<1> QED BY <1>1, <1>2

\* And with the one at home, which comes last: alias by alias.
LEMMA HomeRead ==
  ASSUME TypeInv, pc # "idle", edits <= since + 1, NEW k \in Moments, NearReadAt(k),
         models[HomeDir].kind \in {"absent", "models"}, NEW x
  PROVE  \E m \in Moments :
            /\ Readable(FilesAt(m).models, NearAt(m))
            /\ Agree(Over(AliasesIn(models, HomeDir), aliases),
                     Known(FilesAt(m).models, Anchor), x)
<1>0. /\ Now.models = models /\ Anchor \in Dirs
      /\ edits \in Moments /\ FilesAt(edits) = Now
  BY AnchorType, MomentsType DEF Now
<1> DEFINE f == FilesAt(k).models
           read == Over(AliasesIn(models, HomeDir), aliases)
<1>1. /\ FindUpward(Anchor, f) # NoDir => f[FindUpward(Anchor, f)].kind = "models"
      /\ aliases = AliasesIn(f, FindUpward(Anchor, f))
  BY DEF NearReadAt, NearAt
<1>2. CASE f = models
  <2>1. Readable(f, FindUpward(Anchor, f))
    BY <1>1, <1>2 DEF Readable
  <2>2. read = Known(f, Anchor)
    BY <1>1, <1>2 DEF Known
  <2> QED BY <2>1, <2>2, AgreeOver DEF NearAt
<1>3. CASE f # models
  <2>1. OneEdit(FilesAt(k), Now)
    BY <1>0, <1>3, ThisMoment
  <2>2. PICK e \in Dirs : /\ SameBut(f, models, e)
                          /\ f[e].kind = "dir" => models[e].kind \in {"absent", "dir"}
    BY <1>0, <1>3, <2>1 DEF OneEdit
  <2>3. \/ Readable(f, FindUpward(Anchor, f)) /\ Agree(read, Known(f, Anchor), x)
        \/ Readable(models, FindUpward(Anchor, models)) /\ Agree(read, Known(models, Anchor), x)
    <3> HIDE DEF f
    <3> QED BY <1>0, <1>1, <2>2, EditedHome
  <2>4. CASE Readable(f, FindUpward(Anchor, f)) /\ Agree(read, Known(f, Anchor), x)
    BY <2>4 DEF NearAt
  <2>5. CASE Readable(models, FindUpward(Anchor, models)) /\ Agree(read, Known(models, Anchor), x)
    BY <1>0, <2>5 DEF NearAt
  <2> QED BY <2>3, <2>4, <2>5
<1> QED BY <1>2, <1>3

\* Config file and alias were so at one and the same moment.
LEMMA SameMoment ==
  ASSUME TypeInv, edits <= since + 1, NEW x,
         \E k \in Moments : ConfiguredAt(k), \E k \in Moments : KnownAt(k, x)
  PROVE  \E k \in Moments : ConfiguredAt(k) /\ KnownAt(k, x)
<1>1. PICK k \in Moments : ConfiguredAt(k)
  OBVIOUS
<1>2. PICK m \in Moments : KnownAt(m, x)
  OBVIOUS
<1>3. k = m \/ FilesAt(k).models = FilesAt(m).models \/ FilesAt(k).configs = FilesAt(m).configs
  BY TwoMoments DEF OneEdit
<1>4. CASE k = m
  BY <1>1, <1>2, <1>4
<1>5. CASE FilesAt(k).models = FilesAt(m).models
  <2>1. NearAt(k) = NearAt(m)
    BY <1>5 DEF NearAt
  <2>2. KnownAt(k, x)
    BY <1>2, <1>5, <2>1 DEF KnownAt
  <2> QED BY <1>1, <2>2
<1>6. CASE FilesAt(k).configs = FilesAt(m).configs
  <2>1. DiscoveredAt(m)
    BY <1>1, <1>6 DEF ConfiguredAt, DiscoveredAt
  <2>2. ConfigAt(FilesAt(k), cmd) = ConfigAt(FilesAt(m), cmd)
    BY <1>6 DEF ConfigAt
  <2>3. ConfiguredAt(m)
    BY <1>1, <1>6, <2>1, <2>2 DEF ConfiguredAt
  <2> QED BY <1>2, <2>3
<1> QED BY <1>3, <1>4, <1>5, <1>6

\* What a command has read is what the reference reads at that moment.
LEMMA AtMoment ==
  ASSUME NEW k, ConfiguredAt(k), Readable(FilesAt(k).models, NearAt(k))
  PROVE  /\ ReadableAt(FilesAt(k), cmd)
         /\ cfg = ApplyEnv(ConfigAt(FilesAt(k), cmd), env)
         /\ AliasesAt(FilesAt(k), cmd) = Known(FilesAt(k).models, Anchor)
<1> DEFINE fs == FilesAt(k)
           path == DiscoverConfigPath(cmd.config, cmd.dir, fs.configs)
<1>1. found = path /\ ~env.bad /\ cfg = ApplyEnv(ConfigAt(fs, cmd), env)
  BY DEF ConfiguredAt, DiscoveredAt
<1>2. path.load # NoDir => fs.configs[path.load].kind = "config"
  BY <1>1 DEF ConfiguredAt
<1>3. Anchor = ModelDiscoveryAnchor(path, cmd.dir) /\ NearAt(k) = FindUpward(Anchor, fs.models)
  BY <1>1 DEF Anchor, NearAt
<1>4. ReadableAt(fs, cmd)
  BY <1>1, <1>2, <1>3 DEF ReadableAt, Readable
<1>5. AliasesAt(fs, cmd) = Known(fs.models, Anchor)
  BY <1>3 DEF AliasesAt, Known, AliasesIn
<1> QED BY <1>1, <1>4, <1>5

-----------------------------------------------------------------------------
(* What has been read stays so. *)

LEMMA Keeps ==
  ASSUME NEW k, FilesAt(k)' = FilesAt(k), UNCHANGED <<found, cmd, env>>
  PROVE  /\ DiscoveredAt(k)' <=> DiscoveredAt(k)
         /\ NearAt(k)' = NearAt(k)
         /\ UNCHANGED cfg => (ConfiguredAt(k)' <=> ConfiguredAt(k))
         /\ UNCHANGED aliases => (NearReadAt(k)' <=> NearReadAt(k))
         /\ UNCHANGED aliases => \A x : KnownAt(k, x)' <=> KnownAt(k, x)
<1>1. DiscoveredAt(k)' <=> DiscoveredAt(k)
  BY DEF DiscoveredAt
<1>2. Anchor' = Anchor
  BY DEF Anchor
<1>3. NearAt(k)' = NearAt(k)
  BY <1>2 DEF NearAt
<1>4. ASSUME UNCHANGED cfg PROVE ConfiguredAt(k)' <=> ConfiguredAt(k)
  BY <1>1, <1>4 DEF ConfiguredAt, ConfigAt
<1>5. ASSUME UNCHANGED aliases PROVE NearReadAt(k)' <=> NearReadAt(k)
  BY <1>3, <1>5 DEF NearReadAt
<1>6. ASSUME UNCHANGED aliases, NEW x PROVE KnownAt(k, x)' <=> KnownAt(k, x)
  BY <1>2, <1>3, <1>6 DEF KnownAt
<1> QED BY <1>1, <1>3, <1>4, <1>5, <1>6

\* A step that only keeps the files, or adds an edit to them.
Passing == /\ UNCHANGED <<since, cmd, env>>
           /\ edits' \in {edits, edits + 1}
           /\ \A k \in 0 .. edits : FilesAt(k)' = FilesAt(k)

LEMMA PassingKinds ==
  ASSUME TypeInv, (Still /\ UNCHANGED <<since, cmd>>) \/ Edit
  PROVE  Passing
<1>1. CASE Still /\ UNCHANGED <<since, cmd>>
  BY <1>1, StillFiles DEF Passing, Still
<1>2. CASE Edit
  <2>1. UNCHANGED <<since, cmd>> /\ HistoryInv
    BY <1>2 DEF Edit, TypeInv
  <2> QED BY <1>2, <2>1, EditFiles DEF Passing
<1> QED BY <1>1, <1>2

LEMMA MomentsKeep ==
  ASSUME TypeInv, Passing, edits' <= since' + 1
  PROVE  /\ edits <= since + 1
         /\ Moments \subseteq Moments'
         /\ \A k \in Moments : FilesAt(k)' = FilesAt(k)
<1>1. /\ edits \in Nat /\ since \in Nat /\ since <= edits
      /\ edits' \in {edits, edits + 1} /\ since' = since
  BY TypeParts DEF Passing
<1>2. edits <= since + 1 /\ edits <= edits'
  BY <1>1
<1>3. since .. edits \subseteq since' .. edits'
  BY <1>1, <1>2
<1>4. \A k \in Moments : FilesAt(k)' = FilesAt(k)
  BY MomentsType DEF Passing
<1> QED BY <1>2, <1>3, <1>4 DEF Moments

\* A command that goes on with what it has loaded has it from the same moments.
LEMMA ReadKeeps ==
  ASSUME TypeInv, ReadInv, pc # "idle", Passing, UNCHANGED loading,
         pc' = pc \/ (pc \in Working /\ pc' \in Working)
  PROVE  ReadInv'
<1> SUFFICES ASSUME edits' <= since' + 1 PROVE ReadInv'
  BY DEF ReadInv
<1>1. /\ edits <= since + 1 /\ Moments \subseteq Moments'
      /\ \A k \in Moments : FilesAt(k)' = FilesAt(k)
  BY MomentsKeep
<1>2. UNCHANGED <<found, cmd, env, cfg, modelFile, aliases>>
  BY DEF Passing, loading
<1>3. \A k \in Moments : /\ DiscoveredAt(k)' <=> DiscoveredAt(k)
                         /\ NearAt(k)' = NearAt(k)
                         /\ ConfiguredAt(k)' <=> ConfiguredAt(k)
                         /\ NearReadAt(k)' <=> NearReadAt(k)
                         /\ \A x : KnownAt(k, x)' <=> KnownAt(k, x)
  BY <1>1, <1>2, Keeps
<1>4. ASSUME pc' = "load config" PROVE \E k \in Moments' : DiscoveredAt(k)'
  <2>1. pc = "load config"
    BY <1>4 DEF Working
  <2> QED BY <1>1, <1>3, <2>1 DEF ReadInv
<1>5. ASSUME pc' \notin {"discover", "load config"} PROVE \E k \in Moments' : ConfiguredAt(k)'
  <2>1. pc \notin {"discover", "load config"}
    BY <1>5 DEF Working
  <2> QED BY <1>1, <1>3, <2>1 DEF ReadInv
<1>6. ASSUME pc' = "read models" PROVE \E k \in Moments' : modelFile' = NearAt(k)'
  <2>1. pc = "read models"
    BY <1>6 DEF Working
  <2> QED BY <1>1, <1>2, <1>3, <2>1 DEF ReadInv
<1>7. ASSUME pc' \in {"find home models", "read home models"}
      PROVE  \E k \in Moments' : NearReadAt(k)'
  <2>1. pc \in {"find home models", "read home models"}
    BY <1>7 DEF Working
  <2> QED BY <1>1, <1>3, <2>1 DEF ReadInv
<1>8. ASSUME pc' \in Working, NEW x PROVE \E k \in Moments' : KnownAt(k, x)'
  <2>1. pc \in Working
    BY <1>8
  <2>2. PICK k \in Moments : KnownAt(k, x)
    BY <1>1, <2>1 DEF ReadInv
  <2> QED BY <1>1, <1>3, <2>2
<1> QED BY <1>4, <1>5, <1>6, <1>7, <1>8 DEF ReadInv

LEMMA EndReads ==
  ASSUME NEW exit, NEW report, EndWith(exit, report)
  PROVE  ReadInv' /\ ResolvedInv' /\ CleanInv'
<1>1. /\ pc' = "idle" /\ resolved' = <<>> /\ aliases' = <<>>
      /\ source' = "" /\ listing' = <<>>
  BY DEF EndWith
<1> QED BY <1>1 DEF ReadInv, ResolvedInv, CleanInv, Working

\* Where a command still loads, it has not answered anything.
LEMMA LoadingCleans ==
  ASSUME CleanInv, pc \notin Working, NEW place \in {"load config", "find models", "read models",
                                                     "find home models", "read home models", "loaded"},
         Goes(place), UNCHANGED answer,
         place \in {"load config", "find models", "read models"} => aliases' = <<>>,
         place = "read home models" => modelFile' = HomeDir
  PROVE  CleanInv' /\ resolved' = <<>>
BY DEF CleanInv, Goes, answer, Working

LEMMA DiscoverReads ==
  ASSUME TypeInv, ReadInv, CleanInv, Discover
  PROVE  ReadInv' /\ CleanInv' /\ ResolvedInv'
<1>1. pc = "discover" /\ pc \notin Working
  BY DEF Discover, Working
<1>2. CASE \E code : Fail(code)
  BY <1>2, EndReads DEF Fail
<1> DEFINE path == DiscoverConfigPath(cmd.config, cmd.dir, configs)
<1>3. CASE found' = path /\ Goto("load config") /\ UNCHANGED <<cfg, modelFile, aliases, answer>>
  <2>1. Goes("load config") /\ aliases' = <<>> /\ UNCHANGED answer
    BY <1>1, <1>3, GoesByGoto DEF CleanInv
  <2>2. CleanInv' /\ resolved' = <<>>
    BY <1>1, <2>1, LoadingCleans
  <2>3. ASSUME edits' <= since' + 1 PROVE \E k \in Moments' : DiscoveredAt(k)'
    <3> PICK n : n = edits
      OBVIOUS
    <3>1. Passing
      BY <2>1, PassingKinds DEF Goes
    <3>2. n \in Moments' /\ FilesAt(n)' = FilesAt(n)
      BY <2>3, <3>1, MomentsKeep, MomentsType
    <3>3. FilesAt(n).configs = configs
      BY MomentsType DEF Now
    <3>4. UNCHANGED cmd
      BY <2>1 DEF Goes
    <3>5. DiscoveredAt(n)'
      BY <1>3, <3>2, <3>3, <3>4 DEF DiscoveredAt
    <3> QED BY <3>2, <3>5
  <2>4. ReadInv'
    BY <2>1, <2>3 DEF ReadInv, Goes, Working
  <2> QED BY <2>2, <2>4 DEF ResolvedInv
<1> QED BY <1>2, <1>3 DEF Discover

LEMMA LoadConfigReads ==
  ASSUME TypeInv, ReadInv, CleanInv, LoadConfig
  PROVE  ReadInv' /\ CleanInv' /\ ResolvedInv'
<1>1. pc = "load config" /\ pc # "idle" /\ pc \notin Working
  BY DEF LoadConfig, Working
<1>2. CASE \E code : Fail(code)
  BY <1>2, EndReads DEF Fail
<1> DEFINE file == IF found.load = NoDir THEN DefaultConfig
                   ELSE MergeConfig(DefaultConfig, configs[found.load])
<1>3. CASE /\ found.load # NoDir => configs[found.load].kind = "config"
           /\ ~env.bad
           /\ cfg' = ApplyEnv(file, env)
           /\ Goto("find models")
           /\ UNCHANGED <<found, modelFile, aliases, answer>>
  <2>1. Goes("find models") /\ aliases' = <<>> /\ UNCHANGED answer
    BY <1>1, <1>3, GoesByGoto DEF CleanInv
  <2>2. CleanInv' /\ resolved' = <<>>
    BY <1>1, <2>1, LoadingCleans
  <2>3. ASSUME edits' <= since' + 1 PROVE \E k \in Moments' : ConfiguredAt(k)'
    <3>1. Passing
      BY <2>1, PassingKinds DEF Goes
    <3>2. /\ edits <= since + 1 /\ Moments \subseteq Moments'
          /\ \A k \in Moments : FilesAt(k)' = FilesAt(k)
      BY <2>3, <3>1, MomentsKeep
    <3>3. PICK k \in Moments : DiscoveredAt(k)
      BY <1>1, <3>2 DEF ReadInv
    <3>4. PICK m \in Moments : /\ DiscoveredAt(m)
                               /\ found.load # NoDir =>
                                     /\ FilesAt(m).configs[found.load].kind = "config"
                                     /\ FilesAt(m).configs[found.load] = configs[found.load]
      BY <1>1, <1>3, <3>2, <3>3, ConfigRead
    <3>5. ConfigAt(FilesAt(m), cmd) = file
      BY <3>4 DEF ConfigAt, DiscoveredAt
    <3>6. UNCHANGED <<found, cmd, env>>
      BY <1>3, <2>1 DEF Goes, Still
    <3>7. FilesAt(m)' = FilesAt(m)
      BY <3>2
    <3>8. DiscoveredAt(m)'
      BY <3>4, <3>6, <3>7, Keeps
    <3>9. ConfigAt(FilesAt(m), cmd)' = file
      BY <3>5, <3>6, <3>7 DEF ConfigAt
    <3> HIDE DEF file
    <3>10. ConfiguredAt(m)'
      BY <1>3, <3>4, <3>6, <3>7, <3>8, <3>9 DEF ConfiguredAt
    <3> QED BY <3>2, <3>10
  <2>4. ReadInv'
    BY <2>1, <2>3 DEF ReadInv, Goes, Working
  <2> QED BY <2>2, <2>4 DEF ResolvedInv
<1> QED BY <1>2, <1>3 DEF LoadConfig

\* What holds of the configuration while the models are read.
LEMMA ConfiguredKeeps ==
  ASSUME TypeInv, ReadInv, pc \notin {"idle", "discover", "load config"}, Passing,
         UNCHANGED <<found, cfg>>, edits' <= since' + 1
  PROVE  \E k \in Moments' : ConfiguredAt(k)'
<1>1. /\ edits <= since + 1 /\ Moments \subseteq Moments'
      /\ \A k \in Moments : FilesAt(k)' = FilesAt(k)
  BY MomentsKeep
<1>2. PICK k \in Moments : ConfiguredAt(k)
  BY <1>1 DEF ReadInv
<1>3. ConfiguredAt(k)'
  BY <1>1, <1>2, Keeps DEF Passing
<1> QED BY <1>1, <1>3

LEMMA FindModelsReads ==
  ASSUME TypeInv, ReadInv, CleanInv, FindModels
  PROVE  ReadInv' /\ CleanInv' /\ ResolvedInv'
<1>1. pc = "find models" /\ pc # "idle" /\ pc \notin Working
  BY DEF FindModels, Working
<1>2. CASE \E code : Fail(code)
  BY <1>2, EndReads DEF Fail
<1> DEFINE path == FindUpward(Anchor, models)
           place == IF path = NoDir THEN "find home models" ELSE "read models"
<1>3. CASE modelFile' = path /\ Goto(place) /\ UNCHANGED <<found, cfg, aliases, answer>>
  <2>1. Goes(place) /\ aliases' = <<>> /\ aliases = <<>> /\ UNCHANGED answer
    BY <1>1, <1>3, GoesByGoto DEF CleanInv
  <2>p. place \in {"find home models", "read models"} /\ (place = "find home models" => path = NoDir)
    OBVIOUS
  <2> HIDE DEF place
  <2>2. CleanInv' /\ resolved' = <<>>
    BY <1>1, <2>1, <2>p, LoadingCleans
  <2>3. ASSUME edits' <= since' + 1
        PROVE  /\ \E k \in Moments' : ConfiguredAt(k)'
               /\ \E k \in Moments' : modelFile' = NearAt(k)'
               /\ path = NoDir => \E k \in Moments' : NearReadAt(k)'
    <3>1. Passing
      BY <2>1, PassingKinds DEF Goes
    <3> PICK n : n = edits
      OBVIOUS
    <3>2. n \in Moments' /\ FilesAt(n)' = FilesAt(n)
      BY <2>3, <3>1, MomentsKeep, MomentsType
    <3>3. NearAt(n) = path
      BY MomentsType DEF NearAt, Now
    <3>4. NearAt(n)' = path
      BY <1>3, <2>1, <3>2, <3>3, Keeps DEF Goes, Still
    <3>5. path = NoDir => NearReadAt(n)'
      BY <2>1, <3>4 DEF NearReadAt, AliasesIn
    <3>6. \E k \in Moments' : ConfiguredAt(k)'
      BY <1>1, <1>3, <2>3, <3>1, ConfiguredKeeps
    <3> HIDE DEF path
    <3> QED BY <1>3, <3>2, <3>4, <3>5, <3>6
  <2>4. pc' = place
    BY <2>1 DEF Goes
  <2> HIDE DEF path
  <2>5. ReadInv'
    BY <2>p, <2>3, <2>4 DEF ReadInv, Working
  <2> QED BY <2>2, <2>5 DEF ResolvedInv
<1> QED BY <1>2, <1>3 DEF FindModels, Anchor

\* The nearest model file is kept while the one at home is looked for.
LEMMA NearReadKeeps ==
  ASSUME TypeInv, ReadInv, pc \in {"find home models", "read home models"}, Passing,
         UNCHANGED <<found, aliases>>, edits' <= since' + 1
  PROVE  \E k \in Moments' : NearReadAt(k)'
<1>1. /\ edits <= since + 1 /\ Moments \subseteq Moments'
      /\ \A k \in Moments : FilesAt(k)' = FilesAt(k)
  BY MomentsKeep
<1>2. PICK k \in Moments : NearReadAt(k)
  BY <1>1 DEF ReadInv
<1>3. NearReadAt(k)'
  BY <1>1, <1>2, Keeps DEF Passing
<1> QED BY <1>1, <1>3

\* With the file at home read, or not there, all the aliases are known.
LEMMA KnownReads ==
  ASSUME TypeInv, ReadInv, pc \in {"find home models", "read home models"}, Passing,
         UNCHANGED found, edits' <= since' + 1,
         models[HomeDir].kind \in {"absent", "models"}
  PROVE  \A x : Agree(aliases', Over(AliasesIn(models, HomeDir), aliases), x) =>
                   \E k \in Moments' : KnownAt(k, x)'
<1> SUFFICES ASSUME NEW x, Agree(aliases', Over(AliasesIn(models, HomeDir), aliases), x)
             PROVE  \E k \in Moments' : KnownAt(k, x)'
  OBVIOUS
<1>1. /\ edits <= since + 1 /\ Moments \subseteq Moments'
      /\ \A k \in Moments : FilesAt(k)' = FilesAt(k)
  BY MomentsKeep
<1>2. PICK k \in Moments : NearReadAt(k)
  BY <1>1 DEF ReadInv
<1>3. PICK m \in Moments :
         /\ Readable(FilesAt(m).models, NearAt(m))
         /\ Agree(Over(AliasesIn(models, HomeDir), aliases), Known(FilesAt(m).models, Anchor), x)
  BY <1>1, <1>2, HomeRead
<1>4. Agree(aliases', Known(FilesAt(m).models, Anchor), x)
  BY <1>3, AgreeTrans
<1>5. Anchor' = Anchor /\ NearAt(m)' = NearAt(m) /\ FilesAt(m)' = FilesAt(m)
  BY <1>1, Keeps DEF Anchor, Passing
<1>6. KnownAt(m, x)'
  BY <1>3, <1>4, <1>5 DEF KnownAt
<1> QED BY <1>1, <1>6

LEMMA FindHomeModelsReads ==
  ASSUME TypeInv, ReadInv, CleanInv, FindHomeModels
  PROVE  ReadInv' /\ CleanInv' /\ ResolvedInv'
<1>1. pc = "find home models" /\ pc # "idle" /\ pc \notin Working
  BY DEF FindHomeModels, Working
<1>2. CASE \E code : Fail(code)
  BY <1>2, EndReads DEF Fail
<1> DEFINE place == IF models[HomeDir].kind = "absent" THEN "loaded" ELSE "read home models"
<1>3. CASE modelFile' = HomeDir /\ Goto(place) /\ UNCHANGED <<found, cfg, aliases, answer>>
  <2>1. Goes(place) /\ UNCHANGED answer
    BY <1>1, <1>3, GoesByGoto
  <2>p. /\ place \in {"loaded", "read home models"}
        /\ place = "loaded" => models[HomeDir].kind = "absent"
    OBVIOUS
  <2> HIDE DEF place
  <2>2. CleanInv' /\ resolved' = <<>>
    BY <1>1, <1>3, <2>1, <2>p, LoadingCleans
  <2>3. ASSUME edits' <= since' + 1
        PROVE  /\ \E k \in Moments' : ConfiguredAt(k)'
               /\ \E k \in Moments' : NearReadAt(k)'
               /\ place = "loaded" => \A x : \E k \in Moments' : KnownAt(k, x)'
    <3>1. Passing
      BY <2>1, PassingKinds DEF Goes
    <3>2. \E k \in Moments' : ConfiguredAt(k)'
      BY <1>1, <1>3, <2>3, <3>1, ConfiguredKeeps
    <3>3. \E k \in Moments' : NearReadAt(k)'
      BY <1>1, <1>3, <2>3, <3>1, NearReadKeeps
    <3>4. ASSUME place = "loaded", NEW x PROVE \E k \in Moments' : KnownAt(k, x)'
      <4>1. AliasesIn(models, HomeDir) = <<>> /\ models[HomeDir].kind = "absent"
        BY <2>p, <3>4 DEF AliasesIn
      <4>2. Agree(aliases', Over(<<>>, aliases), x)
        BY <1>3, AgreeOver
      <4>3. /\ pc \in {"find home models", "read home models"}
            /\ models[HomeDir].kind \in {"absent", "models"}
            /\ UNCHANGED found
        BY <1>1, <1>3, <4>1
      <4>4. Agree(aliases', Over(AliasesIn(models, HomeDir), aliases), x)
        BY <4>1, <4>2
      <4> QED BY <2>3, <3>1, <4>3, <4>4, KnownReads
    <3> QED BY <3>2, <3>3, <3>4
  <2>4. pc' = place
    BY <2>1 DEF Goes
  <2>5. ReadInv'
    BY <2>p, <2>3, <2>4 DEF ReadInv, Working
  <2> QED BY <2>2, <2>5 DEF ResolvedInv
<1> QED BY <1>2, <1>3 DEF FindHomeModels

LEMMA AliasesType ==
  ASSUME TypeInv, modelFile \in Dirs, models[modelFile].kind = "models"
  PROVE  Over(models[modelFile].aliases, <<>>) = models[modelFile].aliases
<1>1. models[modelFile] \in ModelFiles
  BY TypeParts
<1> DEFINE f == models[modelFile].aliases
<1>2. f \in [DOMAIN f -> STRING]
  BY <1>1, ModelFilesAssumption
<1> HIDE DEF f
<1>3. Over(f, <<>>) = f
  BY <1>2, OverEmpty
<1> QED BY <1>3 DEF f

LEMMA ReadModelsReads ==
  ASSUME TypeInv, ReadInv, CleanInv, ReadModels
  PROVE  ReadInv' /\ CleanInv' /\ ResolvedInv'
<1>1. pc \in {"read models", "read home models"} /\ pc # "idle" /\ pc \notin Working
  BY DEF ReadModels, Working
<1>2. CASE \E code : Fail(code)
  BY <1>2, EndReads DEF Fail
<1> DEFINE place == IF pc = "read models" THEN "find home models" ELSE "loaded"
<1>3. CASE /\ models[modelFile].kind = "models"
           /\ aliases' = Over(models[modelFile].aliases, aliases)
           /\ Goto(place)
           /\ UNCHANGED <<found, cfg, modelFile, answer>>
  <2>1. Goes(place) /\ UNCHANGED answer
    BY <1>1, <1>3, GoesByGoto
  <2>p. /\ pc = "read models" => place = "find home models"
        /\ pc = "read home models" => place = "loaded"
        /\ place \in {"find home models", "loaded"}
    BY <1>1
  <2> HIDE DEF place
  <2>2. CleanInv' /\ resolved' = <<>>
    BY <1>1, <2>1, <2>p, LoadingCleans
  <2>3. Passing
    BY <2>1, PassingKinds DEF Goes
  <2>4. modelFile \in Dirs
    BY <1>1, TypeParts DEF TypeInv
  <2>5. ASSUME edits' <= since' + 1
        PROVE  \E k \in Moments' : ConfiguredAt(k)'
    BY <1>1, <1>3, <2>3, <2>5, ConfiguredKeeps
  <2>6. ASSUME edits' <= since' + 1, pc = "read models"
        PROVE  \E k \in Moments' : NearReadAt(k)'
    <3>1. /\ edits <= since + 1 /\ Moments \subseteq Moments'
          /\ \A k \in Moments : FilesAt(k)' = FilesAt(k)
      BY <2>3, <2>6, MomentsKeep
    <3>2. PICK k \in Moments : modelFile = NearAt(k)
      BY <2>6, <3>1 DEF ReadInv
    <3>3. modelFile # NoDir
      BY <2>4, HomeIsDir
    <3>4. PICK m \in Moments : /\ NearAt(m) = modelFile
                               /\ FilesAt(m).models[modelFile] = models[modelFile]
      BY <1>1, <1>3, <3>1, <3>2, <3>3, NearRead
    <3>5. aliases = <<>>
      BY <2>6 DEF CleanInv
    <3>6. aliases' = models[modelFile].aliases
      BY <1>3, <2>4, <3>5, AliasesType
    <3>7. NearAt(m)' = modelFile /\ FilesAt(m)' = FilesAt(m)
      BY <1>3, <2>3, <3>1, <3>4, Keeps DEF Passing
    <3>8. AliasesIn(FilesAt(m)'.models, modelFile) = aliases'
      BY <1>3, <3>3, <3>4, <3>6, <3>7 DEF AliasesIn
    <3>9. NearReadAt(m)'
      BY <1>3, <3>4, <3>7, <3>8 DEF NearReadAt
    <3> QED BY <3>1, <3>9
  <2>7. ASSUME edits' <= since' + 1, pc = "read home models", NEW x
        PROVE  \E k \in Moments' : KnownAt(k, x)'
    <3>1. modelFile = HomeDir
      BY <2>7 DEF CleanInv
    <3>2. AliasesIn(models, HomeDir) = models[HomeDir].aliases
      BY <1>3, <3>1, HomeIsDir DEF AliasesIn
    <3>3. Agree(aliases', Over(AliasesIn(models, HomeDir), aliases), x)
      BY <1>3, <3>1, <3>2, AgreeOver
    <3>4. /\ pc \in {"find home models", "read home models"}
          /\ models[HomeDir].kind \in {"absent", "models"}
          /\ UNCHANGED found
      BY <1>3, <2>7, <3>1
    <3> QED BY <2>3, <2>7, <3>3, <3>4, KnownReads
  <2>8. pc' = place
    BY <2>1 DEF Goes
  <2>9. ReadInv'
    BY <1>1, <2>p, <2>5, <2>6, <2>7, <2>8 DEF ReadInv, Working
  <2> QED BY <2>2, <2>9 DEF ResolvedInv
<1> QED BY <1>2, <1>3 DEF ReadModels

\* With the configuration loaded a command goes on, or says something.
LEMMA WorkKinds ==
  ASSUME TypeInv, Work
  PROVE  /\ pc \in Working /\ pc # "idle"
         /\ \/ \E place \in Working \ {"loaded"} : GoesOn(place)
            \/ \E code, report : EndWith(code, report)
<1>p. /\ pc \in {"global skill", "inline skill"} => cmd.kind \in {"run", "skill"}
  BY DEF TypeInv, PlaceInv
<1> DEFINE Ends == \E code, report : EndWith(code, report)
           Goal == /\ pc \in Working /\ pc # "idle"
                   /\ \/ \E place \in Working \ {"loaded"} : GoesOn(place)
                      \/ Ends
<1>f. \A code : Fail(code) => Ends
  BY DEF Fail
<1>g. ASSUME NEW place \in Working \ {"loaded"}, Goto(place), UNCHANGED loading, pc # "idle"
      PROVE  \E p \in Working \ {"loaded"} : GoesOn(p)
  BY <1>g, GoesOnByGoto
<1>s. ASSUME NEW dir, NEW origin, NEW next \in Working \ {"loaded"}, TrySkill(dir, origin, next), pc # "idle"
      PROVE  \E place \in Working \ {"loaded"} : GoesOn(place) \/ Ends
  <2> DEFINE place == IF cmd.kind = "run" THEN "preflight" ELSE "show"
  <2>1. place \in Working \ {"loaded"}
    BY DEF Working
  <2> QED BY <1>f, <1>s, <2>1, TrySkillKinds DEF SkillFound, SkillMissing, SkillRefused
<1>1. CASE ResolveMode
  <2> DEFINE place == CASE cmd.kind = "mode" -> "show"
                        [] cmd.kind = "run" /\ cmd.skill = "" -> "preflight"
                        [] OTHER -> "project skill"
  <2>0. pc = "loaded"
    BY <1>1 DEF ResolveMode
  <2>1. (\E code : Fail(code)) \/ (Goto(place) /\ UNCHANGED loading)
    BY <1>1 DEF ResolveMode
  <2>2. place \in Working \ {"loaded"}
    BY <1>1 DEF Working, ResolveMode
  <2> HIDE DEF place
  <2> QED BY <1>f, <1>g, <2>0, <2>1, <2>2 DEF Working
<1>2. CASE ValidateConfig
  BY <1>2 DEF ValidateConfig, Working
<1>3. CASE Preflight
  BY <1>3 DEF Preflight, Working
<1>4. CASE LoadSkill
  BY <1>4, <1>g DEF LoadSkill, Working
<1>5. CASE ProjectSkill
  BY <1>5, <1>f, <1>s DEF ProjectSkill, Working
<1>6. CASE GlobalSkill
  BY <1>6, <1>g, <1>s DEF GlobalSkill, Working
<1>7. CASE InlineSkill
  BY <1>7, <1>f, <1>g DEF InlineSkill, Working
<1>8. CASE ListProject
  BY <1>8, <1>f, <1>g DEF ListProject, Working
<1>9. CASE ListOthers
  BY <1>9, <1>f, <1>g DEF ListOthers, Working
<1>10. CASE Show
  BY <1>10 DEF Show, Working
<1> QED BY <1>1, <1>2, <1>3, <1>4, <1>5, <1>6, <1>7, <1>8, <1>9, <1>10 DEF Work

LEMMA ResolvedByWork == Work => ResolveMode \/ UNCHANGED resolved \/ resolved' = <<>>
<1>1. \A dir, origin, next : TrySkill(dir, origin, next) => UNCHANGED resolved \/ resolved' = <<>>
  BY DEF TrySkill, Fail, EndWith, answer
<1>2. \A code, report : EndWith(code, report) => resolved' = <<>>
  BY DEF EndWith
<1>3. ValidateConfig \/ Preflight \/ Show => resolved' = <<>>
  BY <1>2 DEF ValidateConfig, Preflight, Show
<1>4. ProjectSkill \/ GlobalSkill => UNCHANGED resolved \/ resolved' = <<>>
  BY <1>1, <1>2 DEF ProjectSkill, GlobalSkill, Fail, answer
<1>5. LoadSkill \/ InlineSkill \/ ListProject \/ ListOthers => UNCHANGED resolved \/ resolved' = <<>>
  BY <1>2 DEF LoadSkill, InlineSkill, ListProject, ListOthers, Fail, answer
<1> QED BY <1>3, <1>4, <1>5 DEF Work

LEMMA ModeKeeps ==
  ASSUME NEW k, FilesAt(k)' = FilesAt(k), UNCHANGED env
  PROVE  /\ \A c : ModeAt(FilesAt(k), c)' = ModeAt(FilesAt(k), c)
         /\ UNCHANGED cmd => ModeAt(FilesAt(k), cmd)' = ModeAt(FilesAt(k), cmd)
BY DEF ModeAt, ReadableAt, ConfigAt, AliasesAt

\* What a mode resolves to depends on one alias, and for that the configuration was
\* read as it is at some moment.
LEMMA ResolvedAtMoment ==
  ASSUME TypeInv, ReadInv, pc \in Working, edits <= since + 1
  PROVE  \E k \in Moments :
            /\ ReadableAt(FilesAt(k), cmd)
            /\ cfg = ApplyEnv(ConfigAt(FilesAt(k), cmd), env)
            /\ ResolveCode(cfg, aliases, cmd.req)
                  = ResolveCode(cfg, AliasesAt(FilesAt(k), cmd), cmd.req)
            /\ Resolve(cfg, aliases, cmd.req)
                  = Resolve(cfg, AliasesAt(FilesAt(k), cmd), cmd.req)
<1> DEFINE x == Model(cfg, cmd.req)
<1> HIDE DEF x
<1>1. \E k \in Moments : ConfiguredAt(k)
  BY DEF ReadInv, Working
<1>2. \E k \in Moments : KnownAt(k, x)
  BY DEF ReadInv, Working
<1>3. PICK k \in Moments : ConfiguredAt(k) /\ KnownAt(k, x)
  BY <1>1, <1>2, SameMoment
<1>4. /\ Readable(FilesAt(k).models, NearAt(k))
      /\ Agree(aliases, Known(FilesAt(k).models, Anchor), x)
  BY <1>3 DEF KnownAt
<1>5. /\ ReadableAt(FilesAt(k), cmd)
      /\ cfg = ApplyEnv(ConfigAt(FilesAt(k), cmd), env)
      /\ AliasesAt(FilesAt(k), cmd) = Known(FilesAt(k).models, Anchor)
  BY <1>3, <1>4, AtMoment
<1>6. Agree(aliases, AliasesAt(FilesAt(k), cmd), Model(cfg, cmd.req))
  BY <1>4, <1>5 DEF x
<1> QED BY <1>5, <1>6, ResolveAgrees

LEMMA ResolveResolves ==
  ASSUME TypeInv, ReadInv, ResolveMode, Still, UNCHANGED <<cmd, since>>
  PROVE  ResolvedInv'
<1> SUFFICES ASSUME resolved' # <<>>, edits' <= since' + 1
             PROVE  \E k \in Moments' : resolved' = ModeAt(FilesAt(k), cmd)'
  BY DEF ResolvedInv
<1>1. pc \in Working
  BY DEF ResolveMode, Working
<1>2. /\ ResolveCode(cfg, aliases, cmd.req) = ExitSuccess
      /\ resolved' = Resolve(cfg, aliases, cmd.req)
  BY DEF ResolveMode, Fail, EndWith
<1>3. Passing
  BY PassingKinds
<1>4. /\ edits <= since + 1 /\ Moments \subseteq Moments'
      /\ \A k \in Moments : FilesAt(k)' = FilesAt(k)
  BY <1>3, MomentsKeep
<1>5. PICK k \in Moments :
         /\ ReadableAt(FilesAt(k), cmd)
         /\ cfg = ApplyEnv(ConfigAt(FilesAt(k), cmd), env)
         /\ ResolveCode(cfg, aliases, cmd.req)
               = ResolveCode(cfg, AliasesAt(FilesAt(k), cmd), cmd.req)
         /\ Resolve(cfg, aliases, cmd.req)
               = Resolve(cfg, AliasesAt(FilesAt(k), cmd), cmd.req)
  BY <1>1, <1>4, ResolvedAtMoment
<1>6. ModeAt(FilesAt(k), cmd) = resolved'
  BY <1>2, <1>5 DEF ModeAt
<1>7. ModeAt(FilesAt(k), cmd)' = resolved'
  BY <1>4, <1>6, ModeKeeps DEF Still
<1> QED BY <1>4, <1>7

LEMMA ResolvedKeeps ==
  ASSUME TypeInv, ResolvedInv, Passing, UNCHANGED resolved
  PROVE  ResolvedInv'
<1> SUFFICES ASSUME resolved' # <<>>, edits' <= since' + 1
             PROVE  \E k \in Moments' : resolved' = ModeAt(FilesAt(k), cmd)'
  BY DEF ResolvedInv
<1>1. /\ edits <= since + 1 /\ Moments \subseteq Moments'
      /\ \A k \in Moments : FilesAt(k)' = FilesAt(k)
  BY MomentsKeep
<1>2. PICK k \in Moments : resolved = ModeAt(FilesAt(k), cmd)
  BY <1>1 DEF ResolvedInv
<1>3. ModeAt(FilesAt(k), cmd)' = resolved
  BY <1>1, <1>2, ModeKeeps DEF Passing
<1> QED BY <1>1, <1>3

LEMMA WorkReads ==
  ASSUME TypeInv, ReadInv, CleanInv, ResolvedInv, Work
  PROVE  ReadInv' /\ CleanInv' /\ ResolvedInv'
<1>1. CASE \E code, report : EndWith(code, report)
  BY <1>1, EndReads
<1>2. CASE \E place \in Working \ {"loaded"} : GoesOn(place)
  <2> PICK place \in Working \ {"loaded"} : GoesOn(place)
    BY <1>2
  <2>1. /\ pc \in Working /\ pc # "idle" /\ pc' = place
        /\ Still /\ UNCHANGED <<cmd, since>> /\ UNCHANGED loading
    BY WorkKinds DEF GoesOn, Goes
  <2>2. Passing
    BY <2>1, PassingKinds
  <2>3. ReadInv'
    BY <2>1, <2>2, ReadKeeps
  <2>4. CleanInv'
    BY <2>1 DEF CleanInv, Working
  <2>5. ResolvedInv'
    <3>1. CASE ResolveMode
      BY <2>1, <3>1, ResolveResolves
    <3>2. CASE UNCHANGED resolved
      BY <2>2, <3>2, ResolvedKeeps
    <3>3. CASE resolved' = <<>>
      BY <3>3 DEF ResolvedInv
    <3> QED BY <3>1, <3>2, <3>3, ResolvedByWork
  <2> QED BY <2>3, <2>4, <2>5
<1> QED BY <1>1, <1>2, WorkKinds

LEMMA ReadInit == Init => ReadInv /\ CleanInv /\ ResolvedInv
BY DEF Init, ReadInv, CleanInv, ResolvedInv, Working

LEMMA ReadStep ==
  TypeInv /\ ReadInv /\ CleanInv /\ ResolvedInv /\ [Next]_vars
     => ReadInv' /\ CleanInv' /\ ResolvedInv'
<1> SUFFICES ASSUME TypeInv, ReadInv, CleanInv, ResolvedInv, [Next]_vars
             PROVE  ReadInv' /\ CleanInv' /\ ResolvedInv'
  OBVIOUS
<1>1. CASE Type
  <2>1. /\ pc = "idle" /\ pc' = "discover" /\ UNCHANGED <<aliases, resolved, source, listing>>
    BY <1>1 DEF Type, loading, answer
  <2> QED BY <2>1 DEF ReadInv, CleanInv, ResolvedInv, Working
<1>2. CASE Edit \/ UNCHANGED vars
  <2>1. /\ UNCHANGED <<pc, cmd, since, found, cfg, modelFile, aliases, resolved, source, listing>>
        /\ UNCHANGED loading
        /\ Edit \/ Still
    BY <1>2 DEF Edit, vars, files, loading, answer, Still
  <2>2. Passing
    BY <2>1, PassingKinds
  <2>3. CleanInv'
    BY <2>1 DEF CleanInv
  <2>4. ReadInv'
    <3>1. CASE pc = "idle"
      BY <2>1, <3>1 DEF ReadInv
    <3>2. CASE pc # "idle"
      <4>1. UNCHANGED loading /\ pc' = pc
        BY <2>1
      <4> QED BY <2>2, <3>2, <4>1, ReadKeeps
    <3> QED BY <3>1, <3>2
  <2> QED BY <2>1, <2>2, <2>3, <2>4, ResolvedKeeps
<1>3. CASE Load
  BY <1>3, DiscoverReads, LoadConfigReads, FindModelsReads, FindHomeModelsReads, ReadModelsReads
     DEF Load
<1>4. CASE Work
  BY <1>4, WorkReads
<1> QED BY <1>1, <1>2, <1>3, <1>4 DEF Next, Work

-----------------------------------------------------------------------------
(***************************************************************************)
(* What the commands have said, by the files of a moment at which nobody   *)
(* wrote.  fs is a value of Now, e an answer in the log.                   *)
(***************************************************************************)
LoadedAt(fs, c) == ApplyEnv(ConfigAt(fs, c), env)

Requests(config) == ModeRequests(config) \cup {NoRequest}

Suits(mode, schema) ==
  Meets([model |-> mode.model, features |-> RequiredModelFeatures(mode, schema)], Catalog)

\* Where a skill is loaded from, "" if it is not.
SkillAt(fs, c) ==
  LET config  == LoadedAt(fs, c)
      dir     == config.settings.skills_dir
      name    == TrimSpace(c.skill)
      project == FileKind(fs.skills[c.dir], name)
      global  == IF dir = NoDir THEN "absent" ELSE FileKind(fs.skills[dir], name)
  IN  IF name = "" THEN ""
      ELSE IF project # "absent" THEN IF project = "file" THEN "project-local" ELSE ""
      ELSE IF global # "absent" THEN IF global = "file" THEN "global" ELSE ""
      ELSE IF name \in config.skills THEN "config-inline" ELSE ""

GlobalList(fs, c) ==
  LET dir == LoadedAt(fs, c).settings.skills_dir
  IN  IF dir = NoDir THEN <<>> ELSE ScanDir(fs.skills[dir], "global")

ToldMode(fs, e) == e.cmd.kind \in {"run", "mode"} => e.mode = ModeAt(fs, e.cmd)

\* A configuration that is said to be valid: every mode resolves, and suits its model.
Fits(fs, c) ==
  /\ ReadableAt(fs, c)
  /\ \A r \in Requests(LoadedAt(fs, c)) :
        /\ ResolveCode(LoadedAt(fs, c), AliasesAt(fs, c), r) = ExitSuccess
        /\ Suits(Resolve(LoadedAt(fs, c), AliasesAt(fs, c), r), FALSE)

ToldFit(fs, e) ==
  e.cmd.kind = "validate" /\ e.code = ExitSuccess /\ e.report = "met" => Fits(fs, e.cmd)

\* Why a run did not start.
ToldRun(fs, e) ==
  e.cmd.kind = "run" /\ e.cmd.skill = "" /\ e.code # ExitSuccess =>
     \/ ~ReadableAt(fs, e.cmd)
     \/ e.code = ResolveCode(LoadedAt(fs, e.cmd), AliasesAt(fs, e.cmd), e.cmd.req)
     \/ /\ ModeAt(fs, e.cmd) # <<>>
        /\ ~Suits(ModeAt(fs, e.cmd), e.cmd.schema)

ToldSkill(fs, e) ==
  /\ e.source # "" => e.source = SkillAt(fs, e.cmd)
  /\ e.cmd.kind = "skill" /\ e.code # ExitSuccess =>
        ~ReadableAt(fs, e.cmd) \/ SkillAt(fs, e.cmd) = ""

ToldList(fs, e) ==
  e.cmd.kind = "skills" /\ e.code = ExitSuccess =>
     /\ ReadableAt(fs, e.cmd)
     /\ fs.skills[e.cmd.dir].kind # "locked"
     /\ LoadedAt(fs, e.cmd).settings.skills_dir # NoDir =>
           fs.skills[LoadedAt(fs, e.cmd).settings.skills_dir].kind # "locked"
     /\ e.listing = Over(Over(ScanDir(fs.skills[e.cmd.dir], "project-local"),
                              GlobalList(fs, e.cmd)),
                         [n \in LoadedAt(fs, e.cmd).skills |-> "config-inline"])

Told(fs, e) ==
  ToldMode(fs, e) /\ ToldFit(fs, e) /\ ToldRun(fs, e) /\ ToldSkill(fs, e) /\ ToldList(fs, e)

Heard(e) ==
  /\ e.until <= e.since + 1 /\ e.mode # <<>> =>
        \E k \in e.since .. e.until : e.mode = ModeAt(FilesAt(k), e.cmd)
  /\ e.since = e.until => \A fs \in {FilesAt(e.since)} : Told(fs, e)

Answers  == {log[i] : i \in DOMAIN log}
HeardInv == \A e \in Answers : Heard(e)

\* What a command has in hand if nobody has written since it began.
HandInv ==
  pc # "idle" /\ edits = since =>
     /\ pc = "read home models" => models[HomeDir].kind # "absent"
     /\ pc \in Working \ {"loaded"} /\ cmd.kind \in {"run", "mode"} => resolved # <<>>
     /\ pc \in {"global skill", "inline skill"} =>
           Wanted # "" /\ FileKind(skills[cmd.dir], Wanted) = "absent"
     /\ pc = "inline skill" /\ cfg.settings.skills_dir # NoDir =>
           FileKind(skills[cfg.settings.skills_dir], Wanted) = "absent"
     /\ source # "" => source = SkillAt(Now, cmd)
     /\ pc = "list others" =>
           /\ skills[cmd.dir].kind # "locked"
           /\ listing = ScanDir(skills[cmd.dir], "project-local")
     /\ pc = "show" /\ cmd.kind = "skills" =>
           /\ skills[cmd.dir].kind # "locked"
           /\ cfg.settings.skills_dir # NoDir =>
                 skills[cfg.settings.skills_dir].kind # "locked"
           /\ listing = Over(Over(ScanDir(skills[cmd.dir], "project-local"), GlobalList(Now, cmd)),
                             [n \in cfg.skills |-> "config-inline"])

-----------------------------------------------------------------------------
(* What has been said stays true. *)

LEMMA EnvKeeps ==
  ASSUME UNCHANGED env, NEW fs, NEW c
  PROVE  /\ LoadedAt(fs, c)' = LoadedAt(fs, c)
         /\ AliasesAt(fs, c)' = AliasesAt(fs, c)
         /\ ReadableAt(fs, c)' <=> ReadableAt(fs, c)
         /\ ModeAt(fs, c)' = ModeAt(fs, c)
         /\ SkillAt(fs, c)' = SkillAt(fs, c)
         /\ GlobalList(fs, c)' = GlobalList(fs, c)
         /\ Fits(fs, c)' <=> Fits(fs, c)
<1>1. LoadedAt(fs, c)' = LoadedAt(fs, c)
  BY DEF LoadedAt, ConfigAt
<1>2. AliasesAt(fs, c)' = AliasesAt(fs, c)
  BY DEF AliasesAt
<1>3. ReadableAt(fs, c)' <=> ReadableAt(fs, c)
  BY DEF ReadableAt
<1>4. ModeAt(fs, c)' = ModeAt(fs, c)
  BY DEF ModeAt, ReadableAt, ConfigAt, AliasesAt
<1>5. SkillAt(fs, c)' = SkillAt(fs, c)
  BY <1>1 DEF SkillAt
<1>6. GlobalList(fs, c)' = GlobalList(fs, c)
  BY <1>1 DEF GlobalList
<1>7. Fits(fs, c)' <=> Fits(fs, c)
  BY <1>1, <1>2, <1>3 DEF Fits
<1> QED BY <1>1, <1>2, <1>3, <1>4, <1>5, <1>6, <1>7

LEMMA ToldKeeps ==
  ASSUME UNCHANGED env, NEW fs, NEW e, Told(fs, e)
  PROVE  Told(fs, e)'
<1> PICK c : c = e.cmd
  OBVIOUS
<1>1. ToldMode(fs, e)' /\ ToldFit(fs, e)'
  BY EnvKeeps DEF Told, ToldMode, ToldFit
<1>2. ToldRun(fs, e)'
  BY EnvKeeps DEF Told, ToldRun
<1>3. ToldSkill(fs, e)'
  BY EnvKeeps DEF Told, ToldSkill
<1>4. ToldList(fs, e)'
  BY EnvKeeps DEF Told, ToldList
<1> QED BY <1>1, <1>2, <1>3, <1>4 DEF Told

LEMMA HeardKeeps ==
  ASSUME UNCHANGED env, \A k \in 0 .. edits : FilesAt(k)' = FilesAt(k), edits \in Nat,
         NEW e, e.since \in Nat, e.until \in e.since .. edits, Heard(e)
  PROVE  Heard(e)'
<1>1. ASSUME e.until <= e.since + 1, e.mode # <<>>
      PROVE  \E k \in e.since .. e.until : e.mode = ModeAt(FilesAt(k), e.cmd)'
  <2>1. PICK k \in e.since .. e.until : e.mode = ModeAt(FilesAt(k), e.cmd)
    BY <1>1 DEF Heard
  <2>2. FilesAt(k)' = FilesAt(k)
    BY <2>1
  <2> QED BY <2>1, <2>2, ModeKeeps
<1>2. ASSUME e.since = e.until, NEW fs, fs = FilesAt(e.since)' PROVE Told(fs, e)'
  <2>1. e.since \in 0 .. edits
    BY <1>2
  <2>2. Told(fs, e)
    BY <1>2, <2>1 DEF Heard
  <2> QED BY <2>2, ToldKeeps
<1> QED BY <1>1, <1>2 DEF Heard

Entry(code, report) ==
  [cmd |-> cmd, since |-> since, until |-> edits, code |-> code, mode |-> resolved,
   source |-> source, listing |-> listing, report |-> report]

LEMMA EntryFields ==
  ASSUME NEW exit, NEW report
  PROVE  LET e == Entry(exit, report)
         IN  /\ e.cmd = cmd /\ e.since = since /\ e.until = edits /\ e.code = exit
             /\ e.mode = resolved /\ e.source = source /\ e.listing = listing
             /\ e.report = report
BY DEF Entry

LEMMA EndAnswers ==
  ASSUME TypeInv, NEW exit, NEW report, EndWith(exit, report)
  PROVE  Answers' = Answers \cup {Entry(exit, report)}
<1> DEFINE e == Entry(exit, report)
<1>1. log' = Append(log, e)
  BY DEF EndWith, Entry
<1> HIDE DEF e
<1>2. PICK S : log \in Seq(S)
  BY DEF TypeInv, IsList
<1>3. /\ DOMAIN log' = 1 .. Len(log) + 1
      /\ DOMAIN log = 1 .. Len(log) /\ Len(log) \in Nat
      /\ \A i \in 1 .. Len(log) : log'[i] = log[i]
      /\ log'[Len(log) + 1] = e
  BY <1>1, <1>2
<1>4. \A i \in DOMAIN log' : i \in DOMAIN log \/ i = Len(log) + 1
  BY <1>3
<1> QED BY <1>3, <1>4 DEF Answers, e

\* An answer joins the others, if it is true when it is given.
LEMMA EndHears ==
  ASSUME TypeInv, ResolvedInv, HeardInv, NEW exit, NEW report, EndWith(exit, report),
         edits = since => Told(Now, Entry(exit, report))
  PROVE  HeardInv'
<1>1. Still
  BY DEF EndWith, Still, files
<1>2. UNCHANGED env /\ edits' = edits /\ edits \in Nat /\ \A k : FilesAt(k)' = FilesAt(k)
  BY <1>1, StillFiles, TypeParts DEF Still
<1>3. ASSUME NEW e \in Answers PROVE Heard(e)'
  <2>1. Heard(e) /\ e.since \in Nat /\ e.until \in e.since .. edits
    BY <1>3 DEF HeardInv, Answers, TypeInv
  <2> QED BY <1>2, <2>1, HeardKeeps
<1>4. ASSUME NEW e, e = Entry(exit, report) PROVE Heard(e)'
  <2>1. /\ e.cmd = cmd /\ e.since = since /\ e.until = edits /\ e.mode = resolved
    BY <1>4, EntryFields
  <2>2. Heard(e)
    <3>1. ASSUME e.until <= e.since + 1, e.mode # <<>>
          PROVE  \E k \in e.since .. e.until : e.mode = ModeAt(FilesAt(k), e.cmd)
      BY <2>1, <3>1 DEF ResolvedInv, Moments
    <3>2. ASSUME e.since = e.until PROVE Told(FilesAt(e.since), e)
      BY <1>4, <2>1, <3>2, MomentsType
    <3> QED BY <3>1, <3>2 DEF Heard
  <2>3. e.since \in Nat /\ e.until \in e.since .. edits
    BY <2>1, TypeParts
  <2> QED BY <1>2, <2>2, <2>3, HeardKeeps
<1>5. \A e \in Answers' : Heard(e)'
  BY <1>3, <1>4, EndAnswers
<1> QED BY <1>5 DEF HeardInv

-----------------------------------------------------------------------------
(* What a command says is true, if nobody writes while it runs. *)

LEMMA ResolveSays ==
  ASSUME NEW config, NEW known, NEW req
  PROVE  Resolve(config, known, req) # <<>>
<1> DEFINE upper == [name             |-> ModeName(config, req),
                     model            |-> ResolveModel(known, Model(config, req)),
                     format           |-> Format(config, req),
                     max_steps        |-> IF req.max_steps >= 0 THEN req.max_steps
                                          ELSE IF config.modes[ModeName(config, req)].max_steps > 0
                                               THEN config.modes[ModeName(config, req)].max_steps
                                               ELSE config.settings.max_steps,
                     max_tool_retries |-> IF req.max_tool_retries >= 0 THEN req.max_tool_retries
                                          ELSE IF config.modes[ModeName(config, req)].max_tool_retries # 0
                                                  \/ ~config.modes[ModeName(config, req)].toolsNil
                                               THEN config.modes[ModeName(config, req)].max_tool_retries
                                               ELSE config.settings.max_tool_retries,
                     timeout          |-> IF req.timeout > 0 THEN req.timeout
                                          ELSE IF config.modes[ModeName(config, req)].timeout > 0
                                               THEN config.modes[ModeName(config, req)].timeout
                                               ELSE config.settings.timeout]
<1>1. Resolve(config, known, req) = Over(upper, config.modes[ModeName(config, req)])
  BY DEF Resolve
<1>2. "name" \in DOMAIN upper
  OBVIOUS
<1> HIDE DEF upper
<1>d. DOMAIN Over(upper, config.modes[ModeName(config, req)])
         = (DOMAIN upper) \cup (DOMAIN config.modes[ModeName(config, req)])
  BY OverDomain, Zenon
<1>3. "name" \in DOMAIN Resolve(config, known, req)
  BY <1>1, <1>2, <1>d
<1>4. DOMAIN <<>> = {}
  OBVIOUS
<1> QED BY <1>3, <1>4

LEMMA OneMoment ==
  ASSUME TypeInv, edits = since, NEW k \in Moments
  PROVE  k = edits /\ FilesAt(k) = Now
<1>1. edits \in Nat /\ k \in edits .. edits
  BY TypeParts DEF Moments
<1>2. k = edits
  BY <1>1
<1> QED BY <1>2, MomentsType

\* The configuration is that of the files as they are.
LEMMA StillRead ==
  ASSUME TypeInv, ReadInv, pc \in Working, edits = since
  PROVE  /\ ReadableAt(Now, cmd)
         /\ cfg = LoadedAt(Now, cmd)
         /\ \A x : Agree(aliases, AliasesAt(Now, cmd), x)
<1>a. edits <= since + 1
  BY TypeParts
<1>0. edits <= since + 1 /\ pc # "idle" /\ pc \notin {"discover", "load config"}
  BY <1>a DEF Working
<1>1. PICK k \in Moments : ConfiguredAt(k)
  BY <1>0 DEF ReadInv
<1>2. \A x : KnownAt(k, x)
  <2> SUFFICES ASSUME NEW x PROVE KnownAt(k, x)
    OBVIOUS
  <2>1. PICK m \in Moments : KnownAt(m, x)
    BY <1>0 DEF ReadInv
  <2>2. m = k
    BY OneMoment
  <2> QED BY <2>1, <2>2
<1>3. /\ Readable(FilesAt(k).models, NearAt(k))
      /\ \A x : Agree(aliases, Known(FilesAt(k).models, Anchor), x)
  BY <1>2 DEF KnownAt
<1>4. /\ ReadableAt(FilesAt(k), cmd)
      /\ cfg = ApplyEnv(ConfigAt(FilesAt(k), cmd), env)
      /\ AliasesAt(FilesAt(k), cmd) = Known(FilesAt(k).models, Anchor)
  BY <1>1, <1>3, AtMoment
<1>5. FilesAt(k) = Now
  BY OneMoment
<1> QED BY <1>3, <1>4, <1>5 DEF LoadedAt

LEMMA StillResolved ==
  ASSUME TypeInv, ResolvedInv, resolved # <<>>, edits = since
  PROVE  resolved = ModeAt(Now, cmd)
<1>1. edits <= since + 1
  BY TypeParts
<1>2. PICK k \in Moments : resolved = ModeAt(FilesAt(k), cmd)
  BY <1>1 DEF ResolvedInv
<1> QED BY <1>2, OneMoment

LEMMA StillResolves ==
  ASSUME TypeInv, ReadInv, pc \in Working, edits = since
  PROVE  \A r : /\ ResolveCode(cfg, aliases, r)
                      = ResolveCode(LoadedAt(Now, cmd), AliasesAt(Now, cmd), r)
                /\ Resolve(cfg, aliases, r)
                      = Resolve(LoadedAt(Now, cmd), AliasesAt(Now, cmd), r)
<1> SUFFICES ASSUME NEW r
             PROVE  /\ ResolveCode(cfg, aliases, r) = ResolveCode(cfg, AliasesAt(Now, cmd), r)
                    /\ Resolve(cfg, aliases, r) = Resolve(cfg, AliasesAt(Now, cmd), r)
  BY StillRead
<1> QED BY StillRead, ResolveAgrees

\* An answer, part by part.
LEMMA ToldEntry ==
  ASSUME NEW exit, NEW report,
         cmd.kind \in {"run", "mode"} => resolved = ModeAt(Now, cmd),
         cmd.kind = "validate" /\ exit = ExitSuccess /\ report = "met" => Fits(Now, cmd),
         cmd.kind = "run" /\ cmd.skill = "" /\ exit # ExitSuccess =>
            \/ ~ReadableAt(Now, cmd)
            \/ exit = ResolveCode(LoadedAt(Now, cmd), AliasesAt(Now, cmd), cmd.req)
            \/ ModeAt(Now, cmd) # <<>> /\ ~Suits(ModeAt(Now, cmd), cmd.schema),
         source # "" => source = SkillAt(Now, cmd),
         cmd.kind = "skill" /\ exit # ExitSuccess =>
            ~ReadableAt(Now, cmd) \/ SkillAt(Now, cmd) = "",
         cmd.kind = "skills" /\ exit = ExitSuccess => ToldList(Now, Entry(exit, report))
  PROVE  Told(Now, Entry(exit, report))
<1>0. LET e == Entry(exit, report)
      IN  /\ e.cmd = cmd /\ e.since = since /\ e.until = edits /\ e.code = exit
          /\ e.mode = resolved /\ e.source = source /\ e.listing = listing
          /\ e.report = report
  BY EntryFields
<1>1. ToldMode(Now, Entry(exit, report))
  BY <1>0 DEF ToldMode
<1>2. ToldFit(Now, Entry(exit, report))
  BY <1>0 DEF ToldFit
<1>3. ToldRun(Now, Entry(exit, report))
  BY <1>0 DEF ToldRun
<1>4. ToldSkill(Now, Entry(exit, report))
  BY <1>0 DEF ToldSkill
<1>5. ToldList(Now, Entry(exit, report))
  BY <1>0 DEF ToldList
<1> QED BY <1>1, <1>2, <1>3, <1>4, <1>5 DEF Told

LEMMA ExitsDiffer ==
  ExitRuntime # ExitSuccess /\ ExitCLIUsage # ExitSuccess /\ ExitCLIUsage # ExitRuntime
BY DEF ExitRuntime, ExitSuccess, ExitCLIUsage

\* While the configuration is loaded, only what cannot be read stops a command.
LEMMA ToldUnread ==
  ASSUME ~ReadableAt(Now, cmd), resolved = <<>>, source = "", NEW report
  PROVE  Told(Now, Entry(ExitRuntime, report))
<1>1. ExitRuntime # ExitSuccess
  BY ExitsDiffer, Zenon
<1>2. ModeAt(Now, cmd) = <<>>
  BY DEF ModeAt
<1> PICK exit : exit = ExitRuntime
  OBVIOUS
<1>3. /\ cmd.kind \in {"run", "mode"} => resolved = ModeAt(Now, cmd)
      /\ source # "" => source = SkillAt(Now, cmd)
  BY <1>2
<1>4. exit # ExitSuccess /\ ~ReadableAt(Now, cmd)
  BY <1>1
<1>5. Told(Now, Entry(exit, report))
  BY <1>3, <1>4, ToldEntry
<1> QED BY <1>5

LEMMA LogKeeps ==
  ASSUME TypeInv, HeardInv, Passing, UNCHANGED log
  PROVE  HeardInv'
<1>1. Answers' = Answers
  BY DEF Answers
<1>2. ASSUME NEW e \in Answers PROVE Heard(e)'
  <2>1. Heard(e) /\ e.since \in Nat /\ e.until \in e.since .. edits
    BY <1>2 DEF HeardInv, Answers, TypeInv
  <2> QED BY <2>1, TypeParts, HeardKeeps DEF Passing
<1> QED BY <1>1, <1>2 DEF HeardInv

LEMMA EndHands ==
  ASSUME NEW exit, NEW report, EndWith(exit, report)
  PROVE  HandInv'
BY DEF EndWith, HandInv

LEMMA LoadingHands ==
  ASSUME CleanInv, pc \notin Working, NEW place \in {"load config", "find models", "read models",
                                                     "find home models", "read home models", "loaded"},
         Goes(place), UNCHANGED answer,
         place = "read home models" => models[HomeDir].kind # "absent"
  PROVE  HandInv'
<1>1. source' = "" /\ pc' = place /\ models' = models
  BY DEF CleanInv, Goes, Still, answer
<1> QED BY <1>1 DEF HandInv, Working

\* A command that cannot read what it needs fails, and is right to.
LEMMA UnreadHears ==
  ASSUME TypeInv, CleanInv, ResolvedInv, HeardInv, pc \notin Working, NEW exit, Fail(exit),
         exit = ExitRuntime, edits = since => ~ReadableAt(Now, cmd)
  PROVE  HandInv' /\ HeardInv'
<1>1. resolved = <<>> /\ source = ""
  BY DEF CleanInv
<1>2. edits = since => Told(Now, Entry(exit, "none"))
  BY <1>1, ToldUnread
<1> QED BY <1>2, EndHears, EndHands DEF Fail

LEMMA LoadHears ==
  ASSUME TypeInv, ReadInv, CleanInv, ResolvedInv, HeardInv, HandInv, Load
  PROVE  HandInv' /\ HeardInv'
<1>g. ASSUME NEW place \in {"load config", "find models", "read models",
                            "find home models", "read home models", "loaded"},
             Goto(place), UNCHANGED answer, pc # "idle", pc \notin Working,
             place = "read home models" => models[HomeDir].kind # "absent"
      PROVE  HandInv' /\ HeardInv'
  <2>1. Goes(place)
    BY <1>g, GoesByGoto
  <2>2. HandInv'
    BY <1>g, <2>1, LoadingHands
  <2>3. Passing /\ UNCHANGED log
    BY <2>1, PassingKinds DEF Goes
  <2> QED BY <2>2, <2>3, LogKeeps
<1>e. edits = since => edits <= since + 1
  BY TypeParts
<1>c. edits = since /\ pc \notin {"idle", "discover", "load config"} =>
         /\ found = DiscoverConfigPath(cmd.config, cmd.dir, Now.configs)
         /\ Anchor = ModelDiscoveryAnchor(found, cmd.dir)
  <2> SUFFICES ASSUME edits = since, pc \notin {"idle", "discover", "load config"}
               PROVE  found = DiscoverConfigPath(cmd.config, cmd.dir, Now.configs)
    BY DEF Anchor
  <2>1. edits <= since + 1
    BY <1>e
  <2>2. PICK k \in Moments : ConfiguredAt(k)
    BY <2>1 DEF ReadInv
  <2> QED BY <2>2, OneMoment DEF ConfiguredAt, DiscoveredAt
<1>n. Now.configs = configs /\ Now.models = models
  BY DEF Now
<1>1. CASE Discover
  <2> DEFINE path == DiscoverConfigPath(cmd.config, cmd.dir, configs)
  <2>0. pc = "discover" /\ pc \notin Working
    BY <1>1 DEF Discover, Working
  <2>1. CASE Locked(path.load, configs) /\ Fail(ExitRuntime)
    <3>1. ~ReadableAt(Now, cmd)
      BY <1>n, <2>1 DEF ReadableAt, Locked
    <3> QED BY <2>0, <2>1, <3>1, UnreadHears
  <2>2. CASE Goto("load config") /\ UNCHANGED answer
    BY <1>g, <2>0, <2>2
  <2> QED BY <1>1, <2>1, <2>2 DEF Discover
<1>2. CASE LoadConfig
  <2>0. pc = "load config" /\ pc \notin Working
    BY <1>2 DEF LoadConfig, Working
  <2>1. CASE /\ ~(found.load # NoDir => configs[found.load].kind = "config") \/ env.bad
             /\ Fail(ExitRuntime)
    <3>1. ASSUME edits = since PROVE ~ReadableAt(Now, cmd)
      <4>1. edits <= since + 1
        BY <3>1, TypeParts
      <4>2. PICK k \in Moments : DiscoveredAt(k)
        BY <2>0, <4>1 DEF ReadInv
      <4>3. found = DiscoverConfigPath(cmd.config, cmd.dir, Now.configs)
        BY <3>1, <4>2, OneMoment DEF DiscoveredAt
      <4> QED BY <1>n, <2>1, <4>3 DEF ReadableAt
    <3> QED BY <2>0, <2>1, <3>1, UnreadHears
  <2>2. CASE Goto("find models") /\ UNCHANGED answer
    BY <1>g, <2>0, <2>2
  <2> QED BY <1>2, <2>1, <2>2 DEF LoadConfig
<1>3. CASE FindModels
  <2>0. pc = "find models" /\ pc \notin Working
    BY <1>3 DEF FindModels, Working
  <2> DEFINE path  == FindUpward(ModelDiscoveryAnchor(found, cmd.dir), models)
             place == IF path = NoDir THEN "find home models" ELSE "read models"
  <2>1. CASE Locked(path, models) /\ Fail(ExitRuntime)
    <3>1. ASSUME edits = since PROVE ~ReadableAt(Now, cmd)
      BY <1>c, <1>n, <2>0, <2>1, <3>1 DEF ReadableAt, Locked
    <3> QED BY <2>0, <2>1, <3>1, UnreadHears
  <2>2. CASE Goto(place) /\ UNCHANGED answer
    <3>1. place \in {"find home models", "read models"}
      OBVIOUS
    <3> HIDE DEF place
    <3> QED BY <1>g, <2>0, <2>2, <3>1
  <2> QED BY <1>3, <2>1, <2>2 DEF FindModels
<1>4. CASE FindHomeModels
  <2>0. pc = "find home models" /\ pc \notin Working
    BY <1>4 DEF FindHomeModels, Working
  <2> DEFINE place == IF models[HomeDir].kind = "absent" THEN "loaded" ELSE "read home models"
  <2>1. CASE Locked(HomeDir, models) /\ Fail(ExitRuntime)
    <3>1. ~ReadableAt(Now, cmd)
      BY <1>n, <2>1 DEF ReadableAt, Locked
    <3> QED BY <2>0, <2>1, <3>1, UnreadHears
  <2>2. CASE Goto(place) /\ UNCHANGED answer
    <3>1. /\ place \in {"loaded", "read home models"}
          /\ place = "read home models" => models[HomeDir].kind # "absent"
      OBVIOUS
    <3> HIDE DEF place
    <3> QED BY <1>g, <2>0, <2>2, <3>1
  <2> QED BY <1>4, <2>1, <2>2 DEF FindHomeModels
<1>5. CASE ReadModels
  <2>0. pc \in {"read models", "read home models"} /\ pc \notin Working
    BY <1>5 DEF ReadModels, Working
  <2> DEFINE place == IF pc = "read models" THEN "find home models" ELSE "loaded"
  <2>1. CASE models[modelFile].kind # "models" /\ Fail(ExitRuntime)
    <3>1. ASSUME edits = since PROVE ~ReadableAt(Now, cmd)
      <4>1. edits <= since + 1
        BY <3>1, TypeParts
      <4>2. CASE pc = "read models"
        <5>1. PICK k \in Moments : modelFile = NearAt(k)
          BY <4>1, <4>2 DEF ReadInv
        <5>2. modelFile = FindUpward(Anchor, Now.models) /\ modelFile # NoDir
          BY <3>1, <4>2, <5>1, OneMoment DEF NearAt, TypeInv
        <5> QED BY <1>c, <1>n, <2>1, <3>1, <4>2, <5>2 DEF ReadableAt
      <4>3. CASE pc = "read home models"
        <5>1. modelFile = HomeDir /\ models[HomeDir].kind # "absent"
          BY <3>1, <4>3 DEF CleanInv, HandInv
        <5> QED BY <1>n, <2>1, <5>1 DEF ReadableAt
      <4> QED BY <2>0, <4>2, <4>3
    <3> QED BY <2>0, <2>1, <3>1, UnreadHears
  <2>2. CASE Goto(place) /\ UNCHANGED answer
    <3>1. place \in {"loaded", "find home models"}
      OBVIOUS
    <3> HIDE DEF place
    <3> QED BY <1>g, <2>0, <2>2, <3>1
  <2> QED BY <1>5, <2>1, <2>2 DEF ReadModels
<1> QED BY <1>1, <1>2, <1>3, <1>4, <1>5 DEF Load

LEMMA NowKeeps ==
  ASSUME Still, UNCHANGED cmd
  PROVE  SkillAt(Now, cmd)' = SkillAt(Now, cmd) /\ GlobalList(Now, cmd)' = GlobalList(Now, cmd)
<1>1. Now' = Now /\ env' = env /\ cmd' = cmd
  BY StillFiles DEF Still
<1> QED BY <1>1 DEF SkillAt, GlobalList, LoadedAt, ConfigAt

\* Where the mode has been resolved, an answer of a run or of `mode show` has it.
LEMMA ResolvedTells ==
  ASSUME TypeInv, ResolvedInv, HandInv, edits = since, pc \in Working \ {"loaded"}
  PROVE  cmd.kind \in {"run", "mode"} => resolved # <<>> /\ resolved = ModeAt(Now, cmd)
<1>1. pc # "idle"
  BY DEF Working
<1>2. cmd.kind \in {"run", "mode"} => resolved # <<>>
  BY <1>1 DEF HandInv
<1> QED BY <1>2, StillResolved

LEMMA SourceTells ==
  ASSUME HandInv, edits = since, pc \in Working
  PROVE  source # "" => source = SkillAt(Now, cmd)
BY DEF HandInv, Working

LEMMA ResolveHears ==
  ASSUME TypeInv, ReadInv, CleanInv, ResolvedInv, HandInv, HeardInv, ResolveMode
  PROVE  HandInv' /\ HeardInv'
<1>0. /\ pc = "loaded" /\ pc \in Working /\ pc # "idle" /\ cmd.kind \in {"run", "mode"}
      /\ source = "" /\ resolved = <<>>
  BY DEF ResolveMode, CleanInv, Working
<1> DEFINE place == CASE cmd.kind = "mode" -> "show"
                      [] cmd.kind = "run" /\ cmd.skill = "" -> "preflight"
                      [] OTHER -> "project skill"
<1>1. CASE /\ ResolveCode(cfg, aliases, cmd.req) # ExitSuccess
           /\ Fail(ResolveCode(cfg, aliases, cmd.req))
  <2> PICK exit : exit = ResolveCode(cfg, aliases, cmd.req)
    OBVIOUS
  <2>1. ASSUME edits = since PROVE Told(Now, Entry(exit, "none"))
    <3>1. /\ exit = ResolveCode(LoadedAt(Now, cmd), AliasesAt(Now, cmd), cmd.req)
          /\ exit # ExitSuccess
      BY <1>0, <1>1, <2>1, StillResolves
    <3>2. ModeAt(Now, cmd) = <<>>
      BY <3>1 DEF ModeAt, LoadedAt
    <3>3. cmd.kind \notin {"validate", "skill", "skills"}
      BY <1>0
    <3> QED BY <1>0, <3>1, <3>2, <3>3, ToldEntry
  <2>2. EndWith(exit, "none")
    BY <1>1 DEF Fail
  <2> QED BY <2>1, <2>2, EndHears, EndHands
<1>2. CASE /\ resolved' = Resolve(cfg, aliases, cmd.req)
           /\ Goto(place)
           /\ UNCHANGED <<loading, source, listing>>
  <2>1. /\ place \in {"show", "preflight", "project skill"}
    <3>1. CASE cmd.kind = "mode"
      BY <3>1
    <3>2. CASE cmd.kind = "run" /\ cmd.skill = ""
      BY <3>2
    <3>3. CASE cmd.kind = "run" /\ cmd.skill # ""
      BY <3>3
    <3> QED BY <1>0, <3>1, <3>2, <3>3
  <2> HIDE DEF place
  <2>2. Goes(place)
    BY <1>0, <1>2, GoesByGoto
  <2>3. resolved' # <<>>
    BY <1>2, ResolveSays
  <2>4. HandInv'
    <3>1. /\ cmd' = cmd /\ source' = "" /\ pc' = place
      BY <1>0, <1>2, <2>2 DEF Goes
    <3>2. cmd'.kind # "skills"
      BY <1>0, <3>1
    <3> QED BY <2>1, <2>3, <3>1, <3>2 DEF HandInv
  <2>5. HeardInv'
    BY <2>2, PassingKinds, LogKeeps DEF Goes
  <2> QED BY <2>4, <2>5
<1> QED BY <1>1, <1>2 DEF ResolveMode

\* The modes that were checked are those of the files.
LEMMA CheckedFits ==
  ASSUME TypeInv, ReadInv, pc \in Working, edits = since,
         RequirementErrors(cfg, aliases) = {},
         \A r \in ConfigModelRequirements(cfg, aliases) : Meets(r, Catalog)
  PROVE  Fits(Now, cmd)
<1> DEFINE default == cfg.settings.default_model
           first   == IF default = "" THEN ExitSuccess ELSE ModelCode(aliases, default, FALSE)
           second  == ResolveCode(cfg, aliases, NoRequest)
           others  == {ResolveCode(cfg, aliases, r) : r \in ModeRequests(cfg)} \ {ExitSuccess}
<1>1. RequirementErrors(cfg, aliases) = IF first # ExitSuccess THEN {first}
                                        ELSE IF second # ExitSuccess THEN {second} ELSE others
  BY Zenon DEF RequirementErrors
<1>2. second = ExitSuccess /\ others = {}
  <2> HIDE DEF first, second, others
  <2> QED BY <1>1
<1>3. \A r \in Requests(cfg) : ResolveCode(cfg, aliases, r) = ExitSuccess
  BY <1>2 DEF Requests
<1>4. ASSUME NEW r \in Requests(cfg)
      PROVE  Suits(Resolve(cfg, aliases, r), FALSE)
  <2> DEFINE mode == Resolve(cfg, aliases, r)
  <2>1. [model |-> mode.model, features |-> RequiredModelFeatures(mode, FALSE)]
           \in ConfigModelRequirements(cfg, aliases)
    BY <1>4, Zenon DEF ConfigModelRequirements, Requests
  <2> QED BY <2>1 DEF Suits
<1>5. ReadableAt(Now, cmd) /\ cfg = LoadedAt(Now, cmd) /\ ConfigOK(cfg)
  BY StillRead DEF TypeInv
<1>6. \A r : /\ ResolveCode(cfg, aliases, r)
                      = ResolveCode(LoadedAt(Now, cmd), AliasesAt(Now, cmd), r)
             /\ Resolve(cfg, aliases, r)
                      = Resolve(LoadedAt(Now, cmd), AliasesAt(Now, cmd), r)
  BY StillResolves
<1>7. \A r \in Requests(LoadedAt(Now, cmd)) :
         /\ ResolveCode(LoadedAt(Now, cmd), AliasesAt(Now, cmd), r) = ExitSuccess
         /\ Suits(Resolve(LoadedAt(Now, cmd), AliasesAt(Now, cmd), r), FALSE)
  <2> SUFFICES ASSUME NEW r \in Requests(LoadedAt(Now, cmd))
               PROVE  /\ ResolveCode(LoadedAt(Now, cmd), AliasesAt(Now, cmd), r) = ExitSuccess
                      /\ Suits(Resolve(LoadedAt(Now, cmd), AliasesAt(Now, cmd), r), FALSE)
    OBVIOUS
  <2>1. r \in Requests(cfg)
    BY <1>5
  <2>2. ResolveCode(cfg, aliases, r) = ExitSuccess /\ Suits(Resolve(cfg, aliases, r), FALSE)
    BY <1>3, <1>4, <2>1
  <2> QED BY <1>6, <2>2
<1> QED BY <1>5, <1>7 DEF Fits

LEMMA ValidateHears ==
  ASSUME TypeInv, ReadInv, CleanInv, ResolvedInv, HandInv, HeardInv, ValidateConfig
  PROVE  HandInv' /\ HeardInv'
<1>0. /\ pc \in Working /\ cmd.kind \in {"validate", "doctor"} /\ source = ""
  BY DEF ValidateConfig, CleanInv, Working
<1>k. cmd.kind \notin {"run", "mode", "skill", "skills"}
  BY <1>0
<1>t. ASSUME NEW exit, NEW report, EndWith(exit, report),
             report = "met" /\ edits = since => Fits(Now, cmd)
      PROVE  HandInv' /\ HeardInv'
  <2>1. edits = since => Told(Now, Entry(exit, report))
    BY <1>0, <1>k, <1>t, ToldEntry
  <2> QED BY <1>t, <2>1, EndHears, EndHands
<1>1. CASE \E exit : EndWith(exit, "unmet")
  BY <1>t, <1>1
<1>2. CASE /\ RequirementErrors(cfg, aliases) = {}
           /\ \E r \in Reports(ConfigModelRequirements(cfg, aliases)) : \E exit : EndWith(exit, r)
  <2>0. PICK r \in Reports(ConfigModelRequirements(cfg, aliases)) : \E exit : EndWith(exit, r)
    BY <1>2
  <2>1. PICK exit : EndWith(exit, r)
    BY <2>0
  <2>2. r = "met" => \A q \in ConfigModelRequirements(cfg, aliases) : Meets(q, Catalog)
    BY <2>0 DEF Reports
  <2>3. r = "met" /\ edits = since => Fits(Now, cmd)
    BY <1>0, <1>2, <2>2, CheckedFits
  <2> QED BY <1>t, <2>1, <2>3
<1> QED BY <1>1, <1>2 DEF ValidateConfig

LEMMA PreflightHears ==
  ASSUME TypeInv, ReadInv, CleanInv, ResolvedInv, HandInv, HeardInv, Preflight
  PROVE  HandInv' /\ HeardInv'
<1>0. pc = "preflight" /\ pc \in Working \ {"loaded"} /\ cmd.kind = "run"
  BY DEF Preflight, Working, TypeInv, PlaceInv
<1> DEFINE asked == {[model    |-> resolved.model,
                      features |-> RequiredModelFeatures(resolved, cmd.schema)]}
<1>1. PICK r \in Reports(asked) : EndWith(IF r = "unmet" THEN ExitRuntime ELSE ExitSuccess, r)
  BY DEF Preflight
<1>2. PICK exit : exit = IF r = "unmet" THEN ExitRuntime ELSE ExitSuccess
  OBVIOUS
<1>3. exit # ExitSuccess => ~Suits(resolved, cmd.schema)
  <2>1. exit # ExitSuccess => r = "unmet"
    BY <1>2
  <2>2. r = "unmet" => ~(\A q \in asked : Meets(q, Catalog))
    BY <1>1 DEF Reports
  <2> QED BY <2>1, <2>2 DEF Suits
<1>4. ASSUME edits = since PROVE Told(Now, Entry(exit, r))
  <2>1. resolved # <<>> /\ resolved = ModeAt(Now, cmd)
    BY <1>0, <1>4, ResolvedTells
  <2>2. source # "" => source = SkillAt(Now, cmd)
    BY <1>0, <1>4, SourceTells
  <2>3. cmd.kind \notin {"validate", "skill", "skills"}
    BY <1>0
  <2> QED BY <1>3, <2>1, <2>2, <2>3, ToldEntry
<1> QED BY <1>1, <1>2, <1>4, EndHears, EndHands

LEMMA SkillsNow == Now.skills = skills
BY DEF Now

\* Where a skill is looked for, nothing was found so far.
LEMMA TrySkillHears ==
  ASSUME TypeInv, ReadInv, CleanInv, ResolvedInv, HandInv, HeardInv,
         NEW dir, NEW origin, NEW next \in {"global skill", "inline skill"},
         TrySkill(dir, origin, next), pc \in {"project skill", "global skill"},
         edits = since => Wanted # "",
         edits = since /\ FileKind(skills[dir], Wanted) # "absent" =>
            SkillAt(Now, cmd) = IF FileKind(skills[dir], Wanted) = "file" THEN origin ELSE "",
         edits = since /\ FileKind(skills[dir], Wanted) = "absent" =>
            /\ FileKind(skills[cmd.dir], Wanted) = "absent"
            /\ next = "inline skill" => cfg.settings.skills_dir = dir
  PROVE  HandInv' /\ HeardInv'
<1>0. /\ pc \in Working \ {"loaded"} /\ pc # "idle" /\ cmd.kind \in {"run", "skill"}
      /\ (cmd.kind = "run" => cmd.skill # "") /\ next \in Working
  BY DEF Working, TypeInv, PlaceInv
<1>s. edits = since => (source # "" => source = SkillAt(Now, cmd))
  BY <1>0, SourceTells
<1>m. edits = since => (cmd.kind = "run" => resolved # <<>> /\ resolved = ModeAt(Now, cmd))
  BY <1>0, ResolvedTells
<1>1. CASE SkillFound(dir, origin)
  <2> PICK place : place \in {"preflight", "show"} /\ GoesOn(place)
    BY <1>1 DEF SkillFound
  <2>1. Still /\ UNCHANGED <<cmd, since, log>> /\ UNCHANGED loading /\ pc' = place
    BY DEF GoesOn, Goes
  <2>2. source' = origin /\ UNCHANGED resolved
    BY <1>1 DEF SkillFound
  <2>3. edits' = edits /\ since' = since
    BY <2>1, StillFiles
  <2>4. SkillAt(Now, cmd)' = SkillAt(Now, cmd)
    BY <2>1, NowKeeps
  <2>5. edits = since => SkillAt(Now, cmd) = origin
    BY <1>1 DEF SkillFound
  <2>6. HandInv'
    BY <1>0, <1>m, <2>1, <2>2, <2>3, <2>4, <2>5 DEF HandInv
  <2>7. HeardInv'
    BY <2>1, PassingKinds, LogKeeps
  <2> QED BY <2>6, <2>7
<1>2. CASE SkillMissing(dir, next)
  <2>1. /\ Still /\ UNCHANGED <<cmd, since, log>> /\ UNCHANGED loading /\ pc' = next
        /\ UNCHANGED answer
    BY <1>2 DEF SkillMissing, GoesOn, Goes
  <2>2. UNCHANGED <<source, resolved, cfg, skills>>
    BY <2>1 DEF answer, loading, Still
  <2>3. edits' = edits /\ since' = since
    BY <2>1, StillFiles
  <2>4. SkillAt(Now, cmd)' = SkillAt(Now, cmd)
    BY <2>1, NowKeeps
  <2>5. FileKind(skills[dir], Wanted) = "absent"
    BY <1>2 DEF SkillMissing
  <2>6. edits = since => /\ FileKind(skills[cmd.dir], Wanted) = "absent"
                         /\ next = "inline skill" => cfg.settings.skills_dir = dir
    BY <2>5
  <2>7. HandInv'
    BY <1>0, <1>m, <1>s, <2>1, <2>2, <2>3, <2>4, <2>5, <2>6 DEF HandInv, Wanted
  <2>8. HeardInv'
    BY <2>1, PassingKinds, LogKeeps
  <2> QED BY <2>7, <2>8
<1>3. CASE SkillRefused(dir)
  <2>1. /\ FileKind(skills[dir], Wanted) \in {"locked", "dir"}
        /\ EndWith(ExitRuntime, "none")
    BY <1>3 DEF SkillRefused, Fail
  <2> PICK exit : exit = ExitRuntime
    OBVIOUS
  <2>2. ASSUME edits = since PROVE Told(Now, Entry(exit, "none"))
    <3>1. SkillAt(Now, cmd) = ""
      BY <2>1, <2>2
    <3>2. cmd.kind \notin {"mode", "validate", "skills"} /\ exit # ExitSuccess
      BY <1>0, ExitsDiffer
    <3> QED BY <1>0, <1>m, <1>s, <2>2, <3>1, <3>2, ToldEntry
  <2> QED BY <2>1, <2>2, EndHears, EndHands
<1> QED BY <1>0, <1>1, <1>2, <1>3, TrySkillKinds

LEMMA ProjectSkillHears ==
  ASSUME TypeInv, ReadInv, CleanInv, ResolvedInv, HandInv, HeardInv, ProjectSkill
  PROVE  HandInv' /\ HeardInv'
<1>0. /\ pc = "project skill" /\ pc \in Working \ {"loaded"} /\ pc # "idle"
      /\ cmd.kind \in {"run", "skill"} /\ (cmd.kind = "run" => cmd.skill # "")
  BY DEF ProjectSkill, Working, TypeInv, PlaceInv
<1>n. CASE Wanted = "" /\ Fail(ExitRuntime)
  <2> PICK exit : exit = ExitRuntime
    OBVIOUS
  <2>1. ASSUME edits = since PROVE Told(Now, Entry(exit, "none"))
    <3>s. source # "" => source = SkillAt(Now, cmd)
      BY <1>0, <2>1, SourceTells
    <3>m. cmd.kind = "run" => resolved # <<>> /\ resolved = ModeAt(Now, cmd)
      BY <1>0, <2>1, ResolvedTells
    <3>1. SkillAt(Now, cmd) = ""
      BY <1>n DEF SkillAt, Wanted
    <3>2. cmd.kind \notin {"mode", "validate", "skills"} /\ exit # ExitSuccess
      BY <1>0, ExitsDiffer
    <3> QED BY <1>0, <3>m, <3>s, <2>1, <3>1, <3>2, ToldEntry
  <2> QED BY <1>n, <2>1, EndHears, EndHands DEF Fail
<1>t. CASE Wanted # "" /\ TrySkill(cmd.dir, "project-local", "global skill")
  <2> PICK dir, origin, next : dir = cmd.dir /\ origin = "project-local" /\ next = "global skill"
    OBVIOUS
  <2>1. FileKind(skills[dir], Wanted) # "absent" =>
           SkillAt(Now, cmd) = IF FileKind(skills[dir], Wanted) = "file" THEN origin ELSE ""
    BY <1>t, SkillsNow DEF SkillAt, Wanted
  <2>2. next # "inline skill" /\ next \in {"global skill", "inline skill"}
    OBVIOUS
  <2>3. TrySkill(dir, origin, next) /\ Wanted # ""
    BY <1>t
  <2> QED BY <1>0, <2>1, <2>2, <2>3, TrySkillHears
<1> QED BY <1>n, <1>t DEF ProjectSkill, Wanted

\* Steps that neither end the command nor find a skill.
LEMMA GoesHears ==
  ASSUME TypeInv, HeardInv, NEW place, GoesOn(place)
  PROVE  /\ HeardInv' /\ edits' = edits /\ since' = since /\ pc' = place
         /\ UNCHANGED <<cmd, cfg, skills>>
         /\ SkillAt(Now, cmd)' = SkillAt(Now, cmd)
         /\ GlobalList(Now, cmd)' = GlobalList(Now, cmd)
<1>1. Still /\ UNCHANGED <<cmd, since, log>> /\ UNCHANGED loading /\ pc' = place
  BY DEF GoesOn, Goes
<1>2. HeardInv'
  BY <1>1, PassingKinds, LogKeeps
<1>3. UNCHANGED <<cmd, cfg, skills>>
  BY <1>1 DEF Still, loading
<1> QED BY <1>1, <1>2, <1>3, NowKeeps, StillFiles

LEMMA GlobalSkillHears ==
  ASSUME TypeInv, ReadInv, CleanInv, ResolvedInv, HandInv, HeardInv, GlobalSkill
  PROVE  HandInv' /\ HeardInv'
<1>0. /\ pc = "global skill" /\ pc \in Working \ {"loaded"} /\ pc # "idle"
      /\ cmd.kind \in {"run", "skill"}
  BY DEF GlobalSkill, Working, TypeInv, PlaceInv
<1> PICK dir : dir = cfg.settings.skills_dir
  OBVIOUS
<1>1. edits = since => /\ Wanted # "" /\ FileKind(skills[cmd.dir], Wanted) = "absent"
                       /\ LoadedAt(Now, cmd).settings.skills_dir = dir
  BY <1>0, StillRead DEF HandInv
<1>2. CASE dir # NoDir /\ TrySkill(dir, "global", "inline skill")
  <2> PICK origin, next : origin = "global" /\ next = "inline skill"
    OBVIOUS
  <2>1. edits = since /\ FileKind(skills[dir], Wanted) # "absent" =>
           SkillAt(Now, cmd) = IF FileKind(skills[dir], Wanted) = "file" THEN origin ELSE ""
    BY <1>1, <1>2, SkillsNow DEF SkillAt, Wanted
  <2>2. TrySkill(dir, origin, next) /\ next \in {"global skill", "inline skill"}
    BY <1>2
  <2> QED BY <1>0, <1>1, <2>1, <2>2, TrySkillHears
<1>3. CASE dir = NoDir /\ Goto("inline skill") /\ UNCHANGED <<loading, answer>>
  <2>1. GoesOn("inline skill") /\ UNCHANGED answer
    BY <1>0, <1>3, GoesOnByGoto DEF Working
  <2>2. /\ HeardInv' /\ edits' = edits /\ since' = since /\ pc' = "inline skill"
        /\ UNCHANGED <<cmd, cfg, skills>>
        /\ SkillAt(Now, cmd)' = SkillAt(Now, cmd)
    BY <2>1, GoesHears
  <2>3. UNCHANGED <<source, resolved>>
    BY <2>1 DEF answer
  <2>s. edits = since => (source # "" => source = SkillAt(Now, cmd))
    BY <1>0, SourceTells
  <2>m. edits = since => (cmd.kind = "run" => resolved # <<>> /\ resolved = ModeAt(Now, cmd))
    BY <1>0, ResolvedTells
  <2>4. HandInv'
    BY <1>0, <1>1, <1>3, <2>2, <2>3, <2>s, <2>m DEF HandInv, Wanted
  <2> QED BY <2>2, <2>4
<1> QED BY <1>2, <1>3 DEF GlobalSkill

LEMMA InlineSkillHears ==
  ASSUME TypeInv, ReadInv, CleanInv, ResolvedInv, HandInv, HeardInv, InlineSkill
  PROVE  HandInv' /\ HeardInv'
<1>0. /\ pc = "inline skill" /\ pc \in Working \ {"loaded"} /\ pc # "idle"
      /\ cmd.kind \in {"run", "skill"} /\ (cmd.kind = "run" => cmd.skill # "")
  BY DEF InlineSkill, Working, TypeInv, PlaceInv
<1>1. ASSUME edits = since
      PROVE  SkillAt(Now, cmd) = IF Wanted \in cfg.skills THEN "config-inline" ELSE ""
  <2>1. /\ Wanted # "" /\ FileKind(skills[cmd.dir], Wanted) = "absent"
        /\ cfg.settings.skills_dir # NoDir =>
              FileKind(skills[cfg.settings.skills_dir], Wanted) = "absent"
    BY <1>0, <1>1 DEF HandInv
  <2>2. cfg = LoadedAt(Now, cmd)
    BY <1>0, <1>1, StillRead
  <2> QED BY <2>1, <2>2, SkillsNow DEF SkillAt, Wanted
<1>s. edits = since => (source # "" => source = SkillAt(Now, cmd))
  BY <1>0, SourceTells
<1>m. edits = since => (cmd.kind = "run" => resolved # <<>> /\ resolved = ModeAt(Now, cmd))
  BY <1>0, ResolvedTells
<1> DEFINE place == IF cmd.kind = "run" THEN "preflight" ELSE "show"
<1>2. CASE Wanted \notin cfg.skills /\ Fail(ExitRuntime)
  <2> PICK exit : exit = ExitRuntime
    OBVIOUS
  <2>1. ASSUME edits = since PROVE Told(Now, Entry(exit, "none"))
    <3>1. SkillAt(Now, cmd) = ""
      BY <1>1, <1>2, <2>1
    <3>2. cmd.kind \notin {"mode", "validate", "skills"} /\ exit # ExitSuccess
      BY <1>0, ExitsDiffer
    <3> QED BY <1>0, <1>m, <1>s, <2>1, <3>1, <3>2, ToldEntry
  <2> QED BY <1>2, <2>1, EndHears, EndHands DEF Fail
<1>3. CASE /\ Wanted \in cfg.skills
           /\ source' = "config-inline"
           /\ Goto(place)
           /\ UNCHANGED <<loading, resolved, listing>>
  <2>0. place \in {"preflight", "show"} /\ place \in Working
    BY DEF Working
  <2> HIDE DEF place
  <2>1. GoesOn(place)
    BY <1>0, <1>3, <2>0, GoesOnByGoto
  <2>2. /\ HeardInv' /\ edits' = edits /\ since' = since /\ pc' = place
        /\ UNCHANGED <<cmd, cfg, skills>>
        /\ SkillAt(Now, cmd)' = SkillAt(Now, cmd)
    BY <2>1, GoesHears
  <2>4. HandInv'
    BY <1>0, <1>1, <1>3, <1>m, <2>0, <2>2 DEF HandInv
  <2> QED BY <2>2, <2>4
<1> QED BY <1>2, <1>3 DEF InlineSkill, Wanted

LEMMA LoadSkillHears ==
  ASSUME TypeInv, ReadInv, CleanInv, ResolvedInv, HandInv, HeardInv, LoadSkill
  PROVE  HandInv' /\ HeardInv'
<1>0. /\ pc = "loaded" /\ pc # "idle" /\ cmd.kind = "skill" /\ source = ""
      /\ Goto("project skill") /\ UNCHANGED <<loading, answer>>
  BY DEF LoadSkill, CleanInv
<1>1. GoesOn("project skill") /\ UNCHANGED source
  BY <1>0, GoesOnByGoto DEF Working, answer
<1>2. HeardInv' /\ pc' = "project skill" /\ UNCHANGED cmd
  BY <1>1, GoesHears
<1> QED BY <1>0, <1>1, <1>2 DEF HandInv

\* A listing that fails says nothing.
LEMMA ListFails ==
  ASSUME TypeInv, ResolvedInv, HandInv, HeardInv, pc \in Working, cmd.kind = "skills",
         NEW exit, exit = ExitRuntime, Fail(exit)
  PROVE  HandInv' /\ HeardInv'
<1>1. ASSUME edits = since PROVE Told(Now, Entry(exit, "none"))
  <2>1. source # "" => source = SkillAt(Now, cmd)
    BY <1>1, SourceTells
  <2>2. cmd.kind \notin {"run", "mode", "validate", "skill"} /\ exit # ExitSuccess
    BY ExitsDiffer
  <2> QED BY <2>1, <2>2, ToldEntry
<1> QED BY <1>1, EndHears, EndHands DEF Fail

LEMMA ListProjectHears ==
  ASSUME TypeInv, ReadInv, CleanInv, ResolvedInv, HandInv, HeardInv, ListProject
  PROVE  HandInv' /\ HeardInv'
<1>0. /\ pc = "loaded" /\ pc \in Working /\ pc # "idle" /\ cmd.kind = "skills" /\ source = ""
  BY DEF ListProject, CleanInv, Working
<1>1. CASE Fail(ExitRuntime)
  BY <1>0, <1>1, ListFails
<1>2. CASE /\ skills[cmd.dir].kind # "locked"
           /\ listing' = ScanDir(skills[cmd.dir], "project-local")
           /\ Goto("list others")
           /\ UNCHANGED <<loading, resolved, source>>
  <2>1. GoesOn("list others")
    BY <1>0, <1>2, GoesOnByGoto DEF Working
  <2>2. HeardInv' /\ pc' = "list others" /\ UNCHANGED <<cmd, cfg, skills>>
    BY <2>1, GoesHears
  <2>3. HandInv'
    BY <1>0, <1>2, <2>2 DEF HandInv
  <2> QED BY <2>2, <2>3
<1> QED BY <1>1, <1>2 DEF ListProject

LEMMA ListOthersHears ==
  ASSUME TypeInv, ReadInv, CleanInv, ResolvedInv, HandInv, HeardInv, ListOthers
  PROVE  HandInv' /\ HeardInv'
<1>0. /\ pc = "list others" /\ pc \in Working /\ pc # "idle" /\ cmd.kind = "skills"
  BY DEF ListOthers, Working, TypeInv, PlaceInv
<1> DEFINE dir    == cfg.settings.skills_dir
           global == IF dir = NoDir THEN <<>> ELSE ScanDir(skills[dir], "global")
           inline == [n \in cfg.skills |-> "config-inline"]
<1>1. CASE Fail(ExitRuntime)
  BY <1>0, <1>1, ListFails
<1>2. CASE /\ dir # NoDir => skills[dir].kind # "locked"
           /\ listing' = Over(Over(listing, global), inline)
           /\ Goto("show")
           /\ UNCHANGED <<loading, resolved, source>>
  <2>1. GoesOn("show")
    BY <1>0, <1>2, GoesOnByGoto DEF Working
  <2>2. /\ HeardInv' /\ edits' = edits /\ since' = since /\ pc' = "show"
        /\ UNCHANGED <<cmd, cfg, skills>>
        /\ SkillAt(Now, cmd)' = SkillAt(Now, cmd)
        /\ GlobalList(Now, cmd)' = GlobalList(Now, cmd)
    BY <2>1, GoesHears
  <2>3. edits = since => (source # "" => source = SkillAt(Now, cmd))
    BY <1>0, SourceTells
  <2>4. ASSUME edits = since
        PROVE  /\ skills[cmd.dir].kind # "locked"
               /\ listing = ScanDir(skills[cmd.dir], "project-local")
               /\ global = GlobalList(Now, cmd)
    <3>1. cfg = LoadedAt(Now, cmd)
      BY <1>0, <2>4, StillRead
    <3>2. global = GlobalList(Now, cmd)
      BY <3>1, SkillsNow DEF GlobalList
    <3> HIDE DEF global
    <3> QED BY <1>0, <2>4, <3>2 DEF HandInv
  <2>5. edits = since => listing' = Over(Over(ScanDir(skills[cmd.dir], "project-local"),
                                              GlobalList(Now, cmd)), inline)
    BY <1>2, <2>4
  <2> HIDE DEF global
  <2>6. HandInv'
    <3>1. /\ pc' = "show" /\ cmd'.kind = "skills" /\ source' = source
      BY <1>0, <1>2, <2>2
    <3> QED BY <1>2, <2>2, <2>3, <2>4, <2>5, <3>1 DEF HandInv, Working
  <2> QED BY <2>2, <2>6
<1> QED BY <1>1, <1>2 DEF ListOthers

LEMMA ShowHears ==
  ASSUME TypeInv, ReadInv, CleanInv, ResolvedInv, HandInv, HeardInv, Show
  PROVE  HandInv' /\ HeardInv'
<1>0. /\ pc \in Working /\ pc # "idle"
      /\ \/ pc = "show" /\ cmd.kind \in {"mode", "skill", "skills"}
         \/ pc = "loaded" /\ cmd.kind = "config"
  BY DEF Show, Working, TypeInv, PlaceInv
<1> PICK exit : exit = ExitSuccess
  OBVIOUS
<1>1. EndWith(exit, "none")
  BY DEF Show
<1>2. ASSUME edits = since PROVE Told(Now, Entry(exit, "none"))
  <2>1. source # "" => source = SkillAt(Now, cmd)
    BY <1>0, <1>2, SourceTells
  <2>2. cmd.kind \in {"run", "mode"} => resolved = ModeAt(Now, cmd)
    <3>1. cmd.kind \in {"run", "mode"} => pc = "show"
      BY <1>0
    <3>2. pc = "show" => pc \in Working \ {"loaded"}
      BY DEF Working
    <3> QED BY <1>2, <3>1, <3>2, ResolvedTells
  <2>3. cmd.kind \notin {"run", "validate"}
    BY <1>0
  <2>4. ASSUME cmd.kind = "skills" PROVE ToldList(Now, Entry(exit, "none"))
    <3>1. pc = "show"
      BY <1>0, <2>4
    <3>2. /\ skills[cmd.dir].kind # "locked"
          /\ cfg.settings.skills_dir # NoDir => skills[cfg.settings.skills_dir].kind # "locked"
          /\ listing = Over(Over(ScanDir(skills[cmd.dir], "project-local"), GlobalList(Now, cmd)),
                            [n \in cfg.skills |-> "config-inline"])
      BY <1>0, <1>2, <2>4, <3>1 DEF HandInv
    <3>3. ReadableAt(Now, cmd) /\ cfg = LoadedAt(Now, cmd)
      BY <1>0, <1>2, StillRead
    <3>4. LET e == Entry(exit, "none") IN e.cmd = cmd /\ e.listing = listing
      BY EntryFields
    <3> QED BY <3>2, <3>3, <3>4, SkillsNow DEF ToldList
  <2> QED BY <2>1, <2>2, <2>3, <2>4, ToldEntry
<1> QED BY <1>1, <1>2, EndHears, EndHands

-----------------------------------------------------------------------------
(* The invariant. *)

StartupInv == TypeInv /\ ReadInv /\ CleanInv /\ ResolvedInv /\ HandInv /\ HeardInv

LEMMA InvInit == Init => StartupInv
<1> SUFFICES ASSUME Init PROVE StartupInv
  OBVIOUS
<1>1. HandInv
  BY DEF Init, HandInv
<1>2. DOMAIN log = {}
  <2>1. DOMAIN <<>> = {}
    OBVIOUS
  <2> QED BY <2>1 DEF Init
<1>3. HeardInv
  BY <1>2 DEF HeardInv, Answers
<1> QED BY <1>1, <1>3, TypeInit, ReadInit DEF StartupInv

LEMMA InvStep == StartupInv /\ [Next]_vars => StartupInv'
<1> SUFFICES ASSUME StartupInv, [Next]_vars PROVE HandInv' /\ HeardInv'
  BY TypeStep, ReadStep DEF StartupInv
<1>i. TypeInv /\ ReadInv /\ CleanInv /\ ResolvedInv /\ HandInv /\ HeardInv
  BY DEF StartupInv
<1>1. CASE Type
  <2>1. /\ pc = "idle" /\ pc' = "discover" /\ Still /\ UNCHANGED <<source, log>>
    BY <1>1 DEF Type, Still, files, answer
  <2>2. source' = ""
    BY <1>i, <2>1 DEF CleanInv, Working
  <2>3. HandInv'
    BY <2>1, <2>2 DEF HandInv, Working
  <2>4. HeardInv'
    <3>1. Answers' = Answers
      BY <2>1 DEF Answers
    <3>2. ASSUME NEW e \in Answers PROVE Heard(e)'
      <4>1. Heard(e) /\ e.since \in Nat /\ e.until \in e.since .. edits
        BY <1>i, <3>2 DEF HeardInv, Answers, TypeInv
      <4> QED BY <1>i, <2>1, <4>1, TypeParts, HeardKeeps, StillFiles DEF Still
    <3> QED BY <3>1, <3>2 DEF HeardInv
  <2> QED BY <2>3, <2>4
<1>2. CASE Edit
  <2>1. Passing /\ UNCHANGED <<log, pc, since>>
    BY <1>i, <1>2, PassingKinds DEF Edit
  <2>2. HeardInv'
    BY <1>i, <2>1, LogKeeps
  <2>3. edits' = edits + 1
    BY <1>i, <1>2, EditFiles DEF TypeInv
  <2>4. edits' # since'
    BY <1>i, <2>1, <2>3, TypeParts
  <2> QED BY <2>2, <2>4 DEF HandInv
<1>3. CASE Load
  BY <1>i, <1>3, LoadHears
<1>4. CASE Work
  BY <1>i, <1>4, ResolveHears, ValidateHears, PreflightHears, LoadSkillHears, ProjectSkillHears,
     GlobalSkillHears, InlineSkillHears, ListProjectHears, ListOthersHears, ShowHears DEF Work
<1>5. CASE UNCHANGED vars
  <2>1. /\ Still /\ UNCHANGED <<cmd, since, log>>
        /\ UNCHANGED <<pc, models, skills, cfg, source, resolved, listing, edits>>
    BY <1>5, StillFiles DEF vars, files, loading, answer, Still
  <2>2. HeardInv'
    BY <1>i, <2>1, PassingKinds, LogKeeps
  <2>3. SkillAt(Now, cmd)' = SkillAt(Now, cmd) /\ GlobalList(Now, cmd)' = GlobalList(Now, cmd)
    BY <2>1, NowKeeps
  <2>4. HandInv'
    BY <1>i, <2>1, <2>3 DEF HandInv, Wanted
  <2> QED BY <2>2, <2>4
<1> QED BY <1>1, <1>2, <1>3, <1>4, <1>5 DEF Next, Work

LEMMA Invariant == Spec => []StartupInv
BY InvInit, InvStep, PTL DEF Spec

-----------------------------------------------------------------------------
(* What the answers amount to. *)

LEMMA AnswerTypes ==
  ASSUME StartupInv, NEW i \in DOMAIN log
  PROVE  /\ Heard(log[i]) /\ log[i].cmd \in Commands
         /\ log[i].since \in Nat /\ log[i].until \in log[i].since .. edits /\ edits \in Nat
         /\ FilesAt(log[i].since) \in Snapshots
<1>1. /\ log[i].cmd \in Commands
      /\ log[i].since \in Nat /\ log[i].until \in log[i].since .. edits /\ edits \in Nat
  BY TypeParts DEF StartupInv, TypeInv
<1>2. log[i].since \in 0 .. edits
  BY <1>1
<1>3. FilesAt(log[i].since) \in Snapshots
  BY <1>2, LastIsNow DEF StartupInv, TypeInv
<1> QED BY <1>1, <1>3 DEF StartupInv, HeardInv, Answers

\* Answers with no edit before the later of them are about the same files.
LEMMA StillAnswers ==
  ASSUME StartupInv, NEW i \in DOMAIN log, NEW j \in DOMAIN log, Undisturbed(i, j)
  PROVE  /\ log[j].since = log[i].since
         /\ Told(FilesAt(log[i].since), log[i])
         /\ Told(FilesAt(log[i].since), log[j])
<1>1. /\ log[i].since \in Nat /\ log[i].until \in log[i].since .. edits /\ edits \in Nat
      /\ log[j].since \in Nat /\ log[j].until \in log[j].since .. edits
  BY AnswerTypes
<1>2. log[i].since = log[i].until /\ log[j].since = log[j].until /\ log[j].since = log[i].since
  BY <1>1 DEF Undisturbed
<1>3. Heard(log[i]) /\ Heard(log[j])
  BY AnswerTypes
<1> QED BY <1>2, <1>3 DEF Heard

LEMMA SamePlaceAt ==
  ASSUME NEW fs, NEW c, NEW d, c.dir = d.dir, c.config = d.config
  PROVE  /\ LoadedAt(fs, c) = LoadedAt(fs, d)
         /\ AliasesAt(fs, c) = AliasesAt(fs, d)
         /\ ReadableAt(fs, c) <=> ReadableAt(fs, d)
         /\ GlobalList(fs, c) = GlobalList(fs, d)
<1>1. LoadedAt(fs, c) = LoadedAt(fs, d)
  BY DEF LoadedAt, ConfigAt
<1>2. AliasesAt(fs, c) = AliasesAt(fs, d)
  BY DEF AliasesAt
<1>3. ReadableAt(fs, c) <=> ReadableAt(fs, d)
  BY DEF ReadableAt
<1>4. GlobalList(fs, c) = GlobalList(fs, d)
  BY <1>1 DEF GlobalList
<1> QED BY <1>1, <1>2, <1>3, <1>4

\* A configuration that can be read can be worked with.
LEMMA LoadedOK ==
  ASSUME NEW fs \in Snapshots, NEW c \in Commands, ReadableAt(fs, c), env \in Environments
  PROVE  ConfigOK(LoadedAt(fs, c))
<1> DEFINE path == DiscoverConfigPath(c.config, c.dir, fs.configs)
<1>1. c.dir \in Dirs /\ c.config \in Dirs \cup {NoDir}
  BY CommandsAssumption
<1>2. path.load \in Dirs \cup {NoDir}
  BY <1>1, FoundType, HomeIsDir DEF DiscoverConfigPath, Discovered
<1>3. path.load # NoDir => fs.configs[path.load].kind = "config"
  BY DEF ReadableAt
<1>4. ConfigAt(fs, c) = IF path.load = NoDir THEN DefaultConfig
                        ELSE MergeConfig(DefaultConfig, fs.configs[path.load])
  BY DEF ConfigAt
<1> HIDE DEF path
<1>5. /\ ConfigOK(ConfigAt(fs, c))
      /\ ConfigAt(fs, c) \in {DefaultConfig} \cup {MergeConfig(DefaultConfig, f) : f \in ConfigFiles}
  <2>1. CASE path.load = NoDir
    BY <1>4, <2>1, DefaultOK
  <2>2. CASE path.load # NoDir
    <3>1. fs.configs[path.load] \in ConfigFiles
      BY <1>2, <2>2, SnapshotType
    <3> QED BY <1>3, <1>4, <2>2, <3>1, MergedOK
  <2> QED BY <2>1, <2>2
<1> QED BY <1>5, AppliedOK DEF LoadedAt

\* If one file is written while a command runs, the mode it resolves is that of the files
\* before the edit or after it (LoadFromAnchor and the discovery before it,
\* config.go:112-159 and 318-394): a mode depends on one config file and on one alias, and what was
\* found before the edit and read after it is as it was, or would be found again.
THEOREM ModeOfOneMoment == Spec => []AtOneMoment
<1>1. StartupInv => AtOneMoment
  <2> SUFFICES ASSUME StartupInv, NEW i \in DOMAIN log, log[i].mode # <<>>,
                      log[i].until <= log[i].since + 1
               PROVE  log[i].mode \in {ModeAt(FilesAt(k), log[i].cmd) : k \in log[i].since .. log[i].until}
    BY DEF AtOneMoment
  <2>1. Heard(log[i])
    BY AnswerTypes
  <2> QED BY <2>1 DEF Heard
<1> QED BY <1>1, Invariant, PTL

LEMMA HomeHides ==
  ASSUME NEW fs, NEW c, NEW d, c.config = NoDir, d.config = NoDir, c.req = d.req,
         fs.configs[HomeDir].kind # "absent"
  PROVE  ModeAt(fs, c) = ModeAt(fs, d)
<1>1. \A dir : DiscoverConfigPath(NoDir, dir, fs.configs) = Discovered(HomeDir, HomeDir)
  BY DEF DiscoverConfigPath
<1>2. \A dir : ModelDiscoveryAnchor(Discovered(HomeDir, HomeDir), dir) = HomeDir
  BY HomeIsDir DEF ModelDiscoveryAnchor, Discovered
<1>3. ConfigAt(fs, c) = ConfigAt(fs, d)
  BY <1>1 DEF ConfigAt
<1>4. AliasesAt(fs, c) = AliasesAt(fs, d)
  BY <1>1, <1>2 DEF AliasesAt
<1>5. ReadableAt(fs, c) <=> ReadableAt(fs, d)
  BY <1>1, <1>2 DEF ReadableAt
<1> QED BY <1>3, <1>4, <1>5 DEF ModeAt

\* With a config file at home, and none named, a mode resolves alike in every directory
\* (discoverConfigPath, config.go:318-354; modelDiscoveryAnchor, config.go:311-316).
THEOREM HomeShields == Spec => []HomeConfigShields
<1>1. StartupInv => HomeConfigShields
  <2> SUFFICES ASSUME StartupInv, NEW i \in DOMAIN log, NEW j \in DOMAIN log,
                      log[i].cmd.kind \in {"run", "mode"}, log[j].cmd.kind \in {"run", "mode"},
                      log[i].cmd.config = NoDir, log[j].cmd.config = NoDir,
                      log[i].cmd.req = log[j].cmd.req,
                      Undisturbed(i, j),
                      FilesAt(log[i].since).configs[HomeDir].kind # "absent"
               PROVE  log[i].mode = log[j].mode
    BY DEF HomeConfigShields
  <2> PICK fs : fs = FilesAt(log[i].since)
    OBVIOUS
  <2>1. ToldMode(fs, log[i]) /\ ToldMode(fs, log[j])
    BY StillAnswers DEF Told
  <2>2. log[i].mode = ModeAt(fs, log[i].cmd) /\ log[j].mode = ModeAt(fs, log[j].cmd)
    BY <2>1 DEF ToldMode
  <2>3. ModeAt(fs, log[i].cmd) = ModeAt(fs, log[j].cmd)
    BY HomeHides
  <2> QED BY <2>2, <2>3
<1> QED BY <1>1, Invariant, PTL

LEMMA ScanFinds ==
  ASSUME NEW folder \in SkillFolders, NEW origin, NEW name
  PROVE  /\ EntryKind(folder, name) \in {"absent", "file", "dir", "locked", "dangling"}
         /\ folder.kind # "locked" =>
               FileKind(folder, name) = IF EntryKind(folder, name) = "dangling" THEN "absent"
                                        ELSE EntryKind(folder, name)
         /\ name \in DOMAIN ScanDir(folder, origin) <=>
               name \notin Nested /\ EntryKind(folder, name) \notin {"absent", "dir"}
         /\ name \in DOMAIN ScanDir(folder, origin) => ScanDir(folder, origin)[name] = origin
<1>0. DOMAIN <<>> = {}
  OBVIOUS
<1>1. CASE folder.kind = "there"
  <2>1. \A n \in DOMAIN folder.files : folder.files[n] \in {"file", "dir", "locked", "dangling"}
    BY <1>1, SkillFoldersAssumption
  <2>2. ScanDir(folder, origin) =
           [n \in {n \in DOMAIN folder.files \ Nested : folder.files[n] # "dir"} |-> origin]
    BY <1>1 DEF ScanDir
  <2>3. EntryKind(folder, name) = IF name \in DOMAIN folder.files THEN folder.files[name] ELSE "absent"
    BY <1>1 DEF EntryKind
  <2>4. FileKind(folder, name) = IF EntryKind(folder, name) = "dangling" THEN "absent"
                                 ELSE EntryKind(folder, name)
    BY <1>1 DEF FileKind
  <2> QED BY <2>1, <2>2, <2>3, <2>4
<1>2. CASE folder.kind # "there"
  <2>1. folder.kind \in {"absent", "locked"}
    BY <1>2, SkillFoldersAssumption
  <2>2. ScanDir(folder, origin) = <<>>
    BY <1>2 DEF ScanDir
  <2>3. /\ EntryKind(folder, name) = "absent"
        /\ folder.kind # "locked" => FileKind(folder, name) = "absent"
    BY <1>2 DEF FileKind, EntryKind
  <2> QED BY <1>0, <2>1, <2>2, <2>3
<1> QED BY <1>1, <1>2

\* A name in three layers.
LEMMA ThreeLayers ==
  ASSUME NEW f, NEW g, NEW h, NEW x
  PROVE  LET all == Over(Over(f, g), h)
         IN  /\ x \in DOMAIN all <=> x \in DOMAIN f \/ x \in DOMAIN g \/ x \in DOMAIN h
             /\ x \in DOMAIN f => all[x] = f[x]
             /\ x \notin DOMAIN f /\ x \in DOMAIN g => all[x] = g[x]
             /\ x \notin DOMAIN f /\ x \notin DOMAIN g /\ x \in DOMAIN h => all[x] = h[x]
<1> DEFINE two == Over(f, g)
<1>1. DOMAIN two = (DOMAIN f) \cup (DOMAIN g)
  BY OverDomain, Zenon
<1>2. /\ x \in DOMAIN f => two[x] = f[x]
      /\ x \notin DOMAIN f /\ x \in DOMAIN g => two[x] = g[x]
  BY OverUpper, OverLower
<1> HIDE DEF two
<1>3. DOMAIN Over(two, h) = (DOMAIN two) \cup (DOMAIN h)
  BY OverDomain, Zenon
<1>4. /\ x \in DOMAIN two => Over(two, h)[x] = two[x]
      /\ x \notin DOMAIN two /\ x \in DOMAIN h => Over(two, h)[x] = h[x]
  BY OverUpper, OverLower
<1>5. LET all == Over(two, h)
      IN  /\ x \in DOMAIN all <=> x \in DOMAIN f \/ x \in DOMAIN g \/ x \in DOMAIN h
          /\ x \in DOMAIN f => all[x] = f[x]
          /\ x \notin DOMAIN f /\ x \in DOMAIN g => all[x] = g[x]
          /\ x \notin DOMAIN f /\ x \notin DOMAIN g /\ x \in DOMAIN h => all[x] = h[x]
  BY <1>1, <1>2, <1>3, <1>4
<1> QED BY <1>5 DEF two

\* What is listed and what is loaded, in one state of the files.
LEMMA ListLoads ==
  ASSUME NEW fs \in Snapshots, NEW c \in Commands, ReadableAt(fs, c), env \in Environments,
         fs.skills[c.dir].kind # "locked",
         LoadedAt(fs, c).settings.skills_dir # NoDir =>
            fs.skills[LoadedAt(fs, c).settings.skills_dir].kind # "locked",
         NEW d \in Commands, d.dir = c.dir, d.config = c.config
  PROVE  LET list == Over(Over(ScanDir(fs.skills[c.dir], "project-local"), GlobalList(fs, c)),
                          [n \in LoadedAt(fs, c).skills |-> "config-inline"])
             name == TrimSpace(d.skill)
         IN  /\ /\ SkillAt(fs, d) # "" /\ name \notin Nested
                /\ \A e \in Dirs : EntryKind(fs.skills[e], name) # "dangling"
                => name \in DOMAIN list /\ list[name] = SkillAt(fs, d)
             /\ /\ name # "" /\ name \in DOMAIN list
                /\ \A e \in Dirs : EntryKind(fs.skills[e], name) \notin {"dir", "locked", "dangling"}
                => SkillAt(fs, d) # ""
<1> DEFINE config  == LoadedAt(fs, c)
           dir     == config.settings.skills_dir
           name    == TrimSpace(d.skill)
           project == ScanDir(fs.skills[c.dir], "project-local")
           global  == GlobalList(fs, c)
           inline  == [n \in config.skills |-> "config-inline"]
           list    == Over(Over(project, global), inline)
           there   == EntryKind(fs.skills[c.dir], name)
           home    == IF dir = NoDir THEN "absent" ELSE EntryKind(fs.skills[dir], name)
           Read(e) == IF e = "dangling" THEN "absent" ELSE e
<1>1. c.dir \in Dirs /\ fs.skills \in [Dirs -> SkillFolders]
  BY CommandsAssumption, SnapshotType
<1>2. dir \in Dirs \cup {NoDir}
  BY LoadedOK DEF ConfigOK
<1>3. /\ there \in {"absent", "file", "dir", "locked", "dangling"}
      /\ FileKind(fs.skills[c.dir], name) = Read(there)
      /\ name \in DOMAIN project <=> name \notin Nested /\ there \notin {"absent", "dir"}
      /\ name \in DOMAIN project => project[name] = "project-local"
  <2> PICK folder \in SkillFolders : folder = fs.skills[c.dir]
    BY <1>1
  <2>1. folder.kind # "locked"
    OBVIOUS
  <2> QED BY <2>1, ScanFinds
<1>4. /\ home \in {"absent", "file", "dir", "locked", "dangling"}
      /\ dir # NoDir => FileKind(fs.skills[dir], name) = Read(home)
      /\ name \in DOMAIN global <=> name \notin Nested /\ home \notin {"absent", "dir"}
      /\ name \in DOMAIN global => global[name] = "global"
  <2>1. CASE dir = NoDir
    <3>1. DOMAIN <<>> = {}
      OBVIOUS
    <3>2. global = <<>> /\ home = "absent"
      BY <2>1 DEF GlobalList
    <3> HIDE DEF global, home
    <3> QED BY <2>1, <3>1, <3>2
  <2>2. CASE dir # NoDir
    <3> PICK folder \in SkillFolders : folder = fs.skills[dir]
      BY <1>1, <1>2, <2>2
    <3>1. folder.kind # "locked"
      BY <2>2
    <3>2. global = ScanDir(folder, "global") /\ home = EntryKind(folder, name)
      BY <2>2 DEF GlobalList
    <3> HIDE DEF global, home
    <3>3. /\ home \in {"absent", "file", "dir", "locked", "dangling"}
          /\ FileKind(folder, name) = Read(home)
          /\ name \in DOMAIN global <=> name \notin Nested /\ home \notin {"absent", "dir"}
          /\ name \in DOMAIN global => global[name] = "global"
      BY <3>1, <3>2, ScanFinds
    <3> QED BY <3>3
  <2> QED BY <2>1, <2>2
<1>5. /\ name \in DOMAIN inline <=> name \in config.skills
      /\ name \in DOMAIN inline => inline[name] = "config-inline"
  OBVIOUS
<1>6. SkillAt(fs, d) =
         IF name = "" THEN ""
         ELSE IF Read(there) # "absent" THEN IF Read(there) = "file" THEN "project-local" ELSE ""
         ELSE IF Read(home) # "absent" THEN IF Read(home) = "file" THEN "global" ELSE ""
         ELSE IF name \in config.skills THEN "config-inline" ELSE ""
  <2>1. LoadedAt(fs, d) = config
    BY SamePlaceAt
  <2>2. /\ FileKind(fs.skills[d.dir], name) = Read(there)
        /\ (IF dir = NoDir THEN "absent" ELSE FileKind(fs.skills[dir], name)) = Read(home)
    BY <1>3, <1>4
  <2> HIDE DEF config, there, home, Read
  <2> QED BY <2>1, <2>2 DEF SkillAt
<1>7. /\ (\A e \in Dirs : EntryKind(fs.skills[e], name) # "dangling") => there # "dangling" /\ home # "dangling"
      /\ (\A e \in Dirs : EntryKind(fs.skills[e], name) \notin {"dir", "locked", "dangling"}) =>
            there \notin {"dir", "locked", "dangling"} /\ home \notin {"dir", "locked", "dangling"}
  BY <1>1, <1>2
<1> HIDE DEF project, global, inline, there, home, dir, config, name
<1>8. /\ name \in DOMAIN list <=> name \in DOMAIN project \/ name \in DOMAIN global \/ name \in DOMAIN inline
      /\ name \in DOMAIN project => list[name] = project[name]
      /\ name \notin DOMAIN project /\ name \in DOMAIN global => list[name] = global[name]
      /\ name \notin DOMAIN project /\ name \notin DOMAIN global /\ name \in DOMAIN inline =>
            list[name] = inline[name]
  BY ThreeLayers
<1> HIDE DEF list
<1>9. /\ SkillAt(fs, d) # "" /\ name \notin Nested /\ there # "dangling" /\ home # "dangling" =>
            name \in DOMAIN list /\ list[name] = SkillAt(fs, d)
      /\ name # "" /\ name \in DOMAIN list /\ there \notin {"dir", "locked", "dangling"}
         /\ home \notin {"dir", "locked", "dangling"} => SkillAt(fs, d) # ""
  BY <1>3, <1>4, <1>5, <1>6, <1>8
<1> QED BY <1>7, <1>9 DEF list, project, global, inline, config, name

\* `skill list` and the loading of a skill search on their own, and agree (skill.go:51-111
\* and 20-49): a list that was not refused shows every skill that loads, with the source
\* it loads from, and every skill it shows loads, but for the names the property sets
\* apart: paths into a folder of skills, folders, files that cannot be read and links to
\* nothing.
THEOREM ListedLoads == Spec => []ListedSkillsShow
<1>1. StartupInv => ListedSkillsShow
  <2> SUFFICES ASSUME StartupInv, NEW i \in DOMAIN log, NEW j \in DOMAIN log,
                      log[i].cmd.kind = "skills", log[i].code = ExitSuccess,
                      TrimSpace(log[j].cmd.skill) # "", SamePlace(i, j), Undisturbed(i, j)
               PROVE  LET name == TrimSpace(log[j].cmd.skill)
                          list == log[i].listing
                          Is(kinds) == \E d \in Dirs :
                                          EntryKind(FilesAt(log[i].since).skills[d], name) \in kinds
                      IN  /\ log[j].source # "" /\ name \notin Nested /\ ~Is({"dangling"})
                                => name \in DOMAIN list /\ list[name] = log[j].source
                          /\ name \in DOMAIN list /\ log[j].cmd.kind = "skill"
                             /\ ~Is({"dir", "locked", "dangling"})
                                => log[j].code = ExitSuccess
    BY DEF ListedSkillsShow
  <2> PICK fs \in Snapshots : fs = FilesAt(log[i].since)
    BY AnswerTypes
  <2> PICK c \in Commands, d \in Commands : c = log[i].cmd /\ d = log[j].cmd
    BY AnswerTypes
  <2>0. d.dir = c.dir /\ d.config = c.config /\ env \in Environments
    BY DEF SamePlace, StartupInv, TypeInv
  <2>1. ToldList(fs, log[i]) /\ ToldSkill(fs, log[j])
    BY StillAnswers DEF Told
  <2>2. /\ ReadableAt(fs, c)
        /\ fs.skills[c.dir].kind # "locked"
        /\ LoadedAt(fs, c).settings.skills_dir # NoDir =>
              fs.skills[LoadedAt(fs, c).settings.skills_dir].kind # "locked"
        /\ log[i].listing = Over(Over(ScanDir(fs.skills[c.dir], "project-local"), GlobalList(fs, c)),
                                 [n \in LoadedAt(fs, c).skills |-> "config-inline"])
    BY <2>1 DEF ToldList
  <2> PICK list : list = Over(Over(ScanDir(fs.skills[c.dir], "project-local"), GlobalList(fs, c)),
                              [n \in LoadedAt(fs, c).skills |-> "config-inline"])
    OBVIOUS
  <2>3. log[i].listing = list
    BY <2>2
  <2> PICK name : name = TrimSpace(d.skill)
    OBVIOUS
  <2>4. /\ /\ SkillAt(fs, d) # "" /\ name \notin Nested
           /\ \A e \in Dirs : EntryKind(fs.skills[e], name) # "dangling"
           => name \in DOMAIN list /\ list[name] = SkillAt(fs, d)
        /\ /\ name # "" /\ name \in DOMAIN list
           /\ \A e \in Dirs : EntryKind(fs.skills[e], name) \notin {"dir", "locked", "dangling"}
           => SkillAt(fs, d) # ""
    BY <2>0, <2>2, ListLoads, Zenon
  <2>5. ReadableAt(fs, d)
    BY <2>0, <2>2, SamePlaceAt
  <2>6. /\ log[j].source # "" => log[j].source = SkillAt(fs, d)
        /\ d.kind = "skill" /\ log[j].code # ExitSuccess => SkillAt(fs, d) = ""
    BY <2>1, <2>5 DEF ToldSkill
  <2> QED BY <2>3, <2>4, <2>6
<1> QED BY <1>1, Invariant, PTL

-----------------------------------------------------------------------------
(* What is validated and what is run. *)

\* Of a resolved mode, what its model is checked for.
LEMMA ResolveParts ==
  ASSUME NEW config, ConfigOK(config), NEW known, NEW req,
         ModeName(config, req) \in DOMAIN config.modes
  PROVE  /\ Resolve(config, known, req).model = ResolveModel(known, Model(config, req))
         /\ Resolve(config, known, req).tools = config.modes[ModeName(config, req)].tools
<1> PICK mode : mode = config.modes[ModeName(config, req)]
  OBVIOUS
<1> DEFINE upper == [name             |-> ModeName(config, req),
                     model            |-> ResolveModel(known, Model(config, req)),
                     format           |-> Format(config, req),
                     max_steps        |-> IF req.max_steps >= 0 THEN req.max_steps
                                          ELSE IF mode.max_steps > 0 THEN mode.max_steps
                                               ELSE config.settings.max_steps,
                     max_tool_retries |-> IF req.max_tool_retries >= 0 THEN req.max_tool_retries
                                          ELSE IF mode.max_tool_retries # 0 \/ ~mode.toolsNil
                                               THEN mode.max_tool_retries
                                               ELSE config.settings.max_tool_retries,
                     timeout          |-> IF req.timeout > 0 THEN req.timeout
                                          ELSE IF mode.timeout > 0 THEN mode.timeout
                                               ELSE config.settings.timeout]
<1>1. Resolve(config, known, req) = Over(upper, mode)
  BY Zenon DEF Resolve
<1>2. "model" \in DOMAIN upper /\ "tools" \notin DOMAIN upper
  OBVIOUS
<1>3. upper["model"] = ResolveModel(known, Model(config, req))
  OBVIOUS
<1>4. "tools" \in DOMAIN mode
  <2>1. DOMAIN mode = DOMAIN NoMode
    BY DEF ConfigOK
  <2>2. "tools" \in DOMAIN NoMode
    BY DEF NoMode
  <2> QED BY <2>1, <2>2
<1> HIDE DEF upper
<1>5. Over(upper, mode)["model"] = upper["model"]
  BY <1>2, OverUpper
<1>6. Over(upper, mode)["tools"] = mode["tools"]
  BY <1>2, <1>4, OverLower
<1> QED BY <1>1, <1>3, <1>5, <1>6

\* A request that asks for a mode there is, and no more than a format there is, resolves
\* as the same mode does when the configuration is validated.
LEMMA SameRequirement ==
  ASSUME NEW config, ConfigOK(config), NEW known, NEW req,
         req.model = "",
         req.format = "" \/ SupportedFormat(req.format),
         req.mode # "" => req.mode \in DOMAIN config.modes,
         NEW r \in Requests(config), r.mode = req.mode, r.model = "", r.format = "",
         ResolveCode(config, known, r) = ExitSuccess
  PROVE  /\ ResolveCode(config, known, req) = ExitSuccess
         /\ Suits(Resolve(config, known, r), FALSE) => Suits(Resolve(config, known, req), FALSE)
<1>1. ModeName(config, req) = ModeName(config, r)
  BY DEF ModeName
<1>2. Model(config, req) = Model(config, r)
  BY <1>1 DEF Model
<1>3. ModeName(config, r) \in DOMAIN config.modes
  BY ExitsDiffer DEF ResolveCode
<1>4. /\ ModelCode(known, Model(config, r), r.model # "") = ExitSuccess
      /\ SupportedFormat(Format(config, r))
  <2> PICK code : code = ModelCode(known, Model(config, r), r.model # "")
    OBVIOUS
  <2>1. ResolveCode(config, known, r) = IF code # ExitSuccess THEN code
                                        ELSE IF SupportedFormat(Format(config, r))
                                             THEN ExitSuccess ELSE ExitRuntime
    BY <1>3 DEF ResolveCode
  <2> QED BY <2>1, ExitsDiffer
<1>5. SupportedFormat(Format(config, req))
  <2>1. CASE req.format = ""
    <3>1. Format(config, req) = Format(config, r)
      BY <1>1, <2>1 DEF Format
    <3> QED BY <1>4, <3>1
  <2>2. CASE req.format # ""
    <3>1. Format(config, req) = req.format
      BY <2>2, AskedFirst, Zenon DEF Format
    <3> QED BY <2>2, <3>1
  <2> QED BY <2>1, <2>2
<1>6. ModelCode(known, Model(config, req), req.model # "") = ExitSuccess
  BY <1>2, <1>4
<1>7. ResolveCode(config, known, req) = ExitSuccess
  BY <1>1, <1>3, <1>5, <1>6 DEF ResolveCode
<1>8. /\ Resolve(config, known, req).model = Resolve(config, known, r).model
      /\ Resolve(config, known, req).tools = Resolve(config, known, r).tools
  BY <1>1, <1>2, <1>3, ResolveParts
<1>9. Suits(Resolve(config, known, r), FALSE) => Suits(Resolve(config, known, req), FALSE)
  BY <1>8 DEF Suits, RequiredModelFeatures
<1> QED BY <1>7, <1>9

LEMMA ModeAskedFor ==
  ASSUME NEW config, NEW req, req.mode # ""
  PROVE  ModeName(config, req) = req.mode
<1>1. FirstNonEmpty(<<req.mode, config.settings.default_mode>>) = req.mode
  BY AskedFirst, Zenon
<1> QED BY <1>1 DEF ModeName

LEMMA RequestOfMode ==
  ASSUME NEW config, NEW mode, mode # "" => mode \in DOMAIN config.modes
  PROVE  \E r \in Requests(config) : r.mode = mode /\ r.model = "" /\ r.format = ""
<1>1. CASE mode = ""
  <2>1. NoRequest.mode = "" /\ NoRequest.model = "" /\ NoRequest.format = ""
    BY DEF NoRequest
  <2> QED BY <1>1, <2>1 DEF Requests
<1>2. CASE mode # ""
  <2> DEFINE r == [NoRequest EXCEPT !.mode = mode]
  <2>1. r.mode = mode /\ r.model = "" /\ r.format = ""
    BY DEF NoRequest
  <2>2. r \in ModeRequests(config)
    BY <1>2 DEF ModeRequests
  <2> QED BY <2>1, <2>2 DEF Requests
<1> QED BY <1>1, <1>2

\* What is validated resolves and suits its model, whatever mode a run names.
LEMMA FitRuns ==
  ASSUME NEW fs \in Snapshots, NEW c \in Commands, Fits(fs, c), env \in Environments,
         NEW d \in Commands, d.dir = c.dir, d.config = c.config,
         d.req.model = "",
         d.req.mode # "" => d.req.mode \in DOMAIN LoadedAt(fs, d).modes
  PROVE  /\ ReadableAt(fs, d)
         /\ ResolveCode(LoadedAt(fs, d), AliasesAt(fs, d), d.req) = ExitSuccess
         /\ Suits(Resolve(LoadedAt(fs, d), AliasesAt(fs, d), d.req), FALSE)
<1>1. /\ LoadedAt(fs, c) = LoadedAt(fs, d) /\ AliasesAt(fs, c) = AliasesAt(fs, d)
      /\ ReadableAt(fs, d)
  BY SamePlaceAt DEF Fits
<1> PICK config, known : config = LoadedAt(fs, d) /\ known = AliasesAt(fs, d)
  OBVIOUS
<1>2. ConfigOK(config)
  BY <1>1, LoadedOK
<1>3. \A r \in Requests(config) : /\ ResolveCode(config, known, r) = ExitSuccess
                                  /\ Suits(Resolve(config, known, r), FALSE)
  BY <1>1 DEF Fits
<1>4. PICK r \in Requests(config) : r.mode = d.req.mode /\ r.model = "" /\ r.format = ""
  BY RequestOfMode
<1>5. d.req.format = "" \/ SupportedFormat(d.req.format)
  BY CommandsAssumption
<1>6. /\ ResolveCode(config, known, d.req) = ExitSuccess
      /\ Suits(Resolve(config, known, r), FALSE) => Suits(Resolve(config, known, d.req), FALSE)
  BY <1>2, <1>3, <1>4, <1>5, SameRequirement
<1> QED BY <1>1, <1>3, <1>6

\* `config validate` resolves each mode with a request of its own (configModelRequirements,
\* openrouter_validation.go:97-144), a run its own mode (mode.Resolve, mode.go:18-78, then
\* validateRunModel, openrouter_validation.go:47-61): what the first accepts the second does.
THEOREM ValidatedRuns == Spec => []ValidatedModesRun
<1>1. StartupInv => ValidatedModesRun
  <2> SUFFICES ASSUME StartupInv, NEW i \in DOMAIN log, NEW j \in DOMAIN log,
                      log[i].cmd.kind = "validate", log[i].code = ExitSuccess,
                      log[i].report = "met",
                      log[j].cmd.kind = "run", log[j].cmd.req.model = "",
                      ~log[j].cmd.schema, log[j].cmd.skill = "",
                      SamePlace(i, j), Undisturbed(i, j),
                      log[j].code # ExitSuccess
               PROVE  log[j].code = ExitCLIUsage /\ log[j].cmd.req.mode # ""
    BY DEF ValidatedModesRun
  <2> PICK fs \in Snapshots : fs = FilesAt(log[i].since)
    BY AnswerTypes
  <2> PICK c \in Commands, d \in Commands : c = log[i].cmd /\ d = log[j].cmd
    BY AnswerTypes
  <2>1. d.dir = c.dir /\ d.config = c.config /\ env \in Environments
    BY DEF SamePlace, StartupInv, TypeInv
  <2>2. ToldFit(fs, log[i]) /\ ToldRun(fs, log[j])
    BY StillAnswers DEF Told
  <2>3. Fits(fs, c)
    BY <2>2 DEF ToldFit
  <2>4. \/ ~ReadableAt(fs, d)
        \/ log[j].code = ResolveCode(LoadedAt(fs, d), AliasesAt(fs, d), d.req)
        \/ ModeAt(fs, d) # <<>> /\ ~Suits(ModeAt(fs, d), d.schema)
    BY <2>2 DEF ToldRun
  <2>5. d.schema = FALSE
    BY CommandsAssumption
  <2>6. CASE d.req.mode # "" => d.req.mode \in DOMAIN LoadedAt(fs, d).modes
    <3>1. /\ ReadableAt(fs, d)
          /\ ResolveCode(LoadedAt(fs, d), AliasesAt(fs, d), d.req) = ExitSuccess
          /\ Suits(Resolve(LoadedAt(fs, d), AliasesAt(fs, d), d.req), FALSE)
      BY <2>1, <2>3, <2>6, FitRuns
    <3>2. ModeAt(fs, d) = Resolve(LoadedAt(fs, d), AliasesAt(fs, d), d.req)
      BY <3>1 DEF ModeAt, LoadedAt
    <3> QED BY <2>4, <2>5, <3>1, <3>2
  <2>7. CASE d.req.mode # "" /\ d.req.mode \notin DOMAIN LoadedAt(fs, d).modes
    <3>1. ModeName(LoadedAt(fs, d), d.req) = d.req.mode
      BY <2>7, ModeAskedFor
    <3>2. ResolveCode(LoadedAt(fs, d), AliasesAt(fs, d), d.req) = ExitCLIUsage
      BY <2>7, <3>1 DEF ResolveCode
    <3>3. ModeAt(fs, d) = <<>>
      BY <3>2, ExitsDiffer DEF ModeAt, LoadedAt
    <3>4. ReadableAt(fs, d)
      BY <2>1, <2>3, SamePlaceAt DEF Fits
    <3> QED BY <2>4, <2>7, <3>2, <3>3, <3>4
  <2> QED BY <2>6, <2>7
<1> QED BY <1>1, Invariant, PTL
=============================================================================
