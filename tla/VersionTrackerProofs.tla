------------------------ MODULE VersionTrackerProofs ------------------------
(***************************************************************************)
(* Proofs about the version tracker, for any number of directories,        *)
(* projects, versions, jobs and failures: what a job commits, that the     *)
(* files of a project agree wherever its commits go, and that no merge     *)
(* moves a project back.                                                   *)
(***************************************************************************)
EXTENDS VersionTracker, WellFoundedInduction, TLAPS

-----------------------------------------------------------------------------
\* The choice of the revision.

Revisions == [v : Versions, t : Int, release : BOOLEAN]

\* A non-empty set of natural numbers has a least element.
LEMMA LeastExists ==
  ASSUME NEW S, S \subseteq Nat, S # {}
  PROVE  \E x \in S : \A y \in S : x <= y
<1>1. PICK x \in S : \A y \in S : ~(<<y, x>> \in OpToRel(<, Nat))
  BY NatLessThanWellFounded, WFMin, Zenon
<1>2. \A y \in S : ~(y < x)
  BY <1>1, Zenon DEF OpToRel
<1>3. QED
  BY <1>2

\* Min takes an element of a non-empty set of natural numbers.
LEMMA MinIsMember ==
  ASSUME NEW S, S \subseteq Nat, S # {}
  PROVE  Min(S) \in S
BY LeastExists, Zenon DEF Min

\* Max takes an element of a non-empty set of versions.
LEMMA MaxIsMember ==
  ASSUME NEW S, S \subseteq Versions, S # {}
  PROVE  Max(S) \in S
<1> DEFINE T == {MaxVersion - x : x \in S}
<1>1. T \subseteq Nat /\ T # {}
  <2>1. \A x \in S : MaxVersion - x \in Nat
    BY VersionsAssumption DEF VersionsAssumption, Versions
  <2>2. QED
    BY <2>1
<1>2. PICK m \in T : \A y \in T : m <= y
  BY <1>1, LeastExists, Zenon
<1>3. PICK x \in S : m = MaxVersion - x
  BY <1>2
<1>4. ASSUME NEW y \in S
      PROVE  x >= y
  <2>1. MaxVersion - y \in T
    OBVIOUS
  <2>2. MaxVersion - x <= MaxVersion - y
    BY <1>2, <1>3, <2>1
  <2> HIDE DEF T
  <2>3. MaxVersion \in Int /\ x \in Int /\ y \in Int
    BY VersionsAssumption DEF VersionsAssumption, Versions
  <2>4. QED
    BY <2>2, <2>3
<1>5. QED
  BY <1>4 DEF Max

\* The fields of an answer.
LEMMA AnswerFields ==
  ASSUME NEW r, NEW u \in BOOLEAN
  PROVE  Answer(r, u).rev = r /\ (Answer(r, u).needsUpgrade <=> u)
BY Zenon DEF Answer

\* A query that failed asks for no upgrade.
LEMMA FailedFields == ~Failed.needsUpgrade
BY Zenon DEF Failed

\* isUpgradeRequired asks for an upgrade to a newer version only.
LEMMA NewerFields ==
  ASSUME NEW r, NEW cur
  PROVE  isUpgradeRequired(r, cur).needsUpgrade <=> newer(r, cur)
<1>1. newer(r, cur) \in BOOLEAN
  BY DEF newer
<1>2. QED
  BY <1>1, Zenon DEF isUpgradeRequired

\* The revision that GetLatestRevision of pkg/github asks to upgrade to is a version
\* of the repository and greater than the current one.
LEMMA LatestIsNewer ==
  ASSUME NEW repo \in Seq(Revisions), NEW current \in Nat,
         GetLatestRevision(repo, current).needsUpgrade
  PROVE  /\ GetLatestRevision(repo, current).rev \in Versions
         /\ GetLatestRevision(repo, current).rev > current
<1> DEFINE releases == getReleasesForRepo(repo)
           list == IF releases = {} THEN getTagsForRepo(repo) ELSE releases
           cur == [v |-> current, t |-> getCommitDateEpoch(repo, current)]
           stops == {i \in list : isUpgradeRequired(repo[i], cur).shouldBreak}
           r == repo[Min(stops)]
           upgrade == isUpgradeRequired(r, cur).needsUpgrade
<1>1. stops \subseteq DOMAIN repo
  BY DEF getReleasesForRepo, getTagsForRepo
<1>2. cur.v = current
  OBVIOUS
<1>3. GetLatestRevision(repo, current) = scan(repo, list, cur)
  BY FailedFields DEF GetLatestRevision
<1> HIDE DEF cur, list
<1>4. stops # {} /\ scan(repo, list, cur) = Answer(r.v, upgrade)
  <2>1. ~Answer(repo[Max(list)].v, FALSE).needsUpgrade
    BY AnswerFields, Zenon
  <2>2. QED
    BY <1>3, <2>1, Zenon DEF scan
<1>5. r \in Revisions
  <2>1. Min(stops) \in DOMAIN repo
    BY <1>1, <1>4, MinIsMember
  <2>2. QED
    BY <2>1
<1> HIDE DEF r, stops
<1>6. newer(r, cur) /\ scan(repo, list, cur).rev = r.v
  <2>1. upgrade \in BOOLEAN
    BY DEF isUpgradeRequired, newer
  <2>2. QED
    BY <1>3, <1>4, <2>1, AnswerFields, NewerFields, Zenon
<1>7. QED
  BY <1>2, <1>3, <1>5, <1>6 DEF newer, Revisions

\* The same for pkg/ecrpublic.
LEMMA LatestImageIsNewer ==
  ASSUME NEW repo \in Seq(Revisions), NEW current \in Nat,
         GetLatestImage(repo, current).needsUpgrade
  PROVE  /\ GetLatestImage(repo, current).rev \in Versions
         /\ GetLatestImage(repo, current).rev > current
<1> DEFINE greater == {repo[i].v : i \in {k \in DOMAIN repo : repo[k].v > current}}
<1>1. greater \subseteq Versions /\ \A v \in greater : v > current
  <2>1. \A i \in DOMAIN repo : repo[i] \in Revisions
    OBVIOUS
  <2>2. \A i \in DOMAIN repo : repo[i].v \in Versions
    BY <2>1 DEF Revisions
  <2>3. QED
    BY <2>2
<1> HIDE DEF greater
<1>2. greater # {} /\ GetLatestImage(repo, current) = Answer(Max(greater), TRUE)
  <2>1. GetLatestImage(repo, current) =
          IF greater = {} THEN Answer(0, FALSE) ELSE Answer(Max(greater), TRUE)
    BY DEF GetLatestImage, greater
  <2>2. ~Answer(0, FALSE).needsUpgrade
    BY AnswerFields, Zenon
  <2>3. QED
    BY <2>1, <2>2, Zenon
<1>3. GetLatestImage(repo, current).rev = Max(greater)
  BY <1>2, AnswerFields, Zenon
<1>4. QED
  BY <1>1, <1>2, <1>3, MaxIsMember, Zenon

-----------------------------------------------------------------------------
\* Trees, commits and merges.

Tracked == Projects \ {EKSDistro}
Tags == {"GIT_TAG", "TRACKER_TAG", "README"}
Gos == {"GOLANG_VERSION", "TRACKER_GO"}

\* A tree whose files agree.
Sound(t) ==
  t \in Tree /\ Agree(t) /\ \A p \in Tracked : t[<<p, "GIT_TAG">>] \in Versions

\* No project of t is behind where it is in o.
Ahead(t, o) ==
  \A p \in Tracked : /\ t[<<p, "GIT_TAG">>] >= o[<<p, "GIT_TAG">>]
                     /\ t[<<p, "GOLANG_VERSION">>] >= o[<<p, "GOLANG_VERSION">>]

\* What every commit of a job is: its files agree, it moves no project back, and it
\* changes the Go version of a project only together with the version.
Good(c) ==
  /\ c \in Commit
  /\ Sound(c.base) /\ Sound(c.tree) /\ Ahead(c.tree, c.base)
  /\ \A p \in Tracked : c.tree[<<p, "GOLANG_VERSION">>] # c.base[<<p, "GOLANG_VERSION">>]
                          => c.tree[<<p, "GIT_TAG">>] # c.base[<<p, "GIT_TAG">>]

\* The files, by project and name.
LEMMA FileNames ==
  /\ \A f \in Files : f[1] \in Projects /\ f[2] \in namesOf(f[1]) /\ f = <<f[1], f[2]>>
  /\ \A p \in Projects : \A n : <<p, n>> \in Files <=> n \in namesOf(p)
  /\ \A p \in Tracked, n \in Tags \cup Gos : <<p, n>> \in Files
<1>1. \A f \in Files : f[1] \in Projects /\ f[2] \in namesOf(f[1]) /\ f = <<f[1], f[2]>>
  BY DEF Files
<1>2. \A p \in Projects : \A n : <<p, n>> \in Files <=> n \in namesOf(p)
  BY DEF Files
<1>3. \A p \in Tracked, n \in Tags \cup Gos : n \in namesOf(p)
  BY DEF namesOf, Tracked, Tags, Gos
<1>4. QED
  BY <1>1, <1>2, <1>3 DEF Tracked

\* What update does to a tree, file by file.
LEMMA Updated ==
  ASSUME NEW t \in Tree, NEW p \in Projects, NEW values,
         \A n \in namesOf(p) \cap DOMAIN values : values[n] \in Nat
  PROVE  /\ update(t, p, values) \in Tree
         /\ \A f \in Files : update(t, p, values)[f] =
              IF f[1] = p /\ f[2] \in DOMAIN values THEN values[f[2]] ELSE t[f]
<1>1. DOMAIN t = Files
  BY DEF Tree
<1>2. update(t, p, values) = [f \in Files |->
         IF f[1] = p /\ f[2] \in DOMAIN values THEN values[f[2]] ELSE t[f]]
  BY <1>1 DEF update
<1>3. \A f \in Files :
        (IF f[1] = p /\ f[2] \in DOMAIN values THEN values[f[2]] ELSE t[f]) \in Nat
  BY FileNames DEF Tree
<1>4. QED
  BY <1>2, <1>3 DEF Tree

\* Merging a good commit into a main that is not behind its base keeps the files of
\* every project in agreement and moves none back.
LEMMA Merged ==
  ASSUME NEW m, Sound(m), NEW c, Good(c), Ahead(m, c.base),
         \A f \in changes(c) : m[f] \in {c.base[f], c.tree[f]},
         NEW n, n = [f \in DOMAIN m |-> IF f \in changes(c) THEN c.tree[f] ELSE m[f]]
  PROVE  Sound(n) /\ Ahead(n, m)
<1>1. c.base \in Tree /\ c.tree \in Tree /\ m \in Tree
  BY DEF Good, Sound
<1>2. \A f \in Files : c.base[f] \in Nat /\ c.tree[f] \in Nat /\ m[f] \in Nat
  BY <1>1 DEF Tree
<1>3. n \in Tree
  BY <1>1, <1>2 DEF Tree
<1>4. \A f \in Files : f \in changes(c) <=> c.tree[f] # c.base[f]
  BY <1>1 DEF changes, Tree
<1>5. \A f \in Files : /\ c.tree[f] # c.base[f] => n[f] = c.tree[f] /\ m[f] \in {c.base[f], c.tree[f]}
                       /\ c.tree[f] = c.base[f] => n[f] = m[f]
  BY <1>1, <1>4 DEF Tree
<1>6. ASSUME NEW p \in Tracked
      PROVE  /\ n[<<p, "TRACKER_TAG">>] = n[<<p, "GIT_TAG">>]
             /\ n[<<p, "README">>] = n[<<p, "GIT_TAG">>]
             /\ n[<<p, "TRACKER_GO">>] = n[<<p, "GOLANG_VERSION">>]
             /\ p \in GoProjects => n[<<p, "GOLANG_VERSION">>] >= GoMinor[n[<<p, "GIT_TAG">>]]
             /\ n[<<p, "GIT_TAG">>] >= m[<<p, "GIT_TAG">>]
             /\ n[<<p, "GOLANG_VERSION">>] >= m[<<p, "GOLANG_VERSION">>]
             /\ n[<<p, "GIT_TAG">>] \in Versions
  <2> DEFINE A(t) == /\ t[<<p, "TRACKER_TAG">>] = t[<<p, "GIT_TAG">>]
                     /\ t[<<p, "README">>] = t[<<p, "GIT_TAG">>]
                     /\ t[<<p, "TRACKER_GO">>] = t[<<p, "GOLANG_VERSION">>]
                     /\ p \in GoProjects => t[<<p, "GOLANG_VERSION">>] >= GoMinor[t[<<p, "GIT_TAG">>]]
  <2>1. A(m) /\ A(c.base) /\ A(c.tree)
    BY DEF Good, Sound, Agree, Tracked
  <2>2. \A k \in Tags \cup Gos : <<p, k>> \in Files
    BY FileNames
  <2>3. /\ m[<<p, "GIT_TAG">>] >= c.base[<<p, "GIT_TAG">>]
        /\ m[<<p, "GOLANG_VERSION">>] >= c.base[<<p, "GOLANG_VERSION">>]
        /\ c.tree[<<p, "GIT_TAG">>] >= c.base[<<p, "GIT_TAG">>]
        /\ c.tree[<<p, "GOLANG_VERSION">>] >= c.base[<<p, "GOLANG_VERSION">>]
        /\ c.tree[<<p, "GOLANG_VERSION">>] # c.base[<<p, "GOLANG_VERSION">>]
             => c.tree[<<p, "GIT_TAG">>] # c.base[<<p, "GIT_TAG">>]
    BY DEF Good, Ahead
  <2>4. \A k \in Tags \cup Gos : /\ m[<<p, k>>] \in Nat /\ c.base[<<p, k>>] \in Nat /\ c.tree[<<p, k>>] \in Nat
                                 /\ c.tree[<<p, k>>] # c.base[<<p, k>>] => n[<<p, k>>] = c.tree[<<p, k>>] /\ m[<<p, k>>] \in {c.base[<<p, k>>], c.tree[<<p, k>>]}
                                 /\ c.tree[<<p, k>>] = c.base[<<p, k>>] => n[<<p, k>>] = m[<<p, k>>]
    BY <1>2, <1>5, <2>2
  <2>5. \A t \in {m, c.base, c.tree} :
          t[<<p, "GIT_TAG">>] \in Versions /\ GoMinor[t[<<p, "GIT_TAG">>]] \in Nat
    BY VersionsAssumption, Zenon DEF VersionsAssumption, Good, Sound
  <2>6. CASE c.tree[<<p, "GIT_TAG">>] = c.base[<<p, "GIT_TAG">>]
    BY <2>1, <2>3, <2>4, <2>5, <2>6 DEF Tags, Gos
  <2>7. CASE c.tree[<<p, "GIT_TAG">>] # c.base[<<p, "GIT_TAG">>]
    <3>1. CASE c.tree[<<p, "GOLANG_VERSION">>] = c.base[<<p, "GOLANG_VERSION">>]
      BY <2>1, <2>3, <2>4, <2>5, <2>7, <3>1 DEF Tags, Gos
    <3>2. CASE c.tree[<<p, "GOLANG_VERSION">>] # c.base[<<p, "GOLANG_VERSION">>]
      BY <2>1, <2>3, <2>4, <2>5, <2>7, <3>2 DEF Tags, Gos
    <3>3. QED
      BY <3>1, <3>2, Zenon
  <2>8. QED
    BY <2>6, <2>7, Zenon
<1>7. QED
  BY <1>3, <1>6, Zenon DEF Sound, Agree, Ahead, Tracked

-----------------------------------------------------------------------------
\* What a job writes and commits.

\* The revision that the job of a project has chosen, against origin/main.
Chosen(j, o) ==
  /\ j.latest \in Versions
  /\ j.latest > o[<<j.project, "GIT_TAG">>]
  /\ j.go = o[<<j.project, "GOLANG_VERSION">>]

\* What the job has written of the files that must agree: nothing, or the version
\* everywhere, with the Go version in both places or in none.
Written(j, o, w) ==
  j.project # EKSDistro =>
    \/ j.updated \cap (Tags \cup Gos) = {}
    \/ /\ Tags \subseteq j.updated
       /\ j.latest \in Versions /\ j.latest > o[<<j.project, "GIT_TAG">>]
       /\ \A n \in Tags : w[<<j.project, n>>] = j.latest
       /\ \/ /\ Gos \subseteq j.updated
             /\ \A n \in Gos : w[<<j.project, n>>] = GoMinor[j.latest]
             /\ GoMinor[j.latest] >= o[<<j.project, "GOLANG_VERSION">>]
          \/ /\ Gos \cap j.updated = {}
             /\ j.project \in GoProjects => o[<<j.project, "GOLANG_VERSION">>] >= GoMinor[j.latest]

\* Apart from what the job has updated, the working tree is that of origin/main.
OnlyUpdated(j, o, w) ==
  \A f \in Files : ~(f[1] = j.project /\ f[2] \in j.updated) => w[f] = o[f]

\* The commit of a job on top of origin/main.
Upgrade(j, o, w) ==
  [base |-> o, tree |-> update(o, j.project, [n \in j.updated |-> w[<<j.project, n>>]]), ahead |-> TRUE]

\* It is good and changes files of its own project only.
LEMMA UpgradeIsGood ==
  ASSUME NEW j, NEW o, NEW w \in Tree, Sound(o), j.project \in Projects, Written(j, o, w)
  PROVE  /\ Good(Upgrade(j, o, w)) /\ Upgrade(j, o, w).base = o
         /\ \A f \in changes(Upgrade(j, o, w)) : f[1] = j.project
<1> DEFINE p == j.project
           values == [n \in j.updated |-> w[<<p, n>>]]
           t == update(o, p, values)
           c == Upgrade(j, o, w)
<1>1. \A f \in Files : o[f] \in Nat /\ w[f] \in Nat
  BY DEF Sound, Tree
<1>2. \A n \in namesOf(p) \cap DOMAIN values : values[n] \in Nat
  BY <1>1, FileNames
<1>3. /\ t \in Tree
      /\ \A f \in Files : t[f] = IF f[1] = p /\ f[2] \in DOMAIN values THEN values[f[2]] ELSE o[f]
  BY <1>2, Updated, Zenon DEF Sound
<1>4. \A q \in Projects : \A n : <<q, n>> \in Files =>
        t[<<q, n>>] = IF q = p /\ n \in j.updated THEN w[<<q, n>>] ELSE o[<<q, n>>]
  BY <1>3, Zenon
<1>5. c.base = o /\ c.tree = t /\ c \in Commit
  BY <1>3, Zenon DEF Upgrade, Commit, Sound
<1> HIDE DEF t, values, c
<1>6. ASSUME NEW q \in Tracked
      PROVE  /\ t[<<q, "TRACKER_TAG">>] = t[<<q, "GIT_TAG">>]
             /\ t[<<q, "README">>] = t[<<q, "GIT_TAG">>]
             /\ t[<<q, "TRACKER_GO">>] = t[<<q, "GOLANG_VERSION">>]
             /\ q \in GoProjects => t[<<q, "GOLANG_VERSION">>] >= GoMinor[t[<<q, "GIT_TAG">>]]
             /\ t[<<q, "GIT_TAG">>] \in Versions
             /\ t[<<q, "GIT_TAG">>] >= o[<<q, "GIT_TAG">>]
             /\ t[<<q, "GOLANG_VERSION">>] >= o[<<q, "GOLANG_VERSION">>]
             /\ t[<<q, "GOLANG_VERSION">>] # o[<<q, "GOLANG_VERSION">>]
                  => t[<<q, "GIT_TAG">>] # o[<<q, "GIT_TAG">>]
  <2>1. \A n \in Tags \cup Gos :
          /\ t[<<q, n>>] = IF q = p /\ n \in j.updated THEN w[<<q, n>>] ELSE o[<<q, n>>]
          /\ o[<<q, n>>] \in Nat
    BY <1>1, <1>4, FileNames DEF Tracked
  <2>2. /\ o[<<q, "TRACKER_TAG">>] = o[<<q, "GIT_TAG">>]
        /\ o[<<q, "README">>] = o[<<q, "GIT_TAG">>]
        /\ o[<<q, "TRACKER_GO">>] = o[<<q, "GOLANG_VERSION">>]
        /\ q \in GoProjects => o[<<q, "GOLANG_VERSION">>] >= GoMinor[o[<<q, "GIT_TAG">>]]
        /\ o[<<q, "GIT_TAG">>] \in Versions
    BY DEF Sound, Agree, Tracked
  <2>3. CASE \A n \in Tags \cup Gos : t[<<q, n>>] = o[<<q, n>>]
    BY <2>1, <2>2, <2>3 DEF Tags, Gos
  <2>4. CASE ~ \A n \in Tags \cup Gos : t[<<q, n>>] = o[<<q, n>>]
    <3>1. q = p /\ j.updated \cap (Tags \cup Gos) # {}
      BY <2>1, <2>4
    <3>2. /\ Tags \subseteq j.updated
          /\ j.latest \in Versions /\ j.latest > o[<<q, "GIT_TAG">>]
          /\ \A n \in Tags : t[<<q, n>>] = j.latest
      BY <2>1, <3>1 DEF Written, Tracked
    <3>3. GoMinor[j.latest] \in Nat /\ j.latest \in Nat
      BY <3>2, VersionsAssumption DEF VersionsAssumption, Versions
    <3>4. CASE /\ Gos \subseteq j.updated
               /\ \A n \in Gos : w[<<q, n>>] = GoMinor[j.latest]
               /\ GoMinor[j.latest] >= o[<<q, "GOLANG_VERSION">>]
      BY <2>1, <3>1, <3>2, <3>3, <3>4 DEF Tags, Gos
    <3>5. CASE /\ Gos \cap j.updated = {}
               /\ q \in GoProjects => o[<<q, "GOLANG_VERSION">>] >= GoMinor[j.latest]
      BY <2>1, <2>2, <3>1, <3>2, <3>3, <3>5 DEF Tags, Gos
    <3>6. QED
      BY <3>1, <3>4, <3>5 DEF Written, Tracked
  <2>5. QED
    BY <2>3, <2>4
<1>7. Good(c)
  BY <1>3, <1>5, <1>6, Zenon DEF Good, Sound, Agree, Ahead, Tracked
<1>8. \A f \in changes(c) : f[1] = p
  BY <1>3, <1>5 DEF changes, Tree
<1>9. QED
  BY <1>5, <1>7, <1>8 DEF c

\* No tree is behind itself.
LEMMA AheadSelf ==
  ASSUME NEW o, Sound(o)
  PROVE  Ahead(o, o)
<1>1. \A p \in Tracked : <<p, "GIT_TAG">> \in Files /\ <<p, "GOLANG_VERSION">> \in Files
  BY FileNames, Zenon DEF Tags, Gos
<1>2. ASSUME NEW p \in Tracked
      PROVE  /\ o[<<p, "GIT_TAG">>] >= o[<<p, "GIT_TAG">>]
             /\ o[<<p, "GOLANG_VERSION">>] >= o[<<p, "GOLANG_VERSION">>]
  <2> DEFINE tag == o[<<p, "GIT_TAG">>]
             go == o[<<p, "GOLANG_VERSION">>]
  <2>1. tag \in Nat /\ go \in Nat
    BY <1>1 DEF Sound, Tree
  <2> HIDE DEF tag, go
  <2>2. tag >= tag /\ go >= go
    BY <2>1
  <2>3. QED
    BY <2>2 DEF tag, go
<1>3. QED
  BY <1>2, Zenon DEF Ahead

\* A commit of main itself is good.
LEMMA MainIsGood ==
  ASSUME NEW o, Sound(o)
  PROVE  Good(MainCommit(o)) /\ MainCommit(o).base = o /\ changes(MainCommit(o)) = {}
<1>1. MainCommit(o) \in Commit /\ MainCommit(o).base = o /\ MainCommit(o).tree = o
  BY DEF MainCommit, Commit, Sound
<1>2. QED
  BY <1>1, AheadSelf DEF Good, changes

UnionOf(s) == UNION {s[i] : i \in 1..Len(s)}

\* The files of two lists of steps are those of the one and those of the other.
LEMMA UnionOfTwo ==
  ASSUME NEW X, NEW s \in Seq(X), NEW t \in Seq(X)
  PROVE  s \o t \in Seq(X) /\ UnionOf(s \o t) = UnionOf(s) \cup UnionOf(t)
<1>1. UnionOf(s \o t) \subseteq UnionOf(s) \cup UnionOf(t)
  BY DEF UnionOf
<1>2. UnionOf(s) \subseteq UnionOf(s \o t)
  BY DEF UnionOf
<1>3. UnionOf(t) \subseteq UnionOf(s \o t)
  <2>1. \A i \in 1..Len(t) : t[i] = (s \o t)[Len(s) + i] /\ Len(s) + i \in 1..Len(s \o t)
    OBVIOUS
  <2>2. QED
    BY <2>1 DEF UnionOf
<1>4. QED
  BY <1>1, <1>2, <1>3

\* The files of a list of one step.
LEMMA UnionOfOne ==
  ASSUME NEW X, NEW S \in X
  PROVE  <<S>> \in Seq(X) /\ UnionOf(<<S>>) = S
<1>1. <<S>> \in Seq(X) /\ Len(<<S>>) = 1 /\ <<S>>[1] = S
  OBVIOUS
<1>2. {<<S>>[i] : i \in 1..1} = {S}
  BY <1>1
<1>3. UNION {S} = S
  BY Zenon
<1>4. QED
  BY <1>1, <1>2, <1>3 DEF UnionOf

\* The files of no step.
LEMMA UnionOfNone ==
  ASSUME NEW X
  PROVE  <<>> \in Seq(X) /\ UnionOf(<<>>) = {}
BY DEF UnionOf

\* The files that a completed update has written.
LEMMA AllWrites ==
  ASSUME NEW j
  PROVE  LET names == UnionOf(writes(j))
         IN  /\ \E X : writes(j) \in Seq(X)
             /\ Tags \subseteq names
             /\ goVersionChanges(j) => Gos \subseteq names
             /\ ~goVersionChanges(j) => Gos \cap names = {}
<1> DEFINE X == {{"GIT_TAG"}, {"TRACKER_TAG"}, {"README"}, {"GOLANG_VERSION"},
                 {"TRACKER_TAG", "TRACKER_GO"}, {"CHECKSUMS"}, {"DIGESTS"}}
           go == <<{"GOLANG_VERSION"}, {"TRACKER_TAG", "TRACKER_GO"}>>
           a == <<{"GIT_TAG"}>>
           b == IF goVersionChanges(j) THEN go ELSE <<{"TRACKER_TAG"}>>
           c == <<{"README"}>>
           x == updateChecksumsAttributionFiles(j)
           y == updateCiliumImageDigestFiles(j)
<1>1. writes(j) = a \o b \o c \o x \o y
  BY Zenon DEF writes
<1>2. a \in Seq(X) /\ UnionOf(a) = {"GIT_TAG"}
  <2>1. {"GIT_TAG"} \in X
    BY Zenon
  <2> HIDE DEF X
  <2>2. QED
    BY <2>1, UnionOfOne, Zenon
<1>3. c \in Seq(X) /\ UnionOf(c) = {"README"}
  <2>1. {"README"} \in X
    BY Zenon
  <2> HIDE DEF X
  <2>2. QED
    BY <2>1, UnionOfOne, Zenon
<1>4. x \in Seq(X) /\ UnionOf(x) \in {{}, {"CHECKSUMS"}}
  <2>1. {"CHECKSUMS"} \in X
    BY Zenon
  <2>2. x \in {<<>>, <<{"CHECKSUMS"}>>}
    BY Zenon DEF updateChecksumsAttributionFiles
  <2> HIDE DEF X, x
  <2>3. QED
    BY <2>1, <2>2, UnionOfOne, UnionOfNone, Zenon
<1>5. y \in Seq(X) /\ UnionOf(y) \in {{}, {"DIGESTS"}}
  <2>1. {"DIGESTS"} \in X
    BY Zenon
  <2>2. y \in {<<>>, <<{"DIGESTS"}>>}
    BY Zenon DEF updateCiliumImageDigestFiles
  <2> HIDE DEF X, y
  <2>3. QED
    BY <2>1, <2>2, UnionOfOne, UnionOfNone, Zenon
<1>6. go \in Seq(X) /\ UnionOf(go) = {"GOLANG_VERSION"} \cup {"TRACKER_TAG", "TRACKER_GO"}
  <2> DEFINE g == <<{"GOLANG_VERSION"}>>
             t == <<{"TRACKER_TAG", "TRACKER_GO"}>>
  <2>1. {"GOLANG_VERSION"} \in X /\ {"TRACKER_TAG", "TRACKER_GO"} \in X
    BY Zenon
  <2>2. go = g \o t
    OBVIOUS
  <2> HIDE DEF X, go
  <2>3. g \in Seq(X) /\ UnionOf(g) = {"GOLANG_VERSION"}
    BY <2>1, UnionOfOne, Zenon
  <2>4. t \in Seq(X) /\ UnionOf(t) = {"TRACKER_TAG", "TRACKER_GO"}
    BY <2>1, UnionOfOne, Zenon
  <2> HIDE DEF g, t
  <2>5. g \o t \in Seq(X) /\ UnionOf(g \o t) = UnionOf(g) \cup UnionOf(t)
    BY <2>3, <2>4, UnionOfTwo
  <2>6. QED
    BY <2>2, <2>3, <2>4, <2>5, Zenon
<1>7. /\ b \in Seq(X)
      /\ goVersionChanges(j) => UnionOf(b) = {"GOLANG_VERSION"} \cup {"TRACKER_TAG", "TRACKER_GO"}
      /\ ~goVersionChanges(j) => UnionOf(b) = {"TRACKER_TAG"}
  <2>1. {"TRACKER_TAG"} \in X
    BY Zenon
  <2> HIDE DEF X, go
  <2>2. <<{"TRACKER_TAG"}>> \in Seq(X) /\ UnionOf(<<{"TRACKER_TAG"}>>) = {"TRACKER_TAG"}
    BY <2>1, UnionOfOne, Zenon
  <2>3. QED
    BY <1>6, <2>2, Zenon
<1> HIDE DEF X, go, a, b, c, x, y
<1> DEFINE ab == a \o b
           abc == ab \o c
           abcx == abc \o x
           all == abcx \o y
<1>8. ab \in Seq(X) /\ UnionOf(ab) = UnionOf(a) \cup UnionOf(b)
  BY <1>2, <1>7, UnionOfTwo
<1> HIDE DEF ab
<1>9. abc \in Seq(X) /\ UnionOf(abc) = UnionOf(ab) \cup UnionOf(c)
  BY <1>3, <1>8, UnionOfTwo
<1> HIDE DEF abc
<1>10. abcx \in Seq(X) /\ UnionOf(abcx) = UnionOf(abc) \cup UnionOf(x)
  BY <1>4, <1>9, UnionOfTwo
<1> HIDE DEF abcx
<1>11. all \in Seq(X) /\ UnionOf(all) = UnionOf(abcx) \cup UnionOf(y)
  BY <1>5, <1>10, UnionOfTwo
<1>0. writes(j) = all
  BY <1>1, Zenon DEF ab, abc, abcx
<1> HIDE DEF all
<1> DEFINE names == UnionOf(writes(j))
<1>12. names = UnionOf(a) \cup UnionOf(b) \cup UnionOf(c) \cup UnionOf(x) \cup UnionOf(y)
  BY <1>0, <1>8, <1>9, <1>10, <1>11
<1>13. \E Y : writes(j) \in Seq(Y)
  BY <1>0, <1>11
<1> DEFINE A == UnionOf(a)
           B == UnionOf(b)
           C == UnionOf(c)
           D == UnionOf(x)
           E == UnionOf(y)
<1>14. /\ names = A \cup B \cup C \cup D \cup E
       /\ A = {"GIT_TAG"} /\ C = {"README"} /\ D \in {{}, {"CHECKSUMS"}} /\ E \in {{}, {"DIGESTS"}}
       /\ goVersionChanges(j) => B = {"GOLANG_VERSION"} \cup {"TRACKER_TAG", "TRACKER_GO"}
       /\ ~goVersionChanges(j) => B = {"TRACKER_TAG"}
  BY <1>2, <1>3, <1>4, <1>5, <1>7, <1>12
<1> HIDE DEF names, A, B, C, D, E
<1>15. /\ Tags \subseteq names
       /\ goVersionChanges(j) => Gos \subseteq names
  BY <1>14 DEF Tags, Gos
<1>16. ~goVersionChanges(j) => Gos \cap names = {}
  BY <1>14, Zenon DEF Gos
<1>17. QED
  BY <1>13, <1>15, <1>16 DEF names

\* An update of the given names writes into its own project only; when it is complete
\* the files that must agree are written as Written says.
OwnUpdate(j, o, names, w) ==
  /\ w \in Tree
  /\ \A p \in Projects \ {j.project} : \A n : <<p, n>> \in Files => w[<<p, n>>] = o[<<p, n>>]
  /\ \A f \in Files : ~(f[1] = j.project /\ f[2] \in names) => w[f] = o[f]
  /\ names = UnionOf(writes(j)) =>
       \A k : k.project = j.project /\ k.latest = j.latest /\ k.updated = names => Written(k, o, w)

\* What is written by updateProjectVersionFile and the updates after it is such an update.
LEMMA UpdateIsWritten ==
  ASSUME NEW j, NEW o, Sound(o), j.project \in Tracked, Chosen(j, o), NEW names, NEW values,
         DOMAIN values = names, \A n \in names : values[n] = contents(j, n),
         NEW w, w = update(o, j.project, values)
  PROVE  OwnUpdate(j, o, names, w)
<1> DEFINE p == j.project
<1>1. j.latest \in Nat /\ GoMinor[j.latest] \in Nat
  BY VersionsAssumption DEF VersionsAssumption, Versions, Chosen
<1>2. \A n \in namesOf(p) \cap DOMAIN values : values[n] \in Nat
  BY <1>1 DEF contents, GetGoVersionForLatestRevision
<1>3. p \in Projects /\ o \in Tree
  BY DEF Tracked, Sound
<1>4. /\ w \in Tree
      /\ \A f \in Files : w[f] = IF f[1] = p /\ f[2] \in names THEN contents(j, f[2]) ELSE o[f]
  BY <1>2, <1>3, Updated
<1>5. \A q \in Projects : \A n : <<q, n>> \in Files =>
        w[<<q, n>>] = IF q = p /\ n \in names THEN contents(j, n) ELSE o[<<q, n>>]
  BY <1>4
<1>6. ASSUME names = UnionOf(writes(j)),
             NEW k, k.project = j.project, k.latest = j.latest, k.updated = names
      PROVE  Written(k, o, w)
  <2>1. \A n \in Tags \cup Gos : <<p, n>> \in Files
    BY FileNames
  <2>2. Tags \subseteq names /\ \A n \in Tags : w[<<p, n>>] = j.latest
    BY <1>3, <1>5, <1>6, <2>1, AllWrites DEF contents, Tags
  <2>3. \A n \in Gos : n \in names => w[<<p, n>>] = GoMinor[j.latest]
    BY <1>3, <1>5, <2>1 DEF contents, Gos, GetGoVersionForLatestRevision
  <2>4. o[<<p, "GOLANG_VERSION">>] \in Nat
    BY <1>3, <2>1, Zenon DEF Tree, Gos
  <2>5. CASE goVersionChanges(j)
    <3>1. Gos \subseteq names
      BY <1>6, <2>5, AllWrites
    <3>2. GoMinor[j.latest] >= o[<<p, "GOLANG_VERSION">>]
      BY <1>1, <2>4, <2>5 DEF goVersionChanges, Chosen, GetGoVersionForLatestRevision
    <3>3. QED
      BY <1>6, <2>2, <2>3, <3>1, <3>2, Zenon DEF Written, Chosen
  <2>6. CASE ~goVersionChanges(j)
    <3>1. Gos \cap names = {}
      BY <1>6, <2>6, AllWrites
    <3>2. p \in GoProjects => o[<<p, "GOLANG_VERSION">>] >= GoMinor[j.latest]
      BY <1>1, <2>4, <2>6 DEF goVersionChanges, Chosen, GetGoVersionForLatestRevision
    <3>3. QED
      BY <1>6, <2>2, <3>1, <3>2, Zenon DEF Written, Chosen
  <2>7. QED
    BY <2>5, <2>6
<1>7. QED
  BY <1>4, <1>5, <1>6 DEF OwnUpdate

-----------------------------------------------------------------------------
\* The inductive invariant.

Pushed == {"list", "edit", "create", "comment"}
Early == {"clone", "query", "checkout", "reset"}
Writing == {"update", "number", "kube", "bottlerocket", "rename", "commit"}

\* What a job knows at each step: j, with origin/main o, branches r, branch h and
\* working tree w of its directory.
JobAt(j, o, r, h, w) ==
  /\ j.pc \in {"idle", "push"} \cup Early \cup Writing \cup Pushed
  /\ j.pc \in Early => j.updated = {}
  /\ j.pc # "idle" => j.project \in Projects
  /\ j.pc = "query" => j.project # EKSDistro
  /\ j.pc = "checkout" =>
       /\ j.branch = j.project
       /\ j.project # EKSDistro /\ j.needsUpgrade /\ r[j.project] = NoCommit => Chosen(j, o)
  /\ j.pc = "reset" =>
       /\ j.branch = j.project /\ h = j.project
       /\ j.project # EKSDistro /\ j.needsUpgrade => Chosen(j, o)
  /\ j.pc = "update" => j.project # EKSDistro /\ Chosen(j, o)
  /\ j.pc \in {"number", "kube"} => j.project = EKSDistro
  /\ j.pc = "kube" => j.other \in Nat
  /\ j.pc \in {"bottlerocket", "rename"} => j.project = ImageBuilder
  /\ j.pc \in {"update", "number", "kube"} => w = o
  /\ j.pc \in {"update", "number", "kube", "bottlerocket"} => j.branch = j.project
  /\ j.pc \in Writing => h \in Branches /\ r[h] = MainCommit(o) /\ r[j.project] # NoCommit
  /\ j.pc \in Writing \ {"rename"} => h = j.branch
  /\ j.pc = "rename" => h = j.project /\ j.branch \in {Bottlerocket, Combined}
  /\ j.pc \in {"bottlerocket", "rename", "commit"} => Written(j, o, w) /\ OnlyUpdated(j, o, w)
  /\ j.pc \in {"push"} \cup Pushed =>
       /\ j.branch \in Branches /\ r[j.branch] # NoCommit
       /\ \A f \in changes(r[j.branch]) : f[1] = j.project

\* A clone: every branch is a good commit on origin/main, and the files of a project
\* without a branch are those of origin/main.
CloneOK(o, r, h, w) ==
  /\ Sound(o) /\ w \in Tree
  /\ r = [b \in Branches |-> r[b]]
  /\ \A b \in Branches : r[b] # NoCommit => Good(r[b]) /\ r[b].base = o
  /\ h \in Branches \cup {"main"} /\ (h # "main" => r[h] # NoCommit)
  /\ \A p \in Projects : \A n : r[p] = NoCommit /\ <<p, n>> \in Files => w[<<p, n>>] = o[<<p, n>>]

\* A directory without a clone.
Empty(j, r, h) ==
  /\ j.pc \in {"idle", "clone"} /\ (j.pc # "idle" => j.project \in Projects /\ j.updated = {})
  /\ r = [b \in Branches |-> NoCommit] /\ h = "main"

DirInv(d) ==
  /\ d \in cloned => /\ CloneOK(origin[d], refs[d], head[d], work[d])
                     /\ JobAt(job[d], origin[d], refs[d], head[d], work[d])
  /\ d \notin cloned => Empty(job[d], refs[d], head[d])

\* The variables are functions of the directories, and jobs are records.
JobShape(j) ==
  j = [pc |-> j.pc, project |-> j.project, dryRun |-> j.dryRun, needsUpgrade |-> j.needsUpgrade,
       latest |-> j.latest, go |-> j.go, other |-> j.other, branch |-> j.branch,
       updated |-> j.updated, warning |-> j.warning]

Shapes ==
  /\ cloned \subseteq Dirs
  /\ job = [d \in Dirs |-> job[d]] /\ \A d \in Dirs : JobShape(job[d])
  /\ origin = [d \in Dirs |-> origin[d]] /\ refs = [d \in Dirs |-> refs[d]]
  /\ head = [d \in Dirs |-> head[d]] /\ work = [d \in Dirs |-> work[d]]

\* Upstream and the two repositories on GitHub.
UpstreamInv ==
  /\ upstream \in [Sources -> Seq(Revisions)]
  /\ images \subseteq Slots \X Versions
  /\ eksd.number \in Nat /\ eksd.kube \in Nat

PullShape(q) ==
  /\ q = [state |-> q.state, body |-> q.body, warned |-> q.warned]
  /\ q.state \in {"none", "open", "closed", "merged"}

ForkInv ==
  /\ Sound(main)
  /\ fork = [b \in Branches |-> fork[b]] /\ pulls = [b \in Branches |-> pulls[b]]
  /\ \A b \in Branches :
       /\ fork[b] # NoCommit => Good(fork[b]) /\ Ahead(main, fork[b].base)
       /\ PullShape(pulls[b])
       /\ pulls[b].state # "none" => fork[b] # NoCommit

\* How the directories relate to them: no clone is ahead of main, and what a job has
\* pushed is there.
SharedInv ==
  /\ \A d \in cloned : Ahead(main, origin[d])
  /\ \A d \in Dirs : job[d].pc \in Pushed => fork[job[d].branch] # NoCommit

TrackerInv == Shapes /\ UpstreamInv /\ ForkInv /\ SharedInv /\ \A d \in Dirs : DirInv(d)

\* A step in the directory d.
Only(d) ==
  /\ cloned' \subseteq Dirs /\ \A e \in Dirs \ {d} : e \in cloned' <=> e \in cloned
  /\ job' = [job EXCEPT ![d] = job'[d]] /\ JobShape(job'[d])
  /\ origin' = [origin EXCEPT ![d] = origin'[d]] /\ refs' = [refs EXCEPT ![d] = refs'[d]]
  /\ head' = [head EXCEPT ![d] = head'[d]] /\ work' = [work EXCEPT ![d] = work'[d]]

\* A step in one directory leaves the others as they are.
LEMMA OnlyOne ==
  ASSUME Shapes, NEW d \in Dirs, Only(d)
  PROVE  /\ Shapes'
         /\ \A e \in Dirs \ {d} : /\ job'[e] = job[e] /\ origin'[e] = origin[e] /\ refs'[e] = refs[e]
                                  /\ head'[e] = head[e] /\ work'[e] = work[e]
                                  /\ e \in cloned' <=> e \in cloned
<1>1. /\ \A e \in Dirs \ {d} : /\ job'[e] = job[e] /\ origin'[e] = origin[e] /\ refs'[e] = refs[e]
                               /\ head'[e] = head[e] /\ work'[e] = work[e]
                               /\ e \in cloned' <=> e \in cloned
      /\ cloned' \subseteq Dirs
      /\ job' = [e \in Dirs |-> job'[e]]
      /\ origin' = [e \in Dirs |-> origin'[e]] /\ refs' = [e \in Dirs |-> refs'[e]]
      /\ head' = [e \in Dirs |-> head'[e]] /\ work' = [e \in Dirs |-> work'[e]]
  BY DEF Shapes, Only
<1>2. \A e \in Dirs : JobShape(job'[e])
  <2>1. ASSUME NEW e \in Dirs PROVE JobShape(job'[e])
    <3>1. CASE e = d
      BY <3>1 DEF Only
    <3>2. CASE e # d
      <4>1. job'[e] = job[e] /\ JobShape(job[e])
        BY <1>1, <3>2, Zenon DEF Shapes
      <4>2. QED
        BY <4>1, Zenon
    <3>3. QED
      BY <3>1, <3>2
  <2>2. QED
    BY <2>1
<1>3. QED
  BY <1>1, <1>2, Zenon DEF Shapes, JobShape

\* A step in one directory that changes nothing on GitHub.
LEMMA LocalStep ==
  ASSUME TrackerInv, NEW d \in Dirs, Only(d), UNCHANGED <<upstream, images, eksd, main, fork, pulls>>,
         DirInv(d)', d \in cloned' => Ahead(main, origin'[d]),
         job'[d].pc \in Pushed => fork[job'[d].branch] # NoCommit
  PROVE  TrackerInv'
<1>1. /\ Shapes'
      /\ \A e \in Dirs \ {d} : /\ job'[e] = job[e] /\ origin'[e] = origin[e] /\ refs'[e] = refs[e]
                               /\ head'[e] = head[e] /\ work'[e] = work[e]
                               /\ e \in cloned' <=> e \in cloned
  BY OnlyOne DEF TrackerInv
<1>2. UpstreamInv' /\ ForkInv'
  BY Zenon DEF TrackerInv, UpstreamInv, ForkInv, Sound, Agree
<1>3. SharedInv'
  BY <1>1, Zenon DEF TrackerInv, SharedInv, Shapes
<1>4. ASSUME NEW e \in Dirs PROVE DirInv(e)'
  <2>1. CASE e = d
    BY <2>1, Zenon
  <2>2. CASE e # d
    <3>1. DirInv(e)
      BY DEF TrackerInv
    <3>2. QED
      BY <1>1, <2>2, <3>1, Zenon DEF DirInv
  <2>3. QED
    BY <2>1, <2>2
<1>5. QED
  BY <1>1, <1>2, <1>3, <1>4, Zenon DEF TrackerInv

\* An idle job knows nothing.
LEMMA IdleFields ==
  /\ JobShape(Idle) /\ Idle.pc = "idle" /\ Idle.updated = {}
  /\ \A o, r, h, w : JobAt(Idle, o, r, h, w)
<1>1. JobShape(Idle) /\ Idle.pc = "idle" /\ Idle.updated = {}
  BY DEF JobShape, Idle
<1>2. QED
  BY <1>1, Zenon DEF JobAt, Early, Pushed, Writing

\* A jump changes only where the job stands.
LEMMA GotoFields ==
  ASSUME NEW i, JobShape(i), NEW pc, NEW j, j = [i EXCEPT !.pc = pc]
  PROVE  /\ JobShape(j) /\ j.pc = pc /\ j.project = i.project /\ j.needsUpgrade = i.needsUpgrade
         /\ j.latest = i.latest /\ j.go = i.go /\ j.other = i.other /\ j.branch = i.branch
         /\ j.updated = i.updated
BY Zenon DEF JobShape

\* What a job has chosen and written depends on these fields only.
LEMMA SameChoice ==
  ASSUME NEW i, NEW j, j.project = i.project, j.latest = i.latest
  PROVE  /\ \A o : j.go = i.go => (Chosen(j, o) <=> Chosen(i, o))
         /\ \A o, w : j.updated = i.updated => (Written(j, o, w) <=> Written(i, o, w))
         /\ \A o, w : j.updated = i.updated => (OnlyUpdated(j, o, w) <=> OnlyUpdated(i, o, w))
BY Zenon DEF Chosen, Written, OnlyUpdated

\* A step in a directory that keeps its clone and changes nothing on GitHub.
LEMMA KeptStep ==
  ASSUME TrackerInv, NEW d \in Dirs, d \in cloned,
         UNCHANGED <<upstream, images, eksd, main, fork, pulls, cloned, origin>>,
         NEW r, refs' = [refs EXCEPT ![d] = r], NEW h, head' = [head EXCEPT ![d] = h],
         NEW w, work' = [work EXCEPT ![d] = w], NEW j, job' = [job EXCEPT ![d] = j],
         JobShape(j), CloneOK(origin[d], r, h, w), JobAt(j, origin[d], r, h, w),
         j.pc \in Pushed => fork[j.branch] # NoCommit
  PROVE  TrackerInv'
<1>1. refs'[d] = r /\ head'[d] = h /\ work'[d] = w /\ job'[d] = j /\ origin'[d] = origin[d]
  BY DEF TrackerInv, Shapes
<1>2. Only(d)
  BY <1>1, Zenon DEF TrackerInv, Shapes, Only
<1>3. DirInv(d)'
  <2>1. /\ CloneOK(origin'[d], refs'[d], head'[d], work'[d])
        /\ JobAt(job'[d], origin'[d], refs'[d], head'[d], work'[d])
    BY <1>1, Zenon
  <2>2. QED
    BY <2>1, Zenon DEF DirInv
<1>4. d \in cloned' => Ahead(main, origin'[d])
  BY DEF TrackerInv, SharedInv
<1>5. QED
  BY <1>1, <1>2, <1>3, <1>4, LocalStep

\* The job returns: what is left is a clone.
LEMMA ReturnStep ==
  ASSUME TrackerInv, NEW d \in Dirs, d \in cloned,
         UNCHANGED <<upstream, images, eksd, main, fork, pulls, cloned, origin>>,
         NEW r, refs' = [refs EXCEPT ![d] = r], NEW h, head' = [head EXCEPT ![d] = h],
         NEW w, work' = [work EXCEPT ![d] = w], Return(d), CloneOK(origin[d], r, h, w)
  PROVE  TrackerInv'
<1>1. job' = [job EXCEPT ![d] = Idle]
  BY DEF Return
<1>2. QED
  BY <1>1, IdleFields, KeptStep, Zenon DEF Pushed

\* A directory as it is.
LEMMA AsItIs ==
  ASSUME TrackerInv, NEW d \in Dirs
  PROVE  /\ refs = [refs EXCEPT ![d] = refs[d]] /\ head = [head EXCEPT ![d] = head[d]]
         /\ work = [work EXCEPT ![d] = work[d]] /\ JobShape(job[d])
         /\ d \in cloned => /\ CloneOK(origin[d], refs[d], head[d], work[d])
                            /\ JobAt(job[d], origin[d], refs[d], head[d], work[d])
         /\ job[d].pc \notin {"idle", "clone"} => d \in cloned
BY Zenon DEF TrackerInv, Shapes, DirInv, Empty

\* A job fails somewhere: the directory stays as it is.
LEMMA FailStep ==
  ASSUME TrackerInv, NEW d \in Dirs, Return(d),
         UNCHANGED <<upstream, images, eksd, main, fork, pulls, cloned, origin, refs, head, work>>
  PROVE  TrackerInv'
<1>1. CASE d \in cloned
  BY <1>1, ReturnStep, AsItIs, Zenon
<1>2. CASE d \notin cloned
  <2>1. job' = [job EXCEPT ![d] = Idle] /\ job'[d] = Idle
    BY DEF Return, TrackerInv, Shapes
  <2>2. Only(d)
    BY <2>1, IdleFields, Zenon DEF TrackerInv, Shapes, Only
  <2>3. DirInv(d)'
    BY <1>2, <2>1, IdleFields, Zenon DEF TrackerInv, DirInv, Empty
  <2>4. QED
    BY <1>2, <2>1, <2>2, <2>3, LocalStep, IdleFields, Zenon DEF Pushed
<1>3. QED
  BY <1>1, <1>2

\* The files of projects exist whenever there is a project, so a commit is never
\* taken for the absence of one.
LEMMA GoodIsSome ==
  ASSUME NEW p \in Projects, NEW c, Good(c)
  PROVE  c # NoCommit
<1>1. Files # {}
  BY FileNames, Zenon DEF namesOf
<1>2. DOMAIN c.tree = Files
  BY DEF Good, Commit, Tree
<1>3. DOMAIN NoCommit.tree = {}
  BY DEF NoCommit
<1>4. QED
  BY <1>1, <1>2, <1>3

\* main, cloned: its files are those of origin/main.
LEMMA FreshClone ==
  ASSUME NEW o, Sound(o)
  PROVE  CloneOK(o, [b \in Branches |-> NoCommit], "main", o)
BY Zenon DEF CloneOK, Sound

\* A directory gets its clone.
LEMMA CloneStep ==
  ASSUME TrackerInv, NEW d \in Dirs, d \notin cloned, clone(d),
         UNCHANGED <<upstream, images, eksd, main, fork, pulls>>,
         NEW j, job' = [job EXCEPT ![d] = j], JobShape(j), j.pc \notin Pushed,
         \A r : JobAt(j, main, r, "main", main)
  PROVE  TrackerInv'
<1>1. /\ origin'[d] = main /\ work'[d] = main /\ refs'[d] = refs[d] /\ head'[d] = head[d]
      /\ job'[d] = j /\ d \in cloned'
  BY DEF clone, TrackerInv, Shapes
<1>2. Only(d)
  BY <1>1, Zenon DEF clone, TrackerInv, Shapes, Only
<1>3. head[d] = "main" /\ refs[d] = [b \in Branches |-> NoCommit]
  BY Zenon DEF TrackerInv, DirInv, Empty
<1>4. Sound(main) /\ Ahead(main, main)
  <2>1. Sound(main)
    BY DEF TrackerInv, ForkInv
  <2>2. QED
    BY <2>1, AheadSelf
<1>5. /\ CloneOK(origin'[d], refs'[d], head'[d], work'[d])
      /\ JobAt(job'[d], origin'[d], refs'[d], head'[d], work'[d])
  BY <1>1, <1>3, <1>4, FreshClone, Zenon
<1>6. DirInv(d)'
  BY <1>1, <1>5, Zenon DEF DirInv
<1>7. QED
  BY <1>1, <1>2, <1>4, <1>6, LocalStep

\* An upgrade begins.
LEMMA StartStep ==
  ASSUME TrackerInv, NEW d \in Dirs, NEW p \in Projects, NEW dry, Start(d, p, dry)
  PROVE  TrackerInv'
<1>0. PICK j : j = [Idle EXCEPT !.pc = "clone", !.project = p, !.dryRun = dry]
  OBVIOUS
<1>1. JobShape(j) /\ j.pc = "clone" /\ j.project = p /\ j.updated = {}
  BY <1>0, IdleFields, Zenon DEF JobShape
<1>2. /\ job' = [job EXCEPT ![d] = j]
      /\ UNCHANGED <<upstream, images, eksd, main, fork, pulls, cloned, origin, refs, head, work>>
  <2>1. job' = [job EXCEPT ![d] = j]
    BY <1>0, Zenon DEF Start
  <2>2. QED
    BY <2>1, Zenon DEF Start, upstreamVars, remoteVars, cloneVars
<1>3. CASE d \in cloned
  <2>1. JobAt(j, origin[d], refs[d], head[d], work[d])
    BY <1>1, Zenon DEF JobAt, Early, Pushed, Writing
  <2>2. QED
    BY <1>1, <1>2, <1>3, <2>1, AsItIs, KeptStep, Zenon DEF Pushed
<1>4. CASE d \notin cloned
  <2>1. job'[d] = j
    BY <1>2 DEF TrackerInv, Shapes
  <2>2. Only(d)
    BY <1>1, <1>2, <2>1, Zenon DEF TrackerInv, Shapes, Only
  <2>3. DirInv(d)'
    BY <1>1, <1>2, <1>4, <2>1, Zenon DEF TrackerInv, DirInv, Empty
  <2>4. QED
    BY <1>1, <1>2, <1>4, <2>1, <2>2, <2>3, LocalStep DEF Pushed
<1>5. QED
  BY <1>3, <1>4

\* CloneRepo, with or without a clone in the directory.
LEMMA CloneRepoStep ==
  ASSUME TrackerInv, NEW d \in Dirs, CloneRepo(d)
  PROVE  TrackerInv'
<1> DEFINE i == job[d]
           j == IF i.project = EKSDistro THEN [i EXCEPT !.pc = "checkout", !.branch = EKSDistro]
                                         ELSE [i EXCEPT !.pc = "query"]
<1>1. /\ i.pc = "clone" /\ openOrClone(d)
      /\ UNCHANGED <<upstream, images, eksd, main, fork, pulls>>
  BY DEF CloneRepo, At, upstreamVars, remoteVars
<1>2. job' = [job EXCEPT ![d] = j]
  BY Zenon DEF CloneRepo, Goto, TrackerInv, Shapes
<1>3. JobShape(i) /\ i.project \in Projects /\ i.updated = {}
  BY <1>1 DEF TrackerInv, Shapes, DirInv, JobAt, Early, Empty
<1>4. /\ JobShape(j) /\ j.project = i.project /\ j.updated = {}
      /\ j.project = EKSDistro => j.pc = "checkout" /\ j.branch = j.project
      /\ j.project # EKSDistro => j.pc = "query"
  BY <1>3, Zenon DEF JobShape
<1> HIDE DEF j
<1>5. j.pc \notin Pushed /\ \A o, r, h, w : JobAt(j, o, r, h, w)
  <2>1. j.project \in Projects /\ j.updated = {}
    BY <1>3, <1>4, Zenon
  <2>2. CASE j.project = EKSDistro
    <3>1. j.pc = "checkout" /\ j.branch = j.project
      BY <1>4, <2>2, Zenon
    <3>2. QED
      BY <2>1, <2>2, <3>1, Zenon DEF JobAt, Early, Pushed, Writing
  <2>3. CASE j.project # EKSDistro
    <3>1. j.pc = "query"
      BY <1>4, <2>3, Zenon
    <3>2. QED
      BY <2>1, <2>3, <3>1, Zenon DEF JobAt, Early, Pushed, Writing
  <2>4. QED
    BY <2>2, <2>3, Zenon
<1>6. CASE d \in cloned
  <2>1. UNCHANGED <<cloned, origin, refs, head, work>>
    BY <1>1, <1>6 DEF openOrClone, cloneVars
  <2>2. QED
    BY <1>1, <1>2, <1>4, <1>5, <1>6, <2>1, AsItIs, KeptStep, Zenon
<1>7. CASE d \notin cloned
  <2>1. clone(d)
    BY <1>1, <1>7 DEF openOrClone
  <2>2. QED
    BY <1>1, <1>2, <1>4, <1>5, <1>7, <2>1, CloneStep, Zenon
<1>8. QED
  BY <1>6, <1>7

\* display and list-projects.
LEMMA ReadOnlyStep ==
  ASSUME TrackerInv, NEW d \in Dirs, readOnly(d)
  PROVE  TrackerInv'
<1> DEFINE j == job[d]
<1>1. /\ j.pc = "idle" /\ d \notin cloned /\ clone(d)
      /\ UNCHANGED <<upstream, images, eksd, main, fork, pulls, job>>
  BY DEF readOnly, At, upstreamVars, remoteVars
<1>2. job' = [job EXCEPT ![d] = j] /\ JobShape(j)
  BY <1>1, Zenon DEF TrackerInv, Shapes
<1>3. j.pc \notin Pushed /\ \A o, r, h, w : JobAt(j, o, r, h, w)
  BY <1>1, Zenon DEF JobAt, Early, Pushed, Writing
<1>4. QED
  BY <1>1, <1>2, <1>3, CloneStep, Zenon

\* The directory is emptied.
LEMMA CleanStep ==
  ASSUME TrackerInv, NEW d \in Dirs, Clean(d)
  PROVE  TrackerInv'
<1>1. /\ job[d].pc = "idle" /\ cloned' = cloned \ {d} /\ origin' = [origin EXCEPT ![d] = <<>>]
      /\ refs' = [refs EXCEPT ![d] = [b \in Branches |-> NoCommit]]
      /\ head' = [head EXCEPT ![d] = "main"] /\ work' = [work EXCEPT ![d] = <<>>]
      /\ UNCHANGED <<upstream, images, eksd, main, fork, pulls, job>>
  BY DEF Clean, At, upstreamVars, remoteVars
<1>2. /\ refs'[d] = [b \in Branches |-> NoCommit] /\ head'[d] = "main" /\ d \notin cloned'
      /\ job'[d] = job[d]
  BY <1>1 DEF TrackerInv, Shapes
<1>3. Only(d)
  BY <1>1, Zenon DEF TrackerInv, Shapes, Only
<1>4. DirInv(d)'
  BY <1>1, <1>2 DEF DirInv, Empty
<1>5. QED
  BY <1>1, <1>2, <1>3, <1>4, LocalStep DEF Pushed

\* The revision that an upgrade is asked for is newer than the current one.
LEMMA LatestOfProject ==
  ASSUME TrackerInv, NEW p \in Tracked, NEW current \in Nat,
         latestRevision(p, current).needsUpgrade
  PROVE  latestRevision(p, current).rev \in Versions /\ latestRevision(p, current).rev > current
<1>1. upstream[p] \in Seq(Revisions)
  BY DEF TrackerInv, UpstreamInv, Sources, Tracked
<1>2. CASE p = Cilium
  <2>1. latestRevision(p, current) = GetLatestImage(upstream[p], current)
    BY <1>2 DEF latestRevision
  <2>2. QED
    BY <1>1, <2>1, LatestImageIsNewer
<1>3. CASE p # Cilium
  <2>1. latestRevision(p, current) = GetLatestRevision(upstream[p], current)
    BY <1>3, Zenon DEF latestRevision
  <2>2. QED
    BY <1>1, <2>1, LatestIsNewer
<1>4. QED
  BY <1>2, <1>3

\* The query for the latest revision.
LEMMA GetRevisionsStep ==
  ASSUME TrackerInv, NEW d \in Dirs, GetRevisions(d)
  PROVE  TrackerInv'
<1> DEFINE i == job[d]
           p == i.project
           current == currentRevision(d)
           latest == latestRevision(p, current)
           go == work[d][<<p, "TRACKER_GO">>]
<1>1. /\ i.pc = "query"
      /\ UNCHANGED <<upstream, images, eksd, main, fork, pulls, cloned, origin, refs, head, work>>
  BY DEF GetRevisions, At, upstreamVars, remoteVars, cloneVars
<1>2. /\ JobShape(i) /\ d \in cloned
      /\ CloneOK(origin[d], refs[d], head[d], work[d])
      /\ JobAt(i, origin[d], refs[d], head[d], work[d])
  BY <1>1, AsItIs
<1>3. p \in Tracked /\ p \in Projects /\ i.updated = {}
  BY <1>1, <1>2, Zenon DEF JobAt, Early, Tracked
<1>4. CASE Return(d)
  BY <1>1, <1>4, FailStep
<1>5. CASE job' = [job EXCEPT ![d].pc = "checkout", ![d].branch = p,
                              ![d].needsUpgrade = latest.needsUpgrade,
                              ![d].latest = latest.rev, ![d].go = go]
  <2> HIDE DEF latest, go
  <2>1. PICK j : j = [i EXCEPT !.pc = "checkout", !.branch = p, !.needsUpgrade = latest.needsUpgrade,
                               !.latest = latest.rev, !.go = go]
    OBVIOUS
  <2>2. job' = [job EXCEPT ![d] = j]
    BY <1>5, <2>1, Zenon DEF TrackerInv, Shapes
  <2>3. /\ JobShape(j) /\ j.pc = "checkout" /\ j.branch = p /\ j.project = p
        /\ j.latest = latest.rev /\ j.go = go /\ j.updated = {}
    BY <1>2, <1>3, <2>1, Zenon DEF JobShape
  <2>4. j.needsUpgrade = latest.needsUpgrade
    BY <1>2, <2>1, Zenon DEF JobShape
  <2>5. ASSUME j.needsUpgrade, refs[d][p] = NoCommit
        PROVE  Chosen(j, origin[d])
    <3>1. latest.needsUpgrade
      BY <2>4, <2>5, Zenon
    <3>2. \A n \in Tags \cup Gos : <<p, n>> \in Files /\ work[d][<<p, n>>] = origin[d][<<p, n>>]
      BY <1>2, <1>3, <2>5, FileNames, Zenon DEF CloneOK
    <3>3. /\ origin[d][<<p, "TRACKER_TAG">>] = origin[d][<<p, "GIT_TAG">>]
          /\ origin[d][<<p, "TRACKER_GO">>] = origin[d][<<p, "GOLANG_VERSION">>]
          /\ origin[d][<<p, "GIT_TAG">>] \in Nat
      BY <1>2, <1>3, <3>2, Zenon DEF CloneOK, Sound, Agree, Tracked, Tree, Tags
    <3>4. current = origin[d][<<p, "GIT_TAG">>] /\ go = origin[d][<<p, "GOLANG_VERSION">>]
      BY <3>2, <3>3, Zenon DEF currentRevision, Tags, Gos, go
    <3>5. latest.rev \in Versions /\ latest.rev > current
      BY <1>3, <3>1, <3>3, <3>4, LatestOfProject, Zenon DEF latest
    <3>6. QED
      BY <2>3, <3>4, <3>5, Zenon DEF Chosen
  <2>6. JobAt(j, origin[d], refs[d], head[d], work[d])
    BY <1>3, <2>3, <2>5 DEF JobAt, Early, Pushed, Writing
  <2>7. QED
    BY <1>1, <1>2, <2>2, <2>3, <2>6, AsItIs, KeptStep, Zenon DEF Pushed
<1>6. QED
  BY <1>4, <1>5 DEF GetRevisions

\* Branches of projects, and of Bottlerocket releases.
LEMMA BranchNames ==
  /\ Projects \subseteq Branches /\ "main" \notin Branches
  /\ ImageBuilder \in Projects => {Bottlerocket, Combined} \subseteq Branches \ Projects
BY NamesAssumption, Zenon DEF NamesAssumption, Branches, Bottlerocket, Combined

\* The branches s are r with branch b at commit c.
Moved(r, s, b, c) ==
  /\ s = [a \in Branches |-> s[a]] /\ s[b] = c
  /\ \A a \in Branches \ {b} : s[a] = r[a]

\* In the clone with branches r, branch b is moved to c, a good commit on origin/main.
GoodMove(o, r, h, w, s, b, c) ==
  /\ CloneOK(o, r, h, w) /\ b \in Branches /\ Projects # {}
  /\ Good(c) /\ c.base = o /\ Moved(r, s, b, c)

\* A branch that is moved to a good commit on origin/main leaves a sound clone, in
\* which no branch is lost.
LEMMA NewBranch ==
  ASSUME NEW o, NEW r, NEW h, NEW w, NEW s, NEW b, NEW c, GoodMove(o, r, h, w, s, b, c)
  PROVE  CloneOK(o, s, b, w) /\ s[b] = c /\ \A a \in Branches : r[a] # NoCommit => s[a] # NoCommit
<1>0. CloneOK(o, r, h, w) /\ b \in Branches /\ Projects # {} /\ Good(c) /\ c.base = o
  BY Zenon DEF GoodMove
<1>1. c # NoCommit
  BY <1>0, GoodIsSome, Zenon
<1>2. s[b] = c /\ (\A a \in Branches \ {b} : s[a] = r[a]) /\ s = [a \in Branches |-> s[a]]
  BY Zenon DEF GoodMove, Moved
<1>3. \A a \in Branches : s[a] # NoCommit => Good(s[a]) /\ s[a].base = o
  BY <1>0, <1>2 DEF CloneOK
<1>4. \A q \in Projects : \A n : s[q] = NoCommit /\ <<q, n>> \in Files => w[<<q, n>>] = o[<<q, n>>]
  BY <1>0, <1>1, <1>2, BranchNames DEF CloneOK
<1>5. QED
  BY <1>0, <1>1, <1>2, <1>3, <1>4 DEF CloneOK

\* Checkout of the project's branch, and of a Bottlerocket branch later on.
LEMMA CheckoutStep ==
  ASSUME TrackerInv, NEW d \in Dirs, Checkout(d) \/ CheckoutBottlerocket(d)
  PROVE  TrackerInv'
<1> DEFINE i == job[d]
           b == i.branch
           o == origin[d]
           r == refs[d]
           w == work[d]
<1>1. PICK next : /\ (i.pc = "checkout" /\ next = "reset") \/ (i.pc = "rename" /\ next = "commit")
                  /\ checkout(d, next)
  BY DEF Checkout, CheckoutBottlerocket, At
<1>2. UNCHANGED <<upstream, images, eksd, main, fork, pulls, cloned, origin, work>>
  BY <1>1 DEF checkout, upstreamVars, remoteVars
<1>3. /\ JobShape(i) /\ d \in cloned /\ CloneOK(o, r, head[d], w) /\ JobAt(i, o, r, head[d], w)
  BY <1>1, AsItIs
<1>4. i.project \in Projects /\ b \in Branches
  BY <1>1, <1>3, BranchNames, Zenon DEF JobAt
<1>5. CASE r[b] = NoCommit
  <2>1. /\ refs' = [refs EXCEPT ![d][b] = tip(d)] /\ head' = [head EXCEPT ![d] = b]
        /\ Goto(d, next)
    BY <1>1, <1>5, Zenon DEF checkout
  <2>2. PICK s : s = [r EXCEPT ![b] = tip(d)]
    BY Zenon
  <2>3. PICK j : j = [i EXCEPT !.pc = next]
    BY Zenon
  <2>4. refs' = [refs EXCEPT ![d] = s] /\ job' = [job EXCEPT ![d] = j]
    BY <2>1, <2>2, <2>3 DEF Goto, TrackerInv, Shapes
  <2>5. /\ JobShape(j) /\ j.pc = next /\ j.project = i.project /\ j.needsUpgrade = i.needsUpgrade
        /\ j.latest = i.latest /\ j.go = i.go /\ j.branch = i.branch /\ j.updated = i.updated
    BY <1>3, <2>3, GotoFields
  <2>6. Good(tip(d)) /\ tip(d).base = o
    <3>1. CASE head[d] = "main"
      BY <1>3, <3>1, MainIsGood, Zenon DEF tip, CloneOK
    <3>2. CASE head[d] # "main"
      BY <1>3, <3>2, Zenon DEF tip, CloneOK
    <3>3. QED
      BY <3>1, <3>2, Zenon
  <2>7. CloneOK(o, s, b, w) /\ s[b] = tip(d) /\ \A a \in Branches : r[a] # NoCommit => s[a] # NoCommit
    <3>1. Moved(r, s, b, tip(d))
      BY <1>3, <1>4, <2>2 DEF CloneOK, Moved
    <3>2. CloneOK(o, r, head[d], w) /\ i.project \in Projects /\ b \in Branches
      BY <1>3, <1>4, Zenon
    <3> HIDE DEF o, r, b, w, i
    <3>3. GoodMove(o, r, head[d], w, s, b, tip(d))
      BY <2>6, <3>1, <3>2, Zenon DEF GoodMove
    <3>4. QED
      BY <3>3, NewBranch
  <2>8. CASE i.pc = "checkout" /\ next = "reset"
    <3>1. /\ b = i.project /\ i.updated = {}
          /\ i.project # EKSDistro /\ i.needsUpgrade => Chosen(i, o)
      BY <1>3, <1>5, <2>8, Zenon DEF JobAt, Early
    <3>2. j.project # EKSDistro /\ j.needsUpgrade => Chosen(j, o)
      BY <2>5, <3>1, SameChoice, Zenon
    <3>3. JobAt(j, o, s, b, w)
      BY <1>4, <2>5, <2>8, <3>1, <3>2, Zenon DEF JobAt, Early, Pushed, Writing
    <3>4. QED
      BY <1>2, <1>3, <2>1, <2>4, <2>5, <2>7, <2>8, <3>3, AsItIs, KeptStep, Zenon DEF Pushed
  <2>9. CASE i.pc = "rename" /\ next = "commit"
    <3>1. /\ r[head[d]] = MainCommit(o) /\ r[i.project] # NoCommit
          /\ head[d] = i.project /\ Written(i, o, w) /\ OnlyUpdated(i, o, w)
      BY <1>3, <2>9, Zenon DEF JobAt, Writing
    <3>2. tip(d) = MainCommit(o)
      BY <1>4, <3>1, BranchNames DEF tip
    <3>3. Written(j, o, w) /\ OnlyUpdated(j, o, w)
      BY <2>5, <3>1, SameChoice, Zenon
    <3>4. JobAt(j, o, s, b, w)
      BY <1>4, <2>5, <2>7, <2>9, <3>1, <3>2, <3>3, BranchNames, Zenon DEF JobAt, Early, Pushed, Writing
    <3>5. QED
      BY <1>2, <1>3, <2>1, <2>4, <2>5, <2>7, <2>9, <3>4, AsItIs, KeptStep, Zenon DEF Pushed
  <2>10. QED
    BY <1>1, <2>8, <2>9
<1>6. CASE r[b] # NoCommit
  <2>1. Return(d) /\ UNCHANGED <<refs, head>>
    BY <1>1, <1>6 DEF checkout, ReturnError
  <2>2. QED
    BY <1>2, <2>1, FailStep
<1>7. QED
  BY <1>5, <1>6

\* ResetToMain.
LEMMA ResetStep ==
  ASSUME TrackerInv, NEW d \in Dirs, ResetToMain(d)
  PROVE  TrackerInv'
<1> DEFINE i == job[d]
           o == origin[d]
           r == refs[d]
           h == head[d]
           next == afterReset(d)
<1>1. /\ i.pc = "reset"
      /\ UNCHANGED <<upstream, images, eksd, main, fork, pulls, cloned, origin, head>>
      /\ refs' = [refs EXCEPT ![d][h] = MainCommit(o)] /\ work' = [work EXCEPT ![d] = o]
      /\ Goto(d, next)
  BY DEF ResetToMain, At, upstreamVars, remoteVars
<1>2. /\ JobShape(i) /\ d \in cloned /\ CloneOK(o, r, h, work[d]) /\ JobAt(i, o, r, h, work[d])
  BY <1>1, AsItIs, Zenon
<1>3. /\ i.project \in Projects /\ i.branch = i.project /\ h = i.project /\ h \in Branches
      /\ i.project # EKSDistro /\ i.needsUpgrade => Chosen(i, o)
  BY <1>1, <1>2, BranchNames DEF JobAt
<1>4. PICK s : s = [r EXCEPT ![h] = MainCommit(o)]
  BY Zenon
<1>5. PICK j : j = [i EXCEPT !.pc = next]
  BY Zenon
<1>6. refs' = [refs EXCEPT ![d] = s] /\ job' = [job EXCEPT ![d] = j]
  BY <1>1, <1>4, <1>5 DEF Goto, TrackerInv, Shapes
<1>7. /\ JobShape(j) /\ j.pc = next /\ j.project = i.project
      /\ j.latest = i.latest /\ j.go = i.go /\ j.branch = i.branch /\ j.updated = i.updated
  BY <1>2, <1>5, GotoFields
<1>8. CloneOK(o, s, h, o) /\ s[h] = MainCommit(o) /\ MainCommit(o) # NoCommit
  <2>1. Good(MainCommit(o)) /\ MainCommit(o).base = o
    BY <1>2, MainIsGood, Zenon DEF CloneOK
  <2>2. CloneOK(o, s, h, work[d]) /\ s[h] = MainCommit(o)
    <3>1. Moved(r, s, h, MainCommit(o))
      BY <1>2, <1>3, <1>4 DEF CloneOK, Moved
    <3>2. CloneOK(o, r, h, work[d]) /\ i.project \in Projects /\ h \in Branches
      BY <1>2, <1>3, Zenon
    <3> HIDE DEF o, r, h, i
    <3>3. GoodMove(o, r, h, work[d], s, h, MainCommit(o))
      BY <2>1, <3>1, <3>2, Zenon DEF GoodMove
    <3>4. QED
      BY <3>3, NewBranch, Zenon
  <2>3. MainCommit(o) # NoCommit
    BY <1>3, <2>1, GoodIsSome, Zenon
  <2>4. QED
    BY <2>2, <2>3, Zenon DEF CloneOK, Sound
<1>9. /\ next \in {"number", "update", "bottlerocket", "commit"}
      /\ next = "number" <=> i.project = EKSDistro
      /\ next = "update" => i.project # EKSDistro /\ Chosen(i, o)
      /\ next = "bottlerocket" => i.project = ImageBuilder
  BY <1>3, Zenon DEF afterReset, afterUpdate
<1>10. next \in {"bottlerocket", "commit"} => Written(j, o, o) /\ OnlyUpdated(j, o, o)
  BY <1>1, <1>2, <1>7 DEF JobAt, Early, Written, OnlyUpdated
<1>11. j.pc = "update" => Chosen(j, o)
  BY <1>7, <1>9, SameChoice, Zenon
<1> HIDE DEF next
<1>12. JobAt(j, o, s, h, o)
  BY <1>3, <1>7, <1>8, <1>9, <1>10, <1>11, Zenon DEF JobAt, Early, Pushed, Writing
<1>13. QED
  BY <1>1, <1>2, <1>6, <1>7, <1>8, <1>9, <1>12, AsItIs, KeptStep, Zenon DEF Pushed

\* Writing files of a project that has a branch.
LEMMA DirtyTree ==
  ASSUME NEW o, NEW r, NEW h, NEW w, CloneOK(o, r, h, w), NEW p \in Projects, r[p] # NoCommit,
         NEW v \in Tree,
         \A q \in Projects \ {p} : \A n : <<q, n>> \in Files => v[<<q, n>>] = w[<<q, n>>]
  PROVE  CloneOK(o, r, h, v)
BY DEF CloneOK

\* The update of the project's own files, complete or not.
LEMMA UpdateStep ==
  ASSUME TrackerInv, NEW d \in Dirs, UpdateProject(d)
  PROVE  TrackerInv'
<1> DEFINE i == job[d]
           p == i.project
           o == origin[d]
           r == refs[d]
           h == head[d]
           next == afterUpdate(d)
<1>1. /\ i.pc = "update"
      /\ UNCHANGED <<upstream, images, eksd, main, fork, pulls, cloned, origin, refs, head>>
  BY Zenon DEF UpdateProject, At, upstreamVars, remoteVars
<1>2. /\ JobShape(i) /\ d \in cloned /\ CloneOK(o, r, h, work[d]) /\ JobAt(i, o, r, h, work[d])
  BY <1>1, AsItIs
<1>3. /\ p \in Projects /\ p \in Tracked /\ Chosen(i, o) /\ work[d] = o
      /\ i.branch = p /\ h = p /\ h \in Branches /\ r[h] = MainCommit(o) /\ r[p] # NoCommit
  BY <1>1, <1>2, Zenon DEF JobAt, Writing, Tracked
<1>4. PICK done \in 0..Len(writes(i)) :
        LET names == UNION {writes(i)[k] : k \in 1..done}
        IN  /\ work' = [work EXCEPT ![d] = update(@, p, [n \in names |-> contents(i, n)])]
            /\ \/ done < Len(writes(i)) /\ fail /\ ReturnError(d)
               \/ /\ done = Len(writes(i))
                  /\ job' = [job EXCEPT ![d].pc = next, ![d].updated = names,
                                        ![d].warning = ~applyPatchesToRepo(i)]
                  /\ UNCHANGED failures
  BY Zenon DEF UpdateProject
<1> DEFINE names == UNION {writes(i)[k] : k \in 1..done}
<1>5. PICK v : v = update(o, p, [n \in names |-> contents(i, n)])
  BY Zenon
<1>6. work' = [work EXCEPT ![d] = v]
  BY <1>3, <1>4, <1>5, Zenon
<1>7. /\ v \in Tree
      /\ \A q \in Projects \ {p} : \A n : <<q, n>> \in Files => v[<<q, n>>] = o[<<q, n>>]
      /\ \A f \in Files : ~(f[1] = p /\ f[2] \in names) => v[f] = o[f]
      /\ names = UnionOf(writes(i)) =>
           \A k : k.project = p /\ k.latest = i.latest /\ k.updated = names => Written(k, o, v)
  <2>1. Sound(o)
    BY <1>2, Zenon DEF CloneOK
  <2>2. p \in Tracked /\ Chosen(i, o)
    BY <1>3, Zenon
  <2>3. PICK values : values = [n \in names |-> contents(i, n)]
    BY Zenon
  <2> HIDE DEF names, i, o
  <2>4. DOMAIN values = names /\ \A n \in names : values[n] = contents(i, n)
    BY <2>3, Zenon
  <2>5. v = update(o, p, values)
    BY <1>5, <2>3, Zenon
  <2>6. OwnUpdate(i, o, names, v)
    BY <2>1, <2>2, <2>4, <2>5, UpdateIsWritten, Zenon
  <2>7. QED
    BY <2>6, Zenon DEF OwnUpdate
<1>8. CloneOK(o, r, h, v)
  <2>1. CloneOK(o, r, h, o) /\ r[p] # NoCommit
    BY <1>2, <1>3, Zenon
  <2>2. p \in Projects /\ v \in Tree
    BY <1>3, <1>7, Zenon
  <2>3. \A q \in Projects \ {p} : \A n : <<q, n>> \in Files => v[<<q, n>>] = o[<<q, n>>]
    BY <1>7, Zenon
  <2> HIDE DEF p, o, r, h
  <2>4. QED
    BY <2>1, <2>2, <2>3, DirtyTree, Zenon
<1>9. CASE ReturnError(d)
  BY <1>1, <1>2, <1>6, <1>8, <1>9, AsItIs, ReturnStep, Zenon DEF ReturnError
<1>10. CASE /\ done = Len(writes(i))
            /\ job' = [job EXCEPT ![d].pc = next, ![d].updated = names,
                                  ![d].warning = ~applyPatchesToRepo(i)]
  <2>1. names = UnionOf(writes(i))
    BY <1>10, Zenon DEF UnionOf
  <2>2. PICK u : u = ~applyPatchesToRepo(i)
    OBVIOUS
  <2>3. job' = [job EXCEPT ![d].pc = next, ![d].updated = names, ![d].warning = u]
    BY <1>10, <2>2, Zenon
  <2> HIDE DEF names, next
  <2>4. PICK j : j = [i EXCEPT !.pc = next, !.updated = names, !.warning = u]
    OBVIOUS
  <2>5. job' = [job EXCEPT ![d] = j]
    BY <2>3, <2>4, Zenon DEF TrackerInv, Shapes
  <2>6. /\ JobShape(j) /\ j.pc = next /\ j.project = p /\ j.latest = i.latest
        /\ j.branch = i.branch /\ j.updated = names
    BY <1>2, <2>4, Zenon DEF JobShape
  <2>7. Written(j, o, v) /\ OnlyUpdated(j, o, v)
    BY <1>7, <2>1, <2>6, Zenon DEF OnlyUpdated
  <2>8. next \in {"bottlerocket", "commit"} /\ (next = "bottlerocket" => p = ImageBuilder)
    BY DEF afterUpdate, next
  <2>9. JobAt(j, o, r, h, v)
    BY <1>3, <2>6, <2>7, <2>8, Zenon DEF JobAt, Early, Pushed, Writing
  <2>10. QED
    BY <1>1, <1>2, <1>6, <1>8, <2>5, <2>6, <2>8, <2>9, AsItIs, KeptStep, Zenon DEF Pushed
<1>11. QED
  BY <1>4, <1>9, <1>10, Zenon

\* Other files of the project may be written as well.
LEMMA WrittenMore ==
  ASSUME NEW i, NEW j, NEW o, NEW w, NEW v, NEW X, Written(i, o, w),
         j.project = i.project, j.latest = i.latest, j.updated = i.updated \cup X,
         X \cap (Tags \cup Gos) = {},
         \A n \in Tags \cup Gos : v[<<i.project, n>>] = w[<<i.project, n>>]
  PROVE  Written(j, o, v)
<1>1. CASE i.updated \cap (Tags \cup Gos) = {} \/ i.project = EKSDistro
  <2>1. j.updated \cap (Tags \cup Gos) = {} \/ j.project = EKSDistro
    BY <1>1, Zenon
  <2>2. QED
    BY <2>1, Zenon DEF Written
<1>2. CASE ~(i.updated \cap (Tags \cup Gos) = {} \/ i.project = EKSDistro)
  <2>1. /\ Tags \subseteq j.updated
        /\ j.latest \in Versions /\ j.latest > o[<<j.project, "GIT_TAG">>]
        /\ \A n \in Tags : v[<<j.project, n>>] = j.latest
    BY <1>2, Zenon DEF Written
  <2>2. \/ /\ Gos \subseteq j.updated
           /\ \A n \in Gos : v[<<j.project, n>>] = GoMinor[j.latest]
           /\ GoMinor[j.latest] >= o[<<j.project, "GOLANG_VERSION">>]
        \/ /\ Gos \cap j.updated = {}
           /\ j.project \in GoProjects => o[<<j.project, "GOLANG_VERSION">>] >= GoMinor[j.latest]
    <3>1. CASE /\ Gos \subseteq i.updated
               /\ \A n \in Gos : w[<<i.project, n>>] = GoMinor[i.latest]
               /\ GoMinor[i.latest] >= o[<<i.project, "GOLANG_VERSION">>]
      BY <3>1, Zenon
    <3>2. CASE /\ Gos \cap i.updated = {}
               /\ i.project \in GoProjects => o[<<i.project, "GOLANG_VERSION">>] >= GoMinor[i.latest]
      BY <3>2
    <3>3. QED
      BY <1>2, <3>1, <3>2, Zenon DEF Written
  <2>3. QED
    BY <2>1, <2>2, Zenon DEF Written
<1>3. QED
  BY <1>1, <1>2, Zenon

\* The Bottlerocket files.
LEMMA BottlerocketStep ==
  ASSUME TrackerInv, NEW d \in Dirs, NEW s \in Slots, UpdateBottlerocket(d, s)
  PROVE  TrackerInv'
<1> DEFINE i == job[d]
           p == i.project
           o == origin[d]
           r == refs[d]
           h == head[d]
           w == work[d]
           latest == GetLatestRevision(upstream[Bottlerocket], w[<<ImageBuilder, s>>])
           moved == updateBottlerocketReleasesFile(latest.rev)
<1>1. /\ i.pc = "bottlerocket"
      /\ UNCHANGED <<upstream, images, eksd, main, fork, pulls, cloned, origin, refs, head>>
  BY Zenon DEF UpdateBottlerocket, At, upstreamVars, remoteVars
<1>2. /\ JobShape(i) /\ d \in cloned /\ CloneOK(o, r, h, w) /\ JobAt(i, o, r, h, w)
  BY <1>1, AsItIs
<1>3. /\ p \in Projects /\ p = ImageBuilder /\ i.branch = p /\ h = p /\ h \in Branches
      /\ r[h] = MainCommit(o) /\ r[p] # NoCommit /\ Written(i, o, w) /\ w \in Tree
      /\ OnlyUpdated(i, o, w)
  BY <1>1, <1>2, Zenon DEF JobAt, Writing, CloneOK
<1>4. p \in Tracked
  BY <1>3, Zenon DEF Tracked, ImageBuilder, EKSDistro
<1>5. latest.needsUpgrade => latest.rev \in Nat
  <2>1. <<p, s>> \in Files
    BY <1>3, <1>4, FileNames, Zenon DEF namesOf, Tracked
  <2>2. w[<<ImageBuilder, s>>] \in Nat
    BY <1>3, <2>1, Zenon DEF Tree
  <2>3. upstream[Bottlerocket] \in Seq(Revisions)
    BY <1>3 DEF TrackerInv, UpstreamInv, Sources
  <2>4. PICK u, n : u = upstream[Bottlerocket] /\ n = w[<<ImageBuilder, s>>]
    BY Zenon
  <2>5. latest = GetLatestRevision(u, n) /\ u \in Seq(Revisions) /\ n \in Nat
    BY <2>2, <2>3, <2>4, Zenon
  <2> HIDE DEF latest
  <2>6. QED
    BY <2>5, LatestIsNewer DEF Versions
<1> HIDE DEF latest
<1>6. ASSUME NEW host \in updateBottlerocketHostContainerMetadata
      PROVE  /\ (moved \cup host) \cap (Tags \cup Gos) = {} /\ (Slots \cup host) \cap (Tags \cup Gos) = {}
             /\ moved \subseteq Slots
  BY NamesAssumption, Zenon DEF NamesAssumption, updateBottlerocketReleasesFile,
     updateBottlerocketHostContainerMetadata, Tags, Gos
<1>7. ASSUME NEW names, latest.needsUpgrade, NEW v, v = update(w, p, [n \in names |-> latest.rev])
      PROVE  /\ CloneOK(o, r, h, v)
             /\ \A n \in (Tags \cup Gos) \ names : v[<<p, n>>] = w[<<p, n>>]
             /\ \A f \in Files : ~(f[1] = p /\ f[2] \in names) => v[f] = w[f]
  <2>1. \A n \in namesOf(p) \cap names : [m \in names |-> latest.rev][n] \in Nat
    BY <1>5, <1>7, Zenon
  <2>2. /\ v \in Tree
        /\ \A f \in Files : v[f] = IF f[1] = p /\ f[2] \in names THEN [m \in names |-> latest.rev][f[2]] ELSE w[f]
    BY <1>3, <1>7, <2>1, Updated
  <2>3. \A q \in Projects : \A n : <<q, n>> \in Files /\ (q # p \/ n \notin names) => v[<<q, n>>] = w[<<q, n>>]
    BY <2>2, Zenon
  <2>4. CloneOK(o, r, h, v)
    <3>1. \A q \in Projects \ {p} : \A n : <<q, n>> \in Files => v[<<q, n>>] = w[<<q, n>>]
      BY <2>3, Zenon
    <3>2. QED
      BY <1>2, <1>3, <2>2, <3>1, DirtyTree, Zenon
  <2>5. \A n \in (Tags \cup Gos) \ names : v[<<p, n>>] = w[<<p, n>>]
    BY <1>3, <1>4, <2>3, FileNames, Zenon
  <2>6. QED
    BY <2>2, <2>4, <2>5, Zenon
<1>8. CASE ReturnError(d) /\ UNCHANGED work
  BY <1>1, <1>8, FailStep DEF ReturnError
<1>9. CASE Goto(d, "commit") /\ UNCHANGED work
  <2>1. PICK j : j = [i EXCEPT !.pc = "commit"]
    BY Zenon
  <2>2. job' = [job EXCEPT ![d] = j]
    BY <1>9, <2>1 DEF Goto, TrackerInv, Shapes
  <2>3. /\ JobShape(j) /\ j.pc = "commit" /\ j.project = p
        /\ j.latest = i.latest /\ j.branch = i.branch /\ j.updated = i.updated
    BY <1>2, <2>1, GotoFields
  <2>4. JobAt(j, o, r, h, w)
    <3>1. Written(j, o, w) /\ OnlyUpdated(j, o, w)
      BY <1>3, <2>3, SameChoice, Zenon
    <3>2. QED
      BY <1>3, <2>3, <3>1, Zenon DEF JobAt, Early, Pushed, Writing
  <2>5. QED
    BY <1>1, <1>2, <1>9, <2>2, <2>3, <2>4, AsItIs, KeptStep, Zenon DEF Pushed
<1>10. ASSUME NEW host \in updateBottlerocketHostContainerMetadata, latest.needsUpgrade, ReturnError(d),
              work' = [work EXCEPT ![d] = update(@, ImageBuilder, [n \in moved \cup host |-> latest.rev])]
       PROVE  TrackerInv'
  <2>1. PICK v : v = update(w, p, [n \in moved \cup host |-> latest.rev])
    OBVIOUS
  <2>2. work' = [work EXCEPT ![d] = v]
    BY <1>3, <1>10, <2>1, Zenon
  <2>3. CloneOK(o, r, h, v)
    BY <1>7, <1>10, <2>1, Zenon
  <2>4. QED
    BY <1>1, <1>2, <1>10, <2>2, <2>3, AsItIs, ReturnStep, Zenon DEF ReturnError
<1>11. ASSUME NEW host \in updateBottlerocketHostContainerMetadata, latest.needsUpgrade,
              work' = [work EXCEPT ![d] = update(@, ImageBuilder, [n \in moved \cup host |-> latest.rev])],
              job' = [job EXCEPT ![d].pc = "rename", ![d].other = latest.rev,
                         ![d].branch = IF job[d].updated = {} THEN Bottlerocket ELSE Combined,
                         ![d].updated = @ \cup Slots \cup host]
       PROVE  TrackerInv'
  <2>1. PICK v : v = update(w, p, [n \in moved \cup host |-> latest.rev])
    OBVIOUS
  <2>2. work' = [work EXCEPT ![d] = v]
    BY <1>3, <1>11, <2>1, Zenon
  <2>3. CloneOK(o, r, h, v) /\ \A n \in Tags \cup Gos : v[<<p, n>>] = w[<<p, n>>]
    <3>1. PICK names : names = moved \cup host
      BY Zenon
    <3>2. v = update(w, p, [n \in names |-> latest.rev]) /\ latest.needsUpgrade
      BY <1>11, <2>1, <3>1, Zenon
    <3>3. \A n \in Tags \cup Gos : n \notin names
      BY <1>6, <3>1
    <3> HIDE DEF i, o, r, h, w, p, moved
    <3>4. CloneOK(o, r, h, v)
      BY <1>7, <3>2, Zenon
    <3>5. \A n \in (Tags \cup Gos) \ names : v[<<p, n>>] = w[<<p, n>>]
      BY <1>7, <3>2, Zenon
    <3>6. QED
      BY <3>3, <3>4, <3>5, Zenon
  <2>4. PICK b : b = IF i.updated = {} THEN Bottlerocket ELSE Combined
    OBVIOUS
  <2>5. PICK names : names = i.updated \cup Slots \cup host
    BY Zenon
  <2>6. PICK j : j = [i EXCEPT !.pc = "rename", !.other = latest.rev, !.branch = b, !.updated = names]
    OBVIOUS
  <2>7. job' = [job EXCEPT ![d] = j]
    BY <1>11, <2>4, <2>5, <2>6, Zenon DEF TrackerInv, Shapes
  <2>8. /\ JobShape(j) /\ j.pc = "rename" /\ j.project = p /\ j.latest = i.latest
        /\ j.branch = b /\ j.updated = names
    BY <1>2, <2>6, Zenon DEF JobShape
  <2>9. Written(j, o, v)
    <3>1. PICK X : X = Slots \cup host
      BY Zenon
    <3>2. j.updated = i.updated \cup X /\ X \cap (Tags \cup Gos) = {}
      BY <1>6, <2>5, <2>8, <3>1
    <3>3. /\ Written(i, o, w) /\ j.project = i.project /\ j.latest = i.latest
          /\ \A n \in Tags \cup Gos : v[<<i.project, n>>] = w[<<i.project, n>>]
      BY <1>3, <2>3, <2>8, Zenon
    <3> HIDE DEF i, o, w, p, moved
    <3>4. QED
      BY <3>2, <3>3, WrittenMore, Zenon
  <2>10. OnlyUpdated(j, o, v)
    <3>1. moved \cup host \subseteq j.updated /\ i.updated \subseteq j.updated /\ j.project = p
      BY <1>6, <2>5, <2>8
    <3>2. \A f \in Files : ~(f[1] = p /\ f[2] \in moved \cup host) => v[f] = w[f]
      BY <1>7, <1>11, <2>1, Zenon
    <3> HIDE DEF moved
    <3>3. QED
      BY <1>3, <3>1, <3>2 DEF OnlyUpdated
  <2>11. JobAt(j, o, r, h, v)
    BY <1>3, <2>4, <2>8, <2>9, <2>10, Zenon DEF JobAt, Early, Pushed, Writing
  <2>12. QED
    BY <1>1, <1>2, <2>2, <2>3, <2>7, <2>8, <2>11, AsItIs, KeptStep, Zenon DEF Pushed
<1>12. QED
  BY <1>8, <1>9, <1>10, <1>11, Zenon DEF UpdateBottlerocket, latest

\* The two steps of an EKS-D upgrade.
LEMMA ReadNumberStep ==
  ASSUME TrackerInv, NEW d \in Dirs, ReadReleaseNumber(d)
  PROVE  TrackerInv'
<1> DEFINE i == job[d]
           o == origin[d]
           r == refs[d]
           h == head[d]
<1>1. /\ i.pc = "number" /\ job' = [job EXCEPT ![d].pc = "kube", ![d].other = eksd.number]
      /\ UNCHANGED <<upstream, images, eksd, main, fork, pulls, cloned, origin, refs, head, work>>
  BY DEF ReadReleaseNumber, At, upstreamVars, remoteVars, cloneVars
<1>2. /\ JobShape(i) /\ d \in cloned /\ CloneOK(o, r, h, work[d]) /\ JobAt(i, o, r, h, work[d])
  BY <1>1, AsItIs
<1>3. PICK j : j = [i EXCEPT !.pc = "kube", !.other = eksd.number]
  OBVIOUS
<1>4. job' = [job EXCEPT ![d] = j]
  BY <1>1, <1>3, Zenon DEF TrackerInv, Shapes
<1>5. /\ JobShape(j) /\ j.pc = "kube" /\ j.other = eksd.number /\ j.project = i.project
      /\ j.branch = i.branch /\ eksd.number \in Nat
  BY <1>2, <1>3, Zenon DEF JobShape, TrackerInv, UpstreamInv
<1>6. JobAt(j, o, r, h, work[d])
  BY <1>1, <1>2, <1>5 DEF JobAt, Early, Pushed, Writing
<1>7. QED
  BY <1>1, <1>2, <1>4, <1>5, <1>6, AsItIs, KeptStep, Zenon DEF Pushed

\* The second one writes its files.
LEMMA EKSDistroStep ==
  ASSUME TrackerInv, NEW d \in Dirs, UpdateEKSDistro(d)
  PROVE  TrackerInv'
<1> DEFINE i == job[d]
           p == i.project
           o == origin[d]
           r == refs[d]
           h == head[d]
           w == work[d]
           values == [n \in {"NUMBER", "KUBE"} |-> IF n = "NUMBER" THEN i.other ELSE eksd.kube]
<1>1. /\ i.pc = "kube"
      /\ UNCHANGED <<upstream, images, eksd, main, fork, pulls, cloned, origin, refs, head>>
  BY Zenon DEF UpdateEKSDistro, At, upstreamVars, remoteVars
<1>2. /\ JobShape(i) /\ d \in cloned /\ CloneOK(o, r, h, w) /\ JobAt(i, o, r, h, w)
  BY <1>1, AsItIs
<1>3. /\ p \in Projects /\ p = EKSDistro /\ i.branch = p /\ h = p /\ h \in Branches
      /\ r[h] = MainCommit(o) /\ r[p] # NoCommit /\ w \in Tree /\ i.other \in Nat /\ w = o
  BY <1>1, <1>2, Zenon DEF JobAt, Writing, CloneOK
<1> DEFINE changed == \E n \in DOMAIN values : w[<<EKSDistro, n>>] # values[n]
<1>0. /\ work' = [work EXCEPT ![d] = IF changed THEN update(@, EKSDistro, values) ELSE @]
      /\ job' = [job EXCEPT ![d].pc = "commit", ![d].updated = IF changed THEN DOMAIN values ELSE {}]
  BY Zenon DEF UpdateEKSDistro
<1> HIDE DEF changed
<1>4. PICK v, names : v = (IF changed THEN update(w, EKSDistro, values) ELSE w)
                      /\ names = (IF changed THEN DOMAIN values ELSE {})
  BY Zenon
<1>5. /\ v \in {update(w, EKSDistro, values), w}
      /\ work' = [work EXCEPT ![d] = v]
      /\ job' = [job EXCEPT ![d].pc = "commit", ![d].updated = names]
  <2> HIDE DEF values
  <2>1. QED
    BY <1>0, <1>4
<1>6. CloneOK(o, r, h, v) /\ \A f \in Files : ~(f[1] = p /\ f[2] \in names) => v[f] = w[f]
  <2>1. CASE ~changed
    BY <1>2, <1>4, <2>1, Zenon
  <2>2. CASE changed
    <3>1. \A n \in namesOf(p) \cap DOMAIN values : values[n] \in Nat
      BY <1>3, Zenon DEF TrackerInv, UpstreamInv
    <3> HIDE DEF values
    <3>0. v = update(w, p, values) /\ names = DOMAIN values
      BY <1>3, <1>4, <2>2, Zenon
    <3>2. /\ v \in Tree
          /\ \A f \in Files : v[f] = IF f[1] = p /\ f[2] \in DOMAIN values THEN values[f[2]] ELSE w[f]
      BY <1>3, <3>0, <3>1, Updated
    <3>3. \A q \in Projects \ {p} : \A n : <<q, n>> \in Files => v[<<q, n>>] = w[<<q, n>>]
      BY <3>2
    <3>4. CloneOK(o, r, h, v)
      <4>1. CloneOK(o, r, h, w) /\ p \in Projects /\ r[p] # NoCommit
        BY <1>2, <1>3, Zenon
      <4> HIDE DEF o, r, h, w, p
      <4>2. QED
        BY <3>2, <3>3, <4>1, DirtyTree, Zenon
    <3>5. QED
      BY <3>0, <3>2, <3>4, Zenon
  <2>3. QED
    BY <2>1, <2>2, Zenon
<1>7. PICK j : j = [i EXCEPT !.pc = "commit", !.updated = names]
  OBVIOUS
<1>8. job' = [job EXCEPT ![d] = j]
  BY <1>5, <1>7, Zenon DEF TrackerInv, Shapes
<1>9. JobShape(j) /\ j.pc = "commit" /\ j.project = p /\ j.branch = i.branch /\ j.updated = names
  BY <1>2, <1>7, Zenon DEF JobShape
<1>10. OnlyUpdated(j, o, v)
  BY <1>3, <1>6, <1>9, Zenon DEF OnlyUpdated
<1>11. JobAt(j, o, r, h, v)
  BY <1>3, <1>9, <1>10, Zenon DEF JobAt, Written, Early, Pushed, Writing
<1>12. QED
  BY <1>1, <1>2, <1>5, <1>6, <1>8, <1>9, <1>11, AsItIs, KeptStep, Zenon DEF Pushed

\* Add and Commit.
LEMMA CommitStep ==
  ASSUME TrackerInv, NEW d \in Dirs, AddCommit(d)
  PROVE  TrackerInv'
<1> DEFINE i == job[d]
           p == i.project
           o == origin[d]
           r == refs[d]
           h == head[d]
           w == work[d]
<1>1. /\ i.pc = "commit"
      /\ UNCHANGED <<upstream, images, eksd, main, fork, pulls, cloned, origin, head, work>>
  BY Zenon DEF AddCommit, At, upstreamVars, remoteVars
<1>2. /\ JobShape(i) /\ d \in cloned /\ CloneOK(o, r, h, w) /\ JobAt(i, o, r, h, w)
  BY <1>1, AsItIs
<1>3. /\ p \in Projects /\ h = i.branch /\ h \in Branches /\ h # "main"
      /\ r[h] = MainCommit(o) /\ Written(i, o, w) /\ w \in Tree /\ Sound(o)
      /\ OnlyUpdated(i, o, w)
  BY <1>1, <1>2, BranchNames, Zenon DEF JobAt, Writing, CloneOK
<1>4. CASE i.updated = {}
  <2>1. Return(d) /\ UNCHANGED refs
    BY <1>4 DEF AddCommit
  <2>2. QED
    BY <1>1, <2>1, FailStep, Zenon
<1>5. CASE i.updated # {}
  <2>1. refs' = [refs EXCEPT ![d][h] = commit(d)] /\ (Return(d) \/ Goto(d, "push"))
    BY <1>5, Zenon DEF AddCommit
  <2>2. PICK c : c = Upgrade(i, o, w)
    BY Zenon
  <2>3. commit(d) = c
    <3>1. tip(d) = MainCommit(o)
      BY <1>3 DEF tip
    <3>2. tip(d).base = o /\ tip(d).tree = o
      BY <3>1 DEF MainCommit
    <3> DEFINE values == [n \in i.updated |-> w[<<p, n>>]]
    <3>3. update(o, p, values) = [f \in Files |-> IF f \in staged(i) THEN w[f] ELSE o[f]]
      <4>1. DOMAIN o = Files
        BY <1>3 DEF Sound, Tree
      <4>2. ASSUME NEW f \in Files
            PROVE  (IF f[1] = p /\ f[2] \in DOMAIN values THEN values[f[2]] ELSE o[f])
                     = IF f \in staged(i) THEN w[f] ELSE o[f]
        <5>1. f[1] = p => f = <<p, f[2]>>
          BY DEF Files
        <5>2. CASE f[1] = p /\ f[2] \in i.updated
          BY <5>1, <5>2 DEF staged
        <5>3. CASE ~(f[1] = p /\ f[2] \in i.updated)
          BY <1>3, <5>3 DEF OnlyUpdated
        <5>4. QED
          BY <5>2, <5>3
      <4> HIDE DEF values, o, p, i, w
      <4>3. QED
        BY <4>1, <4>2, Zenon DEF update
    <3>4. QED
      BY <2>2, <3>2, <3>3, Zenon DEF commit, Upgrade
  <2>4. Good(c) /\ c.base = o /\ \A f \in changes(c) : f[1] = p
    BY <1>3, <2>2, UpgradeIsGood
  <2>5. PICK s : s = [a \in Branches |-> IF a = h THEN c ELSE r[a]]
    BY Zenon
  <2>6. refs' = [refs EXCEPT ![d] = s]
    BY <1>2, <1>3, <2>1, <2>3, <2>5, Zenon DEF CloneOK, TrackerInv, Shapes
  <2>7. CloneOK(o, s, h, w) /\ s[h] = c
    <3>1. Moved(r, s, h, c)
      BY <1>3, <2>5 DEF Moved
    <3>2. CloneOK(o, r, h, w) /\ p \in Projects /\ h \in Branches
      BY <1>2, <1>3, Zenon
    <3> HIDE DEF o, r, h, w, p
    <3>3. GoodMove(o, r, h, w, s, h, c)
      BY <2>4, <3>1, <3>2, Zenon DEF GoodMove
    <3>4. QED
      BY <3>3, NewBranch, Zenon
  <2>8. CASE Return(d)
    BY <1>1, <1>2, <2>6, <2>7, <2>8, AsItIs, ReturnStep, Zenon
  <2>9. CASE Goto(d, "push")
    <3>1. PICK j : j = [i EXCEPT !.pc = "push"]
      BY Zenon
    <3>2. job' = [job EXCEPT ![d] = j]
      BY <2>9, <3>1 DEF Goto, TrackerInv, Shapes
    <3>3. JobShape(j) /\ j.pc = "push" /\ j.project = p /\ j.branch = i.branch
      BY <1>2, <3>1, GotoFields
    <3>4. c # NoCommit
      BY <1>3, <2>4, GoodIsSome, Zenon
    <3>5. JobAt(j, o, s, h, w)
      BY <1>3, <2>4, <2>7, <3>3, <3>4, Zenon DEF JobAt, Early, Pushed, Writing
    <3>6. QED
      BY <1>1, <1>2, <2>6, <2>7, <3>2, <3>3, <3>5, AsItIs, KeptStep, Zenon DEF Pushed
  <2>10. QED
    BY <2>1, <2>8, <2>9
<1>6. QED
  BY <1>4, <1>5
-----------------------------------------------------------------------------
\* Pushes and pull requests.

\* A step of a job that leaves every clone as it is.
LEMMA JobOnly ==
  ASSUME TrackerInv, NEW d \in Dirs, d \in cloned, UNCHANGED <<cloned, origin, refs, head, work>>,
         NEW j, job' = [job EXCEPT ![d] = j], JobShape(j),
         JobAt(j, origin[d], refs[d], head[d], work[d])
  PROVE  /\ Shapes' /\ \A e \in Dirs : DirInv(e)'
         /\ job'[d] = j /\ \A e \in Dirs \ {d} : job'[e] = job[e]
<1>1. job'[d] = j /\ \A e \in Dirs \ {d} : job'[e] = job[e]
  BY DEF TrackerInv, Shapes
<1>2. Only(d)
  BY <1>1, Zenon DEF TrackerInv, Shapes, Only
<1>3. Shapes'
  BY <1>2, OnlyOne, Zenon DEF TrackerInv
<1>4. ASSUME NEW e \in Dirs PROVE DirInv(e)'
  <2>1. DirInv(e)
    BY DEF TrackerInv
  <2>2. CASE e # d
    BY <1>1, <2>1, <2>2, Zenon DEF DirInv
  <2>3. CASE e = d
    <3>1. /\ CloneOK(origin[d], refs[d], head[d], work[d])
          /\ JobAt(job'[d], origin[d], refs[d], head[d], work[d])
      BY <1>1, <2>1, <2>3, Zenon DEF DirInv
    <3>2. QED
      BY <2>3, <3>1, Zenon DEF DirInv
  <2>4. QED
    BY <2>2, <2>3, Zenon
<1>5. QED
  BY <1>1, <1>3, <1>4, Zenon

\* A job that has pushed keeps what it knows while it works on its pull request.
LEMMA PushedJob ==
  ASSUME TrackerInv, NEW d \in Dirs, job[d].pc \in {"push"} \cup Pushed,
         NEW pc \in Pushed, NEW j, j = [job[d] EXCEPT !.pc = pc]
  PROVE  /\ d \in cloned /\ JobShape(j) /\ j.pc = pc /\ j.branch = job[d].branch
         /\ j.branch \in Branches /\ refs[d][j.branch] # NoCommit
         /\ JobAt(j, origin[d], refs[d], head[d], work[d])
<1>1. /\ JobShape(job[d]) /\ d \in cloned
      /\ JobAt(job[d], origin[d], refs[d], head[d], work[d])
  BY AsItIs DEF Pushed
<1>2. JobShape(j) /\ j.pc = pc /\ j.project = job[d].project /\ j.branch = job[d].branch
  BY <1>1, GotoFields
<1>3. QED
  BY <1>1, <1>2 DEF JobAt, Early, Pushed, Writing

\* A change of one pull request by a job.
LEMMA PullStep ==
  ASSUME TrackerInv, NEW d \in Dirs, job[d].pc \in Pushed,
         UNCHANGED <<upstream, images, eksd, main, fork, cloned, origin, refs, head, work>>,
         NEW q, pulls' = [pulls EXCEPT ![job[d].branch] = q], PullShape(q),
         Return(d) \/ \E pc \in Pushed : Goto(d, pc)
  PROVE  TrackerInv'
<1> DEFINE b == job[d].branch
<1>1. /\ d \in cloned /\ b \in Branches /\ fork[b] # NoCommit
  BY AsItIs, Zenon DEF JobAt, Pushed, TrackerInv, SharedInv
<1>2. UpstreamInv'
  BY Zenon DEF TrackerInv, UpstreamInv
<1>3. ForkInv'
  <2>1. /\ pulls' = [a \in Branches |-> pulls'[a]]
        /\ \A a \in Branches : pulls'[a] = IF a = b THEN q ELSE pulls[a]
    BY <1>1, Zenon DEF TrackerInv, ForkInv
  <2>2. \A a \in Branches : /\ fork[a] # NoCommit => Good(fork[a]) /\ Ahead(main, fork[a].base)
                            /\ PullShape(pulls'[a])
                            /\ pulls'[a].state # "none" => fork[a] # NoCommit
    <3>1. ASSUME NEW a \in Branches
          PROVE  /\ fork[a] # NoCommit => Good(fork[a]) /\ Ahead(main, fork[a].base)
                 /\ PullShape(pulls'[a])
                 /\ pulls'[a].state # "none" => fork[a] # NoCommit
      <4>1. CASE a = b
        BY <1>1, <2>1, <4>1, Zenon DEF TrackerInv, ForkInv
      <4>2. CASE a # b
        BY <2>1, <4>2, Zenon DEF TrackerInv, ForkInv
      <4>3. QED
        BY <4>1, <4>2, Zenon
    <3>2. QED
      BY <3>1, Zenon
  <2>3. Sound(main') /\ fork' = [a \in Branches |-> fork'[a]]
    BY DEF TrackerInv, ForkInv
  <2>4. fork' = fork /\ main' = main
    BY Zenon
  <2>5. QED
    BY <2>1, <2>2, <2>3, <2>4 DEF ForkInv
<1>4. \E j : /\ job' = [job EXCEPT ![d] = j] /\ JobShape(j)
             /\ JobAt(j, origin[d], refs[d], head[d], work[d])
             /\ j.pc \in Pushed => j.branch = b
  <2>1. CASE Return(d)
    BY <2>1, IdleFields, Zenon DEF Return, Pushed
  <2>2. ASSUME NEW pc \in Pushed, Goto(d, pc)
        PROVE  <1>4
    <3>1. PICK j : j = [job[d] EXCEPT !.pc = pc]
      BY Zenon
    <3>2. job' = [job EXCEPT ![d] = j]
      BY <2>2, <3>1 DEF Goto, TrackerInv, Shapes
    <3>3. /\ JobShape(j) /\ JobAt(j, origin[d], refs[d], head[d], work[d])
          /\ j.branch = b
      BY <2>2, <3>1, PushedJob
    <3>4. QED
      BY <3>2, <3>3, Zenon
  <2>3. QED
    BY <2>1, <2>2, Zenon
<1>5. PICK j : /\ job' = [job EXCEPT ![d] = j] /\ JobShape(j)
               /\ JobAt(j, origin[d], refs[d], head[d], work[d])
               /\ j.pc \in Pushed => j.branch = b
  BY <1>4, Zenon
<1>6. /\ Shapes' /\ \A e \in Dirs : DirInv(e)'
      /\ job'[d] = j /\ \A e \in Dirs \ {d} : job'[e] = job[e]
  BY <1>1, <1>5, JobOnly, Zenon
<1>7. SharedInv'
  BY <1>1, <1>5, <1>6, Zenon DEF TrackerInv, SharedInv
<1>8. QED
  BY <1>2, <1>3, <1>6, <1>7, Zenon DEF TrackerInv

\* The list of the open pull requests, and the edit or creation of one.
LEMMA ListStep ==
  ASSUME TrackerInv, NEW d \in Dirs, ListPullRequests(d)
  PROVE  TrackerInv'
<1>1. /\ job[d].pc \in Pushed /\ \E pc \in Pushed : Goto(d, pc)
      /\ UNCHANGED <<upstream, images, eksd, main, fork, pulls, cloned, origin, refs, head, work>>
  BY Zenon DEF ListPullRequests, At, Pushed, upstreamVars, remoteVars, cloneVars
<1>2. job[d].branch \in Branches
  BY <1>1, AsItIs, Zenon DEF JobAt, Pushed
<1>3. PICK q : q = pulls[job[d].branch]
  BY Zenon
<1>4. PullShape(q) /\ pulls' = [pulls EXCEPT ![job[d].branch] = q]
  BY <1>1, <1>2, <1>3 DEF TrackerInv, ForkInv
<1>5. QED
  BY <1>1, <1>4, PullStep, Zenon

\* What changes in a pull request.
LEMMA PullFields ==
  ASSUME NEW q, PullShape(q), NEW x
  PROVE  /\ PullShape([q EXCEPT !.body = x]) /\ PullShape([q EXCEPT !.warned = x])
         /\ PullShape([q EXCEPT !.state = "closed"]) /\ [q EXCEPT !.state = "closed"].state = "closed"
         /\ PullShape([q EXCEPT !.state = "merged"]) /\ [q EXCEPT !.state = "merged"].state = "merged"
BY DEF PullShape

\* The edit of an open pull request, the creation of a new one and the warning.
LEMMA PullRequestSteps ==
  ASSUME TrackerInv, NEW d \in Dirs, EditPullRequest(d) \/ NewPullRequest(d) \/ CreateComment(d)
  PROVE  TrackerInv'
<1> DEFINE b == job[d].branch
           r == pulls[b]
<1>1. /\ job[d].pc \in Pushed
      /\ UNCHANGED <<upstream, images, eksd, main, fork, cloned, origin, refs, head, work>>
  BY Zenon DEF EditPullRequest, NewPullRequest, CreateComment, At, Pushed, upstreamVars, cloneVars
<1>2. b \in Branches
  BY <1>1, AsItIs DEF JobAt, Pushed
<1>3. PullShape(r) /\ pulls = [a \in Branches |-> pulls[a]]
  BY <1>2 DEF TrackerInv, ForkInv
<1>4. ASSUME afterPull(d)
      PROVE  Return(d) \/ \E pc \in Pushed : Goto(d, pc)
  BY <1>4, Zenon DEF afterPull, Pushed
<1>5. CASE Return(d) /\ UNCHANGED pulls
  BY <1>1, <1>5, FailStep
<1>6. CASE pulls' = [pulls EXCEPT ![b].body = body(job[d])] /\ afterPull(d)
  <2>1. PICK q : q = [r EXCEPT !.body = body(job[d])]
    BY Zenon
  <2>2. pulls' = [pulls EXCEPT ![b] = q] /\ PullShape(q)
    BY <1>2, <1>3, <1>6, <2>1, PullFields, Zenon
  <2>3. QED
    BY <1>1, <1>4, <1>6, <2>2, PullStep, Zenon
<1>7. CASE /\ pulls' = [pulls EXCEPT ![b] = [NoPull EXCEPT !.state = "open", !.body = body(job[d])]]
           /\ afterPull(d)
  <2>1. PICK q : q = [NoPull EXCEPT !.state = "open", !.body = body(job[d])]
    OBVIOUS
  <2>2. pulls' = [pulls EXCEPT ![b] = q] /\ PullShape(q)
    BY <1>7, <2>1, Zenon DEF PullShape, NoPull
  <2>3. QED
    BY <1>1, <1>4, <1>7, <2>2, PullStep, Zenon
<1>8. CASE pulls' = [pulls EXCEPT ![b].warned = @ \cup {job[d].latest}] /\ Return(d)
  <2>1. PICK q : q = [r EXCEPT !.warned = r.warned \cup {job[d].latest}]
    BY Zenon
  <2>2. pulls' = [pulls EXCEPT ![b] = q] /\ PullShape(q)
    BY <1>2, <1>3, <1>8, <2>1, PullFields, Zenon
  <2>3. QED
    BY <1>1, <1>8, <2>2, PullStep, Zenon
<1>9. QED
  BY <1>5, <1>6, <1>7, <1>8, Zenon DEF EditPullRequest, NewPullRequest, CreateComment, ReturnError

\* The push of every local branch.
LEMMA PushStep ==
  ASSUME TrackerInv, NEW d \in Dirs, Push(d)
  PROVE  TrackerInv'
<1> DEFINE b == job[d].branch
<1>1. /\ job[d].pc = "push" /\ Goto(d, "list")
      /\ fork' = [a \in Branches |-> IF refs[d][a] # NoCommit THEN refs[d][a] ELSE fork[a]]
      /\ UNCHANGED <<upstream, images, eksd, main, cloned, origin, refs, head, work>>
  BY DEF Push, At, upstreamVars, cloneVars
<1>2. PICK j : j = [job[d] EXCEPT !.pc = "list"]
  BY Zenon
<1>3. job' = [job EXCEPT ![d] = j]
  BY <1>1, <1>2 DEF Goto, TrackerInv, Shapes
<1>4. /\ d \in cloned /\ JobShape(j) /\ j.pc = "list" /\ j.branch = b
      /\ b \in Branches /\ refs[d][b] # NoCommit
      /\ JobAt(j, origin[d], refs[d], head[d], work[d])
  <2>1. job[d].pc \in {"push"} \cup Pushed /\ "list" \in Pushed
    BY <1>1 DEF Pushed
  <2>2. QED
    BY <1>2, <2>1, PushedJob
<1>5. /\ Shapes' /\ \A e \in Dirs : DirInv(e)'
      /\ job'[d] = j /\ \A e \in Dirs \ {d} : job'[e] = job[e]
  BY <1>1, <1>3, <1>4, JobOnly, Zenon
<1>6. \A a \in Branches :
        /\ fork'[a] # NoCommit => Good(fork'[a]) /\ Ahead(main, fork'[a].base)
        /\ fork[a] # NoCommit => fork'[a] # NoCommit
        /\ refs[d][a] # NoCommit => fork'[a] # NoCommit
  <2>1. \A a \in Branches : refs[d][a] # NoCommit => Good(refs[d][a]) /\ refs[d][a].base = origin[d]
    BY <1>4, AsItIs, Zenon DEF CloneOK
  <2>2. Ahead(main, origin[d])
    BY <1>4, Zenon DEF TrackerInv, SharedInv
  <2>3. \A a \in Branches : fork[a] # NoCommit => Good(fork[a]) /\ Ahead(main, fork[a].base)
    BY DEF TrackerInv, ForkInv
  <2>4. QED
    BY <1>1, <2>1, <2>2, <2>3
<1>7. /\ pulls' = [a \in Branches |-> pulls'[a]]
      /\ \A a \in Branches : \/ pulls'[a] = pulls[a]
                             \/ /\ pulls'[a] = [pulls[a] EXCEPT !.state = "closed"]
                                /\ pulls[a].state = "open"
  <2> DEFINE closed(a) == pulls[a].state = "open" /\ ~fork'[a].ahead
             q(a) == IF closed(a) THEN [pulls[a] EXCEPT !.state = "closed"] ELSE pulls[a]
  <2>1. pulls' = [a \in Branches |-> q(a)]
    BY Zenon DEF Push
  <2>2. \A a \in Branches : \/ q(a) = pulls[a]
                            \/ q(a) = [pulls[a] EXCEPT !.state = "closed"] /\ pulls[a].state = "open"
    BY Zenon
  <2> HIDE DEF q
  <2>3. QED
    BY <2>1, <2>2
<1>8. \A a \in Branches : PullShape(pulls'[a]) /\ (pulls'[a].state # "none" => fork'[a] # NoCommit)
  <2>1. ASSUME NEW a \in Branches
        PROVE  PullShape(pulls'[a]) /\ (pulls'[a].state # "none" => fork'[a] # NoCommit)
    <3>1. PullShape(pulls[a]) /\ (pulls[a].state # "none" => fork[a] # NoCommit)
      BY Zenon DEF TrackerInv, ForkInv
    <3>2. CASE pulls'[a] = pulls[a]
      BY <1>6, <3>1, <3>2
    <3>3. CASE pulls'[a] = [pulls[a] EXCEPT !.state = "closed"] /\ pulls[a].state = "open"
      <4>1. PullShape(pulls'[a])
        BY <3>1, <3>3, PullFields, Zenon
      <4>2. QED
        BY <1>6, <3>1, <3>3, <4>1
    <3>4. QED
      BY <1>7, <3>2, <3>3
  <2>2. QED
    BY <2>1
<1>9. ForkInv'
  <2>1. Sound(main) /\ fork' = [a \in Branches |-> fork'[a]]
    BY <1>1, Zenon DEF TrackerInv, ForkInv
  <2>2. main' = main
    BY <1>1, Zenon
  <2>3. QED
    BY <1>6, <1>7, <1>8, <2>1, <2>2, Zenon DEF ForkInv
<1>10. SharedInv'
  <2>1. \A e \in cloned' : Ahead(main, origin'[e])
    BY <1>1, Zenon DEF TrackerInv, SharedInv
  <2>2. ASSUME NEW e \in Dirs, job'[e].pc \in Pushed
        PROVE  fork'[job'[e].branch] # NoCommit
    <3>1. CASE e = d
      BY <1>4, <1>5, <1>6, <3>1, Zenon
    <3>2. CASE e # d
      <4>1. job[e].pc \in Pushed /\ job'[e] = job[e]
        BY <1>5, <2>2, <3>2, Zenon
      <4>2. job[e].branch \in Branches
        BY <4>1, AsItIs DEF JobAt, Pushed
      <4>3. QED
        BY <1>6, <4>1, <4>2, Zenon DEF TrackerInv, SharedInv
    <3>3. QED
      BY <3>1, <3>2, Zenon
  <2>3. main' = main
    BY <1>1
  <2>4. QED
    BY <2>1, <2>2, <2>3, Zenon DEF SharedInv
<1>11. UpstreamInv'
  BY <1>1, Zenon DEF TrackerInv, UpstreamInv
<1>12. QED
  BY <1>5, <1>9, <1>10, <1>11 DEF TrackerInv

-----------------------------------------------------------------------------
\* The world around the jobs.

\* Whatever happens on GitHub, the directories and jobs stay as they are.
LEMMA DirsKept ==
  ASSUME TrackerInv, UNCHANGED <<cloned, origin, refs, head, work, job>>
  PROVE  Shapes' /\ \A d \in Dirs : DirInv(d)'
<1>1. Shapes'
  BY Zenon DEF TrackerInv, Shapes, JobShape
<1>2. ASSUME NEW d \in Dirs PROVE DirInv(d)'
  <2>1. DirInv(d)
    BY Zenon DEF TrackerInv
  <2>2. QED
    BY <2>1, Zenon DEF DirInv
<1>3. QED
  BY <1>1, <1>2

\* Upstream publishes something.
LEMMA UpstreamStep ==
  ASSUME TrackerInv, Upstream
  PROVE  TrackerInv' /\ main' = main
<1>1. UNCHANGED <<main, fork, pulls, cloned, origin, refs, head, work, job>>
  BY Zenon DEF Upstream, Publish, PublishImage, ReleaseEKSDistro, remoteVars, cloneVars
<1>2. UpstreamInv'
  <2>1. UpstreamInv
    BY Zenon DEF TrackerInv
  <2>2. ASSUME NEW s \in Sources, NEW r \in Revisions, Publish(s, r)
        PROVE  UpstreamInv'
    <3>1. <<r>> \o upstream[s] \in Seq(Revisions)
      BY <2>1 DEF UpstreamInv
    <3>2. QED
      BY <2>1, <2>2, <3>1 DEF UpstreamInv, Publish
  <2>3. ASSUME NEW s \in Slots, NEW v \in Versions, PublishImage(s, v)
        PROVE  UpstreamInv'
    BY <2>1, <2>3 DEF UpstreamInv, PublishImage
  <2>4. ASSUME ReleaseEKSDistro
        PROVE  UpstreamInv'
    BY <2>1, <2>4 DEF UpstreamInv, ReleaseEKSDistro
  <2>5. [v : Versions, t : 1..MaxDate, release : BOOLEAN] \subseteq Revisions
    BY DEF Revisions
  <2>6. QED
    BY <2>2, <2>3, <2>4, <2>5 DEF Upstream
<1>3. ForkInv' /\ SharedInv'
  BY <1>1 DEF TrackerInv, ForkInv, SharedInv, Sound, Agree
<1>4. QED
  BY <1>1, <1>2, <1>3, DirsKept DEF TrackerInv

\* A commit stays good when no file that records a version changes.
LEMMA SameVersions ==
  ASSUME NEW c, Good(c), NEW t \in Tree,
         \A p \in Tracked, n \in Tags \cup Gos : t[<<p, n>>] = c.tree[<<p, n>>],
         NEW e, e = [c EXCEPT !.tree = t]
  PROVE  Good(e) /\ e.base = c.base
<1>1. e.base = c.base /\ e.tree = t /\ e \in Commit
  BY DEF Good, Commit
<1>2. Sound(t)
  BY Zenon DEF Good, Sound, Agree, Tracked, Tags, Gos
<1>3. QED
  BY <1>1, <1>2, Zenon DEF Good, Ahead, Tags, Gos

\* A developer completes a pull request.
LEMMA CompleteStep ==
  ASSUME TrackerInv, NEW b \in Branches, Complete(b)
  PROVE  TrackerInv' /\ main' = main
<1> DEFINE c == fork[b]
           t == [f \in DOMAIN c.tree |->
                   IF f[2] = "CHECKSUMS" THEN c.tree[<<f[1], "GIT_TAG">>] ELSE c.tree[f]]
<1>1. UNCHANGED <<upstream, images, eksd, main, pulls, cloned, origin, refs, head, work, job>>
  BY DEF Complete, upstreamVars, cloneVars
<1>2. Good(c) /\ Ahead(main, c.base)
  BY DEF Complete, TrackerInv, ForkInv
<1>3. PICK e : e = [c EXCEPT !.tree = t]
  BY Zenon
<1>4. fork' = [fork EXCEPT ![b] = e]
  BY <1>3 DEF Complete, TrackerInv, ForkInv
<1>5. c.tree \in Tree /\ DOMAIN c.tree = Files
  BY <1>2 DEF Good, Sound, Tree
<1>6. t \in Tree
  <2>1. \A f \in Files : f[2] = "CHECKSUMS" => <<f[1], "GIT_TAG">> \in Files
    <3>1. ASSUME NEW f \in Files, f[2] = "CHECKSUMS"
          PROVE  <<f[1], "GIT_TAG">> \in Files
      <4>1. f[1] \in Projects /\ "CHECKSUMS" \in namesOf(f[1])
        BY <3>1, FileNames
      <4>2. f[1] # EKSDistro
        BY <4>1 DEF namesOf
      <4>3. QED
        BY <4>1, <4>2, FileNames DEF Tracked, Tags
    <3>2. QED
      BY <3>1
  <2>2. QED
    BY <1>5, <2>1 DEF Tree
<1>7. \A p \in Tracked, n \in Tags \cup Gos : t[<<p, n>>] = c.tree[<<p, n>>]
  BY <1>5, FileNames, Zenon DEF Tags, Gos
<1> HIDE DEF t, c
<1>8. Good(e) /\ e.base = c.base
  BY <1>2, <1>3, <1>6, <1>7, SameVersions
<1>9. e # NoCommit
  <2>1. Projects # {}
    BY DEF Branches
  <2>2. QED
    BY <1>8, <2>1, GoodIsSome
<1>10. fork' = [a \in Branches |-> fork'[a]] /\ fork'[b] = e /\ \A a \in Branches \ {b} : fork'[a] = fork[a]
  BY <1>4, Zenon DEF TrackerInv, ForkInv
<1>11. ForkInv'
  <2>1. ForkInv
    BY Zenon DEF TrackerInv
  <2>2. \A a \in Branches :
          /\ fork'[a] # NoCommit => Good(fork'[a]) /\ Ahead(main, fork'[a].base)
          /\ fork[a] # NoCommit => fork'[a] # NoCommit
    BY <1>2, <1>8, <1>9, <1>10, <2>1 DEF ForkInv
  <2>3. main' = main /\ pulls' = pulls
    BY <1>1
  <2>4. QED
    BY <1>10, <2>1, <2>2, <2>3 DEF ForkInv
<1>12. SharedInv'
  <2>1. \A d \in Dirs : job[d].pc \in Pushed => job[d].branch \in Branches
    BY AsItIs, Zenon DEF JobAt, Pushed
  <2>2. \A d \in Dirs : job[d].pc \in Pushed => fork'[job[d].branch] # NoCommit
    BY <1>9, <1>10, <2>1 DEF TrackerInv, SharedInv
  <2>3. QED
    BY <1>1, <2>2, Zenon DEF TrackerInv, SharedInv
<1>13. UpstreamInv'
  BY <1>1 DEF TrackerInv, UpstreamInv
<1>14. QED
  BY <1>1, <1>11, <1>12, <1>13, DirsKept, Zenon DEF TrackerInv

\* A project that is not behind where it was is not behind where it was before.
LEMMA AheadTrans ==
  ASSUME NEW n, Sound(n), NEW m, Sound(m), NEW o, Sound(o), Ahead(n, m), Ahead(m, o)
  PROVE  Ahead(n, o)
<1>1. ASSUME NEW p \in Tracked, NEW k \in {"GIT_TAG", "GOLANG_VERSION"}
      PROVE  n[<<p, k>>] >= o[<<p, k>>]
  <2>1. <<p, k>> \in Files
    BY FileNames, Zenon DEF Tags, Gos
  <2>2. n[<<p, k>>] \in Nat /\ m[<<p, k>>] \in Nat /\ o[<<p, k>>] \in Nat
    BY <2>1 DEF Sound, Tree
  <2>3. n[<<p, k>>] >= m[<<p, k>>] /\ m[<<p, k>>] >= o[<<p, k>>]
    BY Zenon DEF Ahead
  <2>4. \A x, y, z \in Nat : x >= y /\ y >= z => x >= z
    OBVIOUS
  <2>5. QED
    BY <2>2, <2>3, <2>4, Zenon
<1>2. QED
  BY <1>1, Zenon DEF Ahead

\* A maintainer merges a pull request.
LEMMA MergeStep ==
  ASSUME TrackerInv, NEW b \in Branches, Merge(b)
  PROVE  TrackerInv' /\ Ahead(main', main)
<1> DEFINE c == fork[b]
<1>1. /\ UNCHANGED <<upstream, images, eksd, fork, cloned, origin, refs, head, work, job>>
      /\ pulls[b].state = "open" /\ pulls' = [pulls EXCEPT ![b].state = "merged"]
      /\ \A f \in changes(c) : main[f] \in {c.base[f], c.tree[f]}
      /\ main' = [f \in DOMAIN main |-> IF f \in changes(c) THEN c.tree[f] ELSE main[f]]
  BY DEF Merge, upstreamVars, cloneVars
<1>2. Sound(main) /\ Good(c) /\ Ahead(main, c.base)
  BY <1>1 DEF TrackerInv, ForkInv
<1>3. PICK n : n = main'
  OBVIOUS
<1>4. Sound(n) /\ Ahead(n, main)
  BY <1>1, <1>2, <1>3, Merged
<1>5. PICK q : q = [pulls[b] EXCEPT !.state = "merged"]
  BY Zenon
<1>6. pulls' = [pulls EXCEPT ![b] = q] /\ PullShape(q)
  BY <1>1, <1>5, PullFields, Zenon DEF TrackerInv, ForkInv
<1>7. ForkInv'
  <2>1. ForkInv
    BY DEF TrackerInv
  <2>2. ASSUME NEW a \in Branches, fork[a] # NoCommit
        PROVE  Good(fork[a]) /\ Ahead(n, fork[a].base)
    BY <1>2, <1>4, <2>1, <2>2, AheadTrans, Zenon DEF ForkInv, Good
  <2>3. /\ pulls' = [a \in Branches |-> pulls'[a]]
        /\ \A a \in Branches : PullShape(pulls'[a]) /\ (pulls'[a].state # "none" => fork[a] # NoCommit)
    <3>1. /\ pulls'[b] = q /\ \A a \in Branches \ {b} : pulls'[a] = pulls[a]
          /\ pulls' = [a \in Branches |-> pulls'[a]]
      BY <1>6, <2>1 DEF ForkInv
    <3>2. fork[b] # NoCommit
      BY <1>1, <2>1 DEF ForkInv
    <3>3. QED
      BY <1>6, <2>1, <3>1, <3>2 DEF ForkInv
  <2>4. Sound(main')
    BY <1>3, <1>4
  <2>5. fork' = fork
    BY <1>1
  <2>6. QED
    BY <1>3, <2>1, <2>2, <2>3, <2>4, <2>5, Zenon DEF ForkInv
<1>8. SharedInv'
  <2>1. ASSUME NEW d \in cloned PROVE Ahead(n, origin[d])
    <3>1. d \in Dirs
      BY DEF TrackerInv, Shapes
    <3>2. Sound(origin[d]) /\ Ahead(main, origin[d])
      BY <3>1, AsItIs, Zenon DEF CloneOK, TrackerInv, SharedInv
    <3>3. QED
      BY <1>2, <1>4, <3>2, AheadTrans
  <2>2. QED
    BY <1>1, <1>3, <2>1, Zenon DEF TrackerInv, SharedInv
<1>9. UpstreamInv'
  BY <1>1 DEF TrackerInv, UpstreamInv
<1>10. QED
  BY <1>1, <1>3, <1>4, <1>7, <1>8, <1>9, DirsKept DEF TrackerInv

-----------------------------------------------------------------------------
\* The invariant holds.

\* It holds before the first job.
LEMMA InitInv ==
  ASSUME Init
  PROVE  TrackerInv
<1>1. FirstTree \in Tree /\ \A f \in Files :
        FirstTree[f] = IF f[2] \in {"GOLANG_VERSION", "TRACKER_GO"} THEN GoMinor[1] ELSE 1
  <2>1. GoMinor[1] \in Nat
    BY VersionsAssumption DEF VersionsAssumption, Versions
  <2>2. QED
    BY <2>1 DEF FirstTree, Tree
<1>2. Sound(main)
  <2>1. 1 \in Versions /\ GoMinor[1] \in Nat
    BY VersionsAssumption DEF VersionsAssumption, Versions
  <2>2. main = FirstTree
    BY DEF Init
  <2>3. \A p \in Tracked : /\ \A n \in Tags : main[<<p, n>>] = 1
                           /\ \A n \in Gos : main[<<p, n>>] = GoMinor[1]
    BY <1>1, <2>2, FileNames, Zenon DEF Tags, Gos
  <2>4. ASSUME NEW p \in Tracked
        PROVE  main[<<p, "GOLANG_VERSION">>] >= GoMinor[main[<<p, "GIT_TAG">>]]
    <3>1. PICK go : go = GoMinor[1]
      OBVIOUS
    <3>2. main[<<p, "GOLANG_VERSION">>] = go /\ GoMinor[main[<<p, "GIT_TAG">>]] = go
      BY <2>3, <3>1, Zenon DEF Tags, Gos
    <3>3. go >= go
      BY <2>1, <3>1
    <3>4. QED
      BY <3>2, <3>3
  <2>5. main \in Tree
    BY <1>1, <2>2
  <2>6. QED
    BY <2>1, <2>3, <2>4, <2>5, Zenon DEF Sound, Agree, Tracked, Tags, Gos
<1>3. Shapes
  BY IdleFields, Zenon DEF Init, Shapes
<1>4. UpstreamInv
  <2> DEFINE r == [v |-> 1, t |-> 1, release |-> TRUE]
  <2>1. r \in Revisions
    BY VersionsAssumption DEF VersionsAssumption, Versions, Revisions
  <2> HIDE DEF r
  <2>2. upstream = [s \in Sources |-> <<r>>]
    BY DEF Init, r
  <2>3. <<r>> \in Seq(Revisions)
    BY <2>1
  <2>4. images = {} /\ eksd.number = 1 /\ eksd.kube = 1
    BY Zenon DEF Init
  <2>5. QED
    BY <2>2, <2>3, <2>4 DEF UpstreamInv
<1>5. ForkInv
  <2>1. PullShape(NoPull) /\ NoPull.state = "none"
    BY Zenon DEF PullShape, NoPull
  <2>2. QED
    BY <1>2, <2>1, Zenon DEF Init, ForkInv
<1>6. SharedInv
  BY IdleFields DEF Init, SharedInv, Pushed
<1>7. \A d \in Dirs : DirInv(d)
  BY IdleFields, Zenon DEF Init, DirInv, Empty
<1>8. QED
  BY <1>3, <1>4, <1>5, <1>6, <1>7 DEF TrackerInv

\* Every step of a job keeps it and leaves main alone.
LEMMA JobStep ==
  ASSUME TrackerInv, NEW d \in Dirs, Step(d)
  PROVE  TrackerInv' /\ main' = main
<1>1. TrackerInv'
  BY CloneRepoStep, GetRevisionsStep, CheckoutStep, ResetStep, UpdateStep, BottlerocketStep,
     ReadNumberStep, EKSDistroStep, CommitStep, PushStep, ListStep, PullRequestSteps
     DEF Step
<1>2. main' = main
  BY Zenon DEF Step, CloneRepo, GetRevisions, Checkout, checkout, ResetToMain, UpdateProject,
         CheckoutBottlerocket, UpdateBottlerocket, ReadReleaseNumber, UpdateEKSDistro, AddCommit,
         Push, ListPullRequests, EditPullRequest, NewPullRequest, CreateComment
<1>3. QED
  BY <1>1, <1>2, Zenon

\* Every other step in a directory keeps it and leaves main alone.
LEMMA DirStep ==
  ASSUME TrackerInv, NEW d \in Dirs,
         \/ \E p \in Projects, dry \in BOOLEAN : Start(d, p, dry)
         \/ Fail(d) \/ Display(d) \/ ListProjects(d) \/ Clean(d)
  PROVE  TrackerInv' /\ main' = main
<1>1. CASE \E p \in Projects, dry \in BOOLEAN : Start(d, p, dry)
  BY <1>1, StartStep, Zenon DEF Start
<1>2. CASE Fail(d)
  <2>1. /\ Return(d)
        /\ UNCHANGED <<upstream, images, eksd, main, fork, pulls, cloned, origin, refs, head, work>>
    BY <1>2, Zenon DEF Fail, ReturnError, upstreamVars, remoteVars, cloneVars
  <2>2. QED
    BY <2>1, FailStep, Zenon
<1>3. CASE Display(d) \/ ListProjects(d)
  <2>1. readOnly(d)
    BY <1>3, Zenon DEF Display, ListProjects
  <2>2. QED
    BY <2>1, ReadOnlyStep DEF readOnly
<1>4. CASE Clean(d)
  BY <1>4, CleanStep, Zenon DEF Clean
<1>5. QED
  BY <1>1, <1>2, <1>3, <1>4

\* Every step of the world keeps it and moves no project of main back.
LEMMA WorldStep ==
  ASSUME TrackerInv, World
  PROVE  TrackerInv' /\ (main' = main \/ Ahead(main', main))
BY UpstreamStep, CompleteStep, MergeStep DEF World

\* Every step keeps it, with the commands run by hand and in the nightly batches.
LEMMA NextStep ==
  ASSUME TrackerInv, [Next \/ NightlyNext]_vars
  PROVE  TrackerInv' /\ (main' = main \/ Ahead(main', main))
<1>1. CASE Next
  BY <1>1, JobStep, DirStep, WorldStep DEF Next
<1>2. CASE NightlyNext
  BY <1>2, JobStep, DirStep, WorldStep, Zenon DEF NightlyNext, NightlyStart
<1>3. CASE UNCHANGED vars
  <2>1. UNCHANGED <<upstream, images, eksd, main, fork, pulls, cloned, origin, refs, head, work, job>>
    BY <1>3, Zenon DEF vars, upstreamVars, remoteVars, cloneVars
  <2>2. UpstreamInv' /\ ForkInv' /\ SharedInv'
    BY <2>1, Zenon DEF TrackerInv, UpstreamInv, ForkInv, SharedInv, Sound, Agree
  <2>3. QED
    BY <2>1, <2>2, DirsKept, Zenon DEF TrackerInv
<1>4. QED
  BY <1>1, <1>2, <1>3, Zenon

\* It holds at every point of every run.
THEOREM TrackerInvariant == Init /\ [][Next \/ NightlyNext]_vars => []TrackerInv
<1>1. Init => TrackerInv
  BY InitInv
<1>2. TrackerInv /\ [Next \/ NightlyNext]_vars => TrackerInv'
  BY NextStep
<1>3. QED
  BY <1>1, <1>2, PTL

\* Both specifications are covered by it.
LEMMA SpecsInvariant == Spec \/ NightlySpec => []TrackerInv
<1>1. [Next]_vars => [Next \/ NightlyNext]_vars
  OBVIOUS
<1>2. [NightlyNext]_vars => [Next \/ NightlyNext]_vars
  OBVIOUS
<1>3. Spec => []TrackerInv
  BY <1>1, TrackerInvariant, PTL DEF Spec
<1>4. NightlySpec => []TrackerInv
  BY <1>2, TrackerInvariant, PTL DEF NightlySpec
<1>5. QED
  BY <1>3, <1>4

\* The versions, trees, commits and pull requests have their types.
LEMMA InvTypes == TrackerInv => TypeOK
<1> SUFFICES ASSUME TrackerInv PROVE TypeOK
  OBVIOUS
<1>1. \A s \in Sources : \A i \in DOMAIN upstream[s] : upstream[s][i].v \in Versions
  <2>1. ASSUME NEW s \in Sources, NEW i \in DOMAIN upstream[s]
        PROVE  upstream[s][i].v \in Versions
    <3>1. upstream[s] \in Seq(Revisions)
      BY DEF TrackerInv, UpstreamInv
    <3>2. upstream[s][i] \in Revisions
      BY <3>1
    <3>3. QED
      BY <3>2 DEF Revisions
  <2>2. QED
    BY <2>1, Zenon
<1>2. images \subseteq Slots \X Versions /\ main \in Tree
  BY Zenon DEF TrackerInv, UpstreamInv, ForkInv, Sound
<1>3. \A b \in Branches : /\ fork[b] \in Commit \cup {NoCommit}
                          /\ pulls[b].state \in {"none", "open", "closed", "merged"}
                          /\ pulls[b].state # "none" => fork[b] \in Commit
  BY Zenon DEF TrackerInv, ForkInv, PullShape, Good
<1>4. ASSUME NEW d \in Dirs
      PROVE  /\ d \in cloned => origin[d] \in Tree /\ work[d] \in Tree
             /\ \A b \in Branches : refs[d][b] \in Commit \cup {NoCommit}
             /\ head[d] # "main" => refs[d][head[d]] \in Commit
  <2>1. DirInv(d)
    BY DEF TrackerInv
  <2>2. CASE d \in cloned
    BY <2>1, <2>2, Zenon DEF DirInv, CloneOK, Sound, Good
  <2>3. CASE d \notin cloned
    BY <2>1, <2>3, Zenon DEF DirInv, Empty
  <2>4. QED
    BY <2>2, <2>3
<1>5. QED
  BY <1>1, <1>2, <1>3, <1>4, Zenon DEF TypeOK

\* The types of the tracker's state, for any number of directories and projects.
THEOREM TypesHold == Spec \/ NightlySpec => []TypeOK
BY SpecsInvariant, InvTypes, PTL

\* The commit of a job is made on origin/main and changes one project.
LEMMA InvCommit == TrackerInv => CommitIsOneUpgrade
<1> SUFFICES ASSUME TrackerInv, NEW d \in Dirs, Committed(d)
             PROVE  LET c == refs[d][job[d].branch]
                    IN  c.base = origin[d] /\ \A f \in changes(c) : f[1] = job[d].project
  BY Zenon DEF CommitIsOneUpgrade
<1>1. job[d].pc \in {"push"} \cup Pushed
  BY Zenon DEF Committed, Pushed
<1>2. /\ CloneOK(origin[d], refs[d], head[d], work[d])
      /\ JobAt(job[d], origin[d], refs[d], head[d], work[d])
  BY <1>1, AsItIs, Zenon DEF Pushed
<1>3. QED
  BY <1>1, <1>2, Zenon DEF CloneOK, JobAt

\* Whatever earlier jobs left in its directory, a job commits on origin/main and
\* changes files of its own project only: upgrade.go from ResetToMain to Commit.
THEOREM CommitsAreUpgrades == Spec \/ NightlySpec => []CommitIsOneUpgrade
BY SpecsInvariant, InvCommit, PTL

\* The files agree on main and on every pushed branch.
LEMMA InvAgree == TrackerInv => VersionsAgree
BY Zenon DEF TrackerInv, ForkInv, VersionsAgree, Good, Sound

\* GIT_TAG, the tracker file, the README and the Go version files of every project
\* agree on main and on every pushed branch, whichever jobs fail half-way and in
\* whichever order pull requests are merged.
THEOREM VersionsAlwaysAgree == Spec \/ NightlySpec => []VersionsAgree
BY SpecsInvariant, InvAgree, PTL

\* No step moves a project of main back.
LEMMA StepForward ==
  ASSUME TrackerInv, [Next \/ NightlyNext]_vars
  PROVE  [\A p \in Projects \ {EKSDistro} :
            main'[<<p, "GIT_TAG">>] >= main[<<p, "GIT_TAG">>]]_vars
<1>1. CASE main' = main
  <2>1. Ahead(main, main)
    BY AheadSelf DEF TrackerInv, ForkInv
  <2>2. QED
    BY <1>1, <2>1, Zenon DEF Ahead, Tracked
<1>2. CASE Ahead(main', main)
  BY <1>2, Zenon DEF Ahead, Tracked
<1>3. QED
  BY <1>1, <1>2, NextStep

\* No merge of the tracker's pull requests moves a project back to an older version,
\* although a stale clone or a slow job may push an old upgrade late.
THEOREM NoDowngrade == Spec \/ NightlySpec => NeverDowngraded
<1>1. TrackerInv /\ [Next]_vars =>
        [\A p \in Projects \ {EKSDistro} : main'[<<p, "GIT_TAG">>] >= main[<<p, "GIT_TAG">>]]_vars
  BY StepForward, Zenon
<1>2. TrackerInv /\ [NightlyNext]_vars =>
        [\A p \in Projects \ {EKSDistro} : main'[<<p, "GIT_TAG">>] >= main[<<p, "GIT_TAG">>]]_vars
  BY StepForward
<1>3. Spec => NeverDowngraded
  BY <1>1, SpecsInvariant, PTL DEF Spec, NeverDowngraded
<1>4. NightlySpec => NeverDowngraded
  BY <1>2, SpecsInvariant, PTL DEF NightlySpec, NeverDowngraded
<1>5. QED
  BY <1>3, <1>4, Zenon

=============================================================================
