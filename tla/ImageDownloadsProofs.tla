------------------------ MODULE ImageDownloadsProofs ------------------------
(***************************************************************************)
(* Proofs about what the downloads of the image-builder CLI leave behind,  *)
(* for any number of commands, failures, releases and tarballs: the        *)
(* manifests in the tarball, the artifacts, and the types of all that a    *)
(* command reads and writes.  They rest on the invariant of the clones.    *)
(***************************************************************************)
EXTENDS ImageBuilderProofs

\* The running command: it stands at a step of its kind, and from the lookup of its
\* bundle on it has a published release, which is the commit that it checks out.
CmdOK ==
  /\ cmd.o \in Requests \cup {NoOptions} /\ cmd.pc \in steps(cmd.o.kind)
  /\ cmd.id \in 0..MaxCommands
  /\ cmd.pc # "idle" => cmd.id # 0
  /\ cmd.bundle \in 0..MaxRelease
  /\ cmd.pc \in Holding \cup {"clone"} => cmd.bundle \in 1..MaxRelease
  /\ cmd.ignored \subseteq {"channels", "page", "walk"}
CheckedOut == cmd.pc \in Holding \ {"checkout"} => repo.commit = cmd.bundle

\* The manifests, wherever they are kept.
Contents(files) == \A f \in DOMAIN files : files[f] \in -1..MaxRelease
Extracts(files, n) ==
  \A f \in DOMAIN files : files[f] \in [of : -1..MaxRelease, rewritten : BOOLEAN, from : 1..n]
FilesOK ==
  /\ Contents(manifests) /\ Contents(tarball.files) /\ tarball.number \in Nat
  /\ Extracts(extracted, tarball.number)

\* What download manifests has collected: the EKS-D manifests of its commit, unless
\* it could not read their list, a releases manifest, and the bundles of the releases
\* in that.
HasEksD(files) ==
  "channels" \notin cmd.ignored => \A c \in EksDChannels[cmd.bundle] :
     /\ EksDManifest(c) \in DOMAIN files
     /\ files[EksDManifest(c)] \in {cmd.bundle, ErrorPage}
HasReleases(files) ==
  ReleasesManifest \in DOMAIN files /\ files[ReleasesManifest] \in 0..MaxRelease
HasBundles(files) ==
  \A r \in 1..files[ReleasesManifest] :
     BundlesManifest(r) \in DOMAIN files /\ files[BundlesManifest(r)] \in {r, ErrorPage}
HasAll(files) == HasEksD(files) /\ HasReleases(files) /\ HasBundles(files)
Collected ==
  cmd.o.kind = "manifests" =>
    /\ cmd.pc \in {"releases", "bundles", "tar"} => HasEksD(manifests)
    /\ cmd.pc \in {"bundles", "tar"} => HasReleases(manifests)
    /\ cmd.pc = "tar" => HasBundles(manifests)
    /\ cmd.pc \in {"rmdir", "cleanup"} /\ "walk" \notin cmd.ignored => HasAll(tarball.files)

CollectInv == latest \in 1..MaxRelease /\ CmdOK /\ CheckedOut /\ FilesOK /\ Collected

\* A command that runs was started with one of the command lines.
LEMMA Running ==
  ASSUME CmdOK, cmd.pc # "idle"
  PROVE  cmd.o \in Requests /\ cmd.o.kind \in All
BY ImageAssumption DEF CmdOK, steps, NoOptions, All

\* A command ends.
LEMMA CollectExit ==
  ASSUME CollectInv, CmdShape, Exit, latest' = latest, FilesOK'
  PROVE  CollectInv'
<1>1. /\ cmd'.pc = "idle" /\ cmd'.id = cmd.id /\ cmd'.o = NoOptions /\ cmd'.o.kind = "none"
      /\ cmd'.bundle = 0 /\ cmd'.ignored = {}
  BY ExitFields
<1>2. CmdOK'
  BY <1>1, ImageAssumption DEF CollectInv, CmdOK, steps, Holding
<1>3. CheckedOut' /\ Collected'
  BY <1>1 DEF CheckedOut, Collected, Holding
<1>4. QED
  BY <1>2, <1>3 DEF CollectInv

\* A command goes on to the step s, perhaps after an error that it drops.
Moves(s) == Goto(s) \/ \E e \in {"channels", "page", "walk"} : Ignore(e, s)

\* A command that goes on forgets no error.
LEMMA MovesFields ==
  ASSUME CmdShape, NEW s, Moves(s)
  PROVE  /\ cmd'.pc = s /\ cmd'.id = cmd.id /\ cmd'.o = cmd.o /\ cmd'.bundle = cmd.bundle
         /\ cmd.ignored \subseteq cmd'.ignored
         /\ cmd'.ignored \subseteq cmd.ignored \cup {"channels", "page", "walk"}
BY GotoFields, IgnoreFields DEF Moves

\* A command goes on to another step of its kind.
LEMMA CmdGoto ==
  ASSUME CmdOK, CmdShape, NEW s, Moves(s), cmd.pc # "idle", s \in steps(cmd.o.kind),
         s \in Holding \cup {"clone"} => cmd.pc \in Holding \cup {"clone"}
  PROVE  CmdOK'
BY MovesFields DEF CmdOK

\* A step before the checkout that leaves the manifests alone.
LEMMA CollectEarly ==
  ASSUME CollectInv, CmdShape, NEW s \in {"rewrite", "force", "bundle", "checkout"}, Goto(s),
         cmd.pc # "idle", s \in steps(cmd.o.kind), s = "checkout" => cmd.pc = "clone",
         latest' = latest, FilesOK'
  PROVE  CollectInv'
<1>1. CmdOK'
  BY CmdGoto DEF CollectInv, Holding, Moves
<1>2. cmd'.pc = s /\ cmd'.o = cmd.o
  BY GotoFields
<1>3. CheckedOut' /\ Collected'
  BY <1>2 DEF CheckedOut, Collected, Holding
<1>4. QED
  BY <1>1, <1>3 DEF CollectInv

\* A step after the checkout, of a command that does not download manifests.
LEMMA CollectLater ==
  ASSUME CollectInv, CmdShape, NEW s \in Holding, Goto(s), cmd.pc \in Holding \ {"checkout"},
         s \in steps(cmd.o.kind), cmd.o.kind # "manifests", repo'.commit = repo.commit,
         latest' = latest, manifests' = manifests, tarball' = tarball, extracted' = extracted
  PROVE  CollectInv'
<1>1. CmdOK'
  BY CmdGoto DEF CollectInv, Holding, Moves
<1>2. cmd'.o = cmd.o /\ cmd'.bundle = cmd.bundle
  BY GotoFields
<1>3. CheckedOut' /\ Collected' /\ FilesOK'
  BY <1>2 DEF CollectInv, CheckedOut, Collected, FilesOK
<1>4. QED
  BY <1>1, <1>3 DEF CollectInv

\* Typed files saved over typed files.
LEMMA SaveOverTyped ==
  ASSUME NEW old, NEW new, Contents(old), Contents(new)
  PROVE  Contents(saveOver(old, new))
BY DEF Contents, saveOver

\* Some of a set of typed files.
LEMMA RestrictTyped ==
  ASSUME NEW files, Contents(files), NEW S \in SUBSET DOMAIN files
  PROVE  Contents(Restrict(files, S))
BY DEF Contents, Restrict

\* The files of the tarball, extracted, are typed.
LEMMA ExtractsTyped ==
  ASSUME NEW S \in SUBSET DOMAIN tarball.files, Contents(tarball.files), tarball.number \in Nat \ {0}
  PROVE  Extracts(fromTarball(S), tarball.number)
BY DEF Extracts, Contents, fromTarball

\* extractTarball keeps the manifests typed, whether all or some of them are written.
LEMMA CollectExtract ==
  ASSUME CollectInv, CmdShape, extractTarball
  PROVE  CollectInv'
<1>1. cmd.pc = "extract" /\ cmd.o.kind = "build" /\ latest' = latest /\ manifests' = manifests /\ tarball' = tarball
  BY DEF extractTarball, At
<1>2. CASE ~hasDomains(cmd.o) \/ tarball.number = 0
  <2>1. Exit /\ FilesOK'
    BY <1>1, <1>2 DEF extractTarball, Break, CollectInv, FilesOK
  <2>2. QED
    BY <1>1, <2>1, CollectExit
<1>3. CASE ~(~hasDomains(cmd.o) \/ tarball.number = 0)
  <2>1. /\ \E S \in SUBSET DOMAIN tarball.files : extracted' = fromTarball(S)
        /\ Fail \/ Goto("rewrite")
    BY <1>3 DEF extractTarball
  <2>2. FilesOK'
    BY <1>1, <1>3, <2>1, ExtractsTyped DEF CollectInv, FilesOK
  <2>3. "rewrite" \in steps(cmd.o.kind)
    BY <1>1 DEF steps
  <2>4. QED
    BY <1>1, <2>1, <2>2, <2>3, CollectExit, CollectEarly DEF Fail
<1>4. QED
  BY <1>2, <1>3

\* replaceDomains keeps the manifests typed, also when it loses one.
LEMMA CollectRewrite ==
  ASSUME CollectInv, CmdShape, replaceDomains
  PROVE  CollectInv'
<1> DEFINE entry(f, S) == [extracted[f] EXCEPT !.rewritten = @ \/ f \in S]
           rewrite(S) == [f \in DOMAIN extracted |-> entry(f, S)]
<1>1. cmd.pc = "rewrite" /\ cmd.o.kind = "build" /\ latest' = latest /\ manifests' = manifests /\ tarball' = tarball
  BY DEF replaceDomains, At
<1>2. ASSUME NEW S, NEW f \in DOMAIN extracted
      PROVE  entry(f, S) \in [of : -1..MaxRelease, rewritten : BOOLEAN, from : 1..tarball.number]
  <2>1. extracted[f] \in [of : -1..MaxRelease, rewritten : BOOLEAN, from : 1..tarball.number]
    BY DEF CollectInv, FilesOK, Extracts
  <2>2. entry(f, S) = [of |-> extracted[f].of, rewritten |-> (extracted[f].rewritten \/ f \in S),
                       from |-> extracted[f].from]
    BY <2>1
  <2>3. QED
    BY <2>1, <2>2
<1>3. /\ \E S : \/ \E T \in SUBSET DOMAIN extracted : extracted' = [f \in T |-> rewrite(S)[f]]
                 \/ \E f \in DOMAIN extracted : extracted' = [rewrite(S) EXCEPT ![f].of = Cut]
      /\ Fail \/ Goto("force")
  <2> DEFINE rewritable == DOMAIN extracted \ {ReleasesManifest}
  <2>1. CASE extracted' = rewrite(rewritable) /\ Goto("force")
    <3>1. extracted' = [f \in DOMAIN extracted |-> rewrite(rewritable)[f]]
      BY <2>1
    <3>2. \E T \in SUBSET DOMAIN extracted : extracted' = [f \in T |-> rewrite(rewritable)[f]]
      BY <3>1, Zenon
    <3>3. QED
      BY <2>1, <3>2, Zenon
  <2>2. CASE /\ \E S \in SUBSET rewritable : \E f \in rewritable \ S :
                  \/ extracted' \in {rewrite(S), Restrict(rewrite(S), DOMAIN extracted \ {f})}
                  \/ extracted' = [rewrite(S) EXCEPT ![f].of = Cut]
             /\ Fail
    <3>1. PICK S \in SUBSET rewritable, f \in rewritable :
             \/ extracted' \in {rewrite(S), Restrict(rewrite(S), DOMAIN extracted \ {f})}
             \/ extracted' = [rewrite(S) EXCEPT ![f].of = Cut]
      BY <2>2
    <3>2. CASE extracted' \in {rewrite(S), Restrict(rewrite(S), DOMAIN extracted \ {f})}
      <4>1. \E T \in SUBSET DOMAIN extracted : extracted' = [g \in T |-> rewrite(S)[g]]
        BY <3>2 DEF Restrict
      <4>2. QED
        BY <2>2, <4>1
    <3>3. QED
      BY <2>2, <3>1, <3>2
  <2>3. QED
    BY <2>1, <2>2, Zenon DEF replaceDomains
<1> HIDE DEF entry
<1>4. Extracts(extracted', tarball.number)
  <2>1. PICK S : \/ \E T \in SUBSET DOMAIN extracted : extracted' = [f \in T |-> rewrite(S)[f]]
                 \/ \E f \in DOMAIN extracted : extracted' = [rewrite(S) EXCEPT ![f].of = Cut]
    BY <1>3
  <2>2. CASE \E T \in SUBSET DOMAIN extracted : extracted' = [f \in T |-> rewrite(S)[f]]
    BY <1>2, <2>2 DEF Extracts
  <2>3. CASE \E f \in DOMAIN extracted : extracted' = [rewrite(S) EXCEPT ![f].of = Cut]
    <3>1. PICK f \in DOMAIN extracted : extracted' = [rewrite(S) EXCEPT ![f].of = Cut]
      BY <2>3
    <3>2. /\ DOMAIN extracted' = DOMAIN extracted
          /\ extracted'[f] = [entry(f, S) EXCEPT !.of = Cut]
          /\ \A g \in DOMAIN extracted \ {f} : extracted'[g] = entry(g, S)
      BY <3>1
    <3>3. Cut \in -1..MaxRelease
      BY ImageAssumption DEF Cut
    <3>4. extracted'[f] \in [of : -1..MaxRelease, rewritten : BOOLEAN, from : 1..tarball.number]
      <4>1. entry(f, S) \in [of : -1..MaxRelease, rewritten : BOOLEAN, from : 1..tarball.number]
        BY <1>2
      <4>2. QED
        BY <3>2, <3>3, <4>1
    <3>5. QED
      BY <1>2, <3>2, <3>4 DEF Extracts
  <2>4. QED
    BY <2>1, <2>2, <2>3
<1>5. FilesOK'
  BY <1>1, <1>4 DEF CollectInv, FilesOK
<1>6. "force" \in steps(cmd.o.kind)
  BY <1>1 DEF steps
<1>7. QED
  BY <1>1, <1>3, <1>5, <1>6, CollectExit, CollectEarly DEF Fail

\* getBundle finds a published release: in the list that it downloads, or in a
\* manifest that was extracted.
LEMMA BundleIsRelease ==
  ASSUME latest \in 1..MaxRelease, FilesOK, found # {},
         cmd.o.tarball => ReadableFile(BundlesManifest(wanted))
  PROVE  (IF ~cmd.o.tarball THEN CHOOSE r \in found : TRUE ELSE extracted[BundlesManifest(wanted)].of)
            \in 1..MaxRelease
<1>1. CASE ~cmd.o.tarball
  <2>1. listed = latest
    BY <1>1 DEF listed
  <2>2. found \subseteq 1..latest
    BY <2>1 DEF found
  <2>3. 1..latest \subseteq 1..MaxRelease
    BY ImageAssumption
  <2>4. (CHOOSE r \in found : TRUE) \in found
    OBVIOUS
  <2>5. QED
    BY <1>1, <2>2, <2>3, <2>4, Zenon
<1>2. CASE cmd.o.tarball
  <2> DEFINE file == BundlesManifest(wanted)
  <2>1. file \in DOMAIN extracted /\ extracted[file].of > 0
    BY <1>2 DEF ReadableFile, Readable
  <2> HIDE DEF file
  <2>2. extracted[file].of \in -1..MaxRelease
    BY <2>1 DEF FilesOK, Extracts
  <2>3. QED
    BY <1>2, <2>1, <2>2, ImageAssumption DEF file
<1>3. QED
  BY <1>1, <1>2

\* The steps that the commands share preserve the invariant of the manifests.
LEMMA CollectCommand ==
  ASSUME CollectInv, CmdShape, RepoShape,
         forceCleanup \/ getBundle \/ cloneRepo \/ checkoutRepo \/ checkChannel
  PROVE  CollectInv'
<1>1. /\ cmd.pc # "idle" /\ latest' = latest
      /\ manifests' = manifests /\ tarball' = tarball /\ extracted' = extracted
  BY DEF forceCleanup, getBundle, cloneRepo, checkoutRepo, checkChannel, At
<1>2. FilesOK'
  BY <1>1 DEF CollectInv, FilesOK
<1>3. cmd.o.kind \in {"build", "manifests", "artifacts"}
  BY <1>1, Running DEF CollectInv, All
<1>4. CASE forceCleanup
  <2>1. Goto("bundle") /\ "bundle" \in steps(cmd.o.kind)
    BY <1>3, <1>4 DEF forceCleanup, steps
  <2>2. QED
    BY <1>1, <1>2, <2>1, CollectEarly
<1>5. CASE getBundle
  <2> DEFINE bundle == IF ~cmd.o.tarball THEN CHOOSE r \in found : TRUE
                       ELSE extracted[BundlesManifest(wanted)].of
  <2>1. CASE Exit
    BY <1>1, <1>2, <2>1, CollectExit
  <2>2. CASE /\ found # {} /\ (cmd.o.tarball => ReadableFile(BundlesManifest(wanted)))
             /\ cmd' = [cmd EXCEPT !.pc = "clone", !.version = wanted, !.bundle = bundle]
    <3>1. bundle \in 1..MaxRelease
      BY <2>2, BundleIsRelease DEF CollectInv
    <3> HIDE DEF bundle
    <3>2. /\ cmd'.pc = "clone" /\ cmd'.id = cmd.id /\ cmd'.o = cmd.o /\ cmd'.bundle = bundle
          /\ cmd'.ignored = cmd.ignored
      BY <2>2 DEF CmdShape
    <3>3. "clone" \in steps(cmd.o.kind)
      BY <1>3 DEF steps
    <3>4. CmdOK'
      BY <1>1, <3>1, <3>2, <3>3, ImageAssumption DEF CollectInv, CmdOK
    <3>5. CheckedOut' /\ Collected'
      BY <3>2 DEF CheckedOut, Collected, Holding
    <3>6. QED
      BY <1>1, <1>2, <3>4, <3>5 DEF CollectInv
  <2>3. QED
    BY <1>5, <2>1, <2>2, Zenon DEF getBundle, Break, Refuse
<1>6. CASE cloneRepo
  <2>1. Exit \/ Goto("checkout")
    BY <1>6 DEF cloneRepo, Break
  <2>2. cmd.pc = "clone" /\ "checkout" \in steps(cmd.o.kind)
    BY <1>3, <1>6 DEF cloneRepo, At, steps
  <2>3. QED
    BY <1>1, <1>2, <2>1, <2>2, CollectExit, CollectEarly
<1>7. CASE checkoutRepo
  <2> DEFINE s == IF cmd.o.kind = "manifests" THEN "eksd" ELSE "channel"
  <2>1. cmd.pc = "checkout" /\ Goto(s) /\ repo' = [repo EXCEPT !.commit = cmd.bundle]
    BY <1>7 DEF checkoutRepo, At
  <2>2. s \in steps(cmd.o.kind) /\ s \in {"eksd", "channel"}
    BY <1>3 DEF steps
  <2> HIDE DEF s
  <2>3. cmd'.pc = s /\ cmd'.o = cmd.o /\ cmd'.bundle = cmd.bundle
    BY <2>1, GotoFields
  <2>4. CmdOK'
    BY <1>1, <2>1, <2>2, CmdGoto DEF CollectInv, Holding, Moves
  <2>5. CheckedOut'
    BY <2>1, <2>3 DEF CheckedOut, RepoShape
  <2>6. Collected'
    BY <2>2, <2>3 DEF Collected
  <2>7. QED
    BY <1>1, <1>2, <2>4, <2>5, <2>6 DEF CollectInv
<1>8. CASE checkChannel
  <2> DEFINE s == IF cmd.o.kind = "build" THEN "make" ELSE "eksa"
  <2>1. cmd.pc = "channel" /\ cmd.o.kind \in {"build", "artifacts"}
    BY <1>8 DEF checkChannel, At
  <2>2. Exit \/ (Goto(s) /\ repo' = repo)
    BY <1>8 DEF checkChannel, Refuse
  <2>3. s \in steps(cmd.o.kind) /\ s \in Holding /\ cmd.pc \in Holding \ {"checkout"}
    BY <2>1 DEF steps, Holding
  <2> HIDE DEF s
  <2>4. QED
    BY <1>1, <1>2, <2>1, <2>2, <2>3, CollectExit, CollectLater
<1>9. QED
  BY <1>4, <1>5, <1>6, <1>7, <1>8

\* make, the move of the image, the cleanup and the downloads of artifacts leave the
\* manifests alone.
LEMMA CollectElsewhere ==
  ASSUME CollectInv, CmdShape, RepoShape,
         make \/ moveOutput \/ cleanup \/ downloadEKSAArtifacts \/ downloadEKSDArtifacts
  PROVE  CollectInv'
<1>1. latest' = latest /\ manifests' = manifests /\ tarball' = tarball /\ extracted' = extracted
  BY DEF make, moveOutput, cleanup, downloadEKSAArtifacts, downloadEKSDArtifacts, downloadArtifacts
<1>2. CASE Exit
  BY <1>1, <1>2, CollectExit DEF CollectInv, FilesOK
<1>3. CASE make /\ ~Exit
  <2>1. /\ cmd.pc = "make" /\ cmd.o.kind = "build"
        /\ repo' = [repo EXCEPT !.images = @ \cup {[by |-> cmd.id, commit |-> repo.commit]}]
        /\ \E s \in {"move", "cleanup"} : Goto(s)
    BY <1>3 DEF make, At, Break
  <2>2. repo'.commit = repo.commit
    BY <2>1 DEF RepoShape
  <2>3. {"move", "cleanup"} \subseteq steps(cmd.o.kind) \cap Holding /\ cmd.pc \in Holding \ {"checkout"}
    BY <2>1 DEF steps, Holding
  <2>4. QED
    BY <1>1, <2>1, <2>2, <2>3, CollectLater
<1>4. CASE moveOutput
  <2>1. /\ cmd.pc = "move" /\ cmd.o.kind = "build" /\ Goto("cleanup")
        /\ \E image : repo' = [repo EXCEPT !.images = @ \ {image}]
    BY <1>4 DEF moveOutput, At
  <2>2. repo'.commit = repo.commit
    BY <2>1 DEF RepoShape
  <2>3. "cleanup" \in steps(cmd.o.kind) \cap Holding /\ cmd.pc \in Holding \ {"checkout"}
    BY <2>1 DEF steps, Holding
  <2>4. QED
    BY <1>1, <2>1, <2>2, <2>3, CollectLater
<1>5. CASE (downloadEKSAArtifacts \/ downloadEKSDArtifacts) /\ ~Exit
  <2>1. /\ cmd.pc \in {"eksa", "eksd"} /\ cmd.o.kind = "artifacts" /\ repo' = repo
        /\ \E s \in {"eksd", "cleanup"} : Goto(s)
    BY <1>5 DEF downloadEKSAArtifacts, downloadEKSDArtifacts, downloadArtifacts, At, Fail
  <2>2. {"eksd", "cleanup"} \subseteq steps(cmd.o.kind) \cap Holding /\ cmd.pc \in Holding \ {"checkout"}
    BY <2>1 DEF steps, Holding
  <2>3. QED
    BY <1>1, <2>1, <2>2, CollectLater
<1>6. QED
  BY <1>2, <1>3, <1>4, <1>5 DEF cleanup

\* Downloading manifests over what is there, or an error page in the place of one:
\* the new files are there, the others stay.
LEMMA DownloadSaves ==
  ASSUME NEW new, NEW next, downloadManifests(new, next), Contents(manifests), Contents(new)
  PROVE  /\ Contents(manifests')
         /\ \/ Fail
            \/ /\ Goto(next)
               /\ DOMAIN manifests' = DOMAIN manifests \cup DOMAIN new
               /\ \A f \in DOMAIN new : manifests'[f] \in {new[f], ErrorPage}
               /\ \A f \in DOMAIN manifests \ DOMAIN new : manifests'[f] = manifests[f]
<1> USE DEF ErrorPage, Cut
<1>1. CASE manifests' = saveOver(manifests, new) /\ Goto(next)
  BY <1>1, SaveOverTyped DEF saveOver
<1>2. CASE (\E f \in DOMAIN new : manifests' = saveOver(manifests, [new EXCEPT ![f] = ErrorPage])) /\ Goto(next)
  <2>1. PICK f \in DOMAIN new : manifests' = saveOver(manifests, [new EXCEPT ![f] = ErrorPage])
    BY <1>2
  <2> DEFINE paged == [g \in DOMAIN new |-> IF g = f THEN ErrorPage ELSE new[g]]
  <2>2. paged = [new EXCEPT ![f] = ErrorPage]
    OBVIOUS
  <2>3. Contents(paged)
    BY ImageAssumption DEF Contents
  <2>4. DOMAIN paged = DOMAIN new /\ \A g \in DOMAIN new : paged[g] \in {new[g], ErrorPage}
    OBVIOUS
  <2>5. manifests' = saveOver(manifests, paged)
    BY <2>1, <2>2
  <2> HIDE DEF paged
  <2>6. QED
    BY <1>2, <2>3, <2>4, <2>5, SaveOverTyped DEF saveOver
<1>3. CASE (\E S \in SUBSET DOMAIN new : \E f \in DOMAIN new \ S : \E cut \in SUBSET {f} :
              manifests' = saveOver(saveOver(manifests, [g \in cut |-> Cut]), Restrict(new, S))) /\ Fail
  <2>1. PICK S \in SUBSET DOMAIN new, cut \in SUBSET DOMAIN new :
          manifests' = saveOver(saveOver(manifests, [g \in cut |-> Cut]), Restrict(new, S))
    BY <1>3
  <2>2. Contents([g \in cut |-> Cut])
    BY ImageAssumption DEF Contents
  <2>3. Contents(manifests')
    BY <2>1, <2>2, SaveOverTyped, RestrictTyped
  <2>4. QED
    BY <1>3, <2>3
<1>4. QED
  BY <1>1, <1>2, <1>3 DEF downloadManifests

\* The EKS-D manifests of the commit are downloaded.
LEMMA CollectEksD ==
  ASSUME CollectInv, CmdShape, downloadEKSDManifests
  PROVE  CollectInv'
<1> DEFINE new == [f \in eksDManifests(repo.commit) |-> repo.commit]
<1>1. /\ cmd.pc = "eksd" /\ cmd.o.kind = "manifests" /\ latest' = latest /\ repo' = repo
      /\ tarball' = tarball /\ extracted' = extracted
  BY DEF downloadEKSDManifests, downloadManifests, At
<1>2. repo.commit = cmd.bundle /\ cmd.bundle \in 1..MaxRelease
  BY <1>1 DEF CollectInv, CheckedOut, CmdOK, Holding
<1>3. Contents(new)
  BY <1>2, ImageAssumption DEF Contents
<1>4. \/ downloadManifests(new, "releases")
      \/ Ignore("channels", "releases") /\ manifests' = manifests
  BY DEF downloadEKSDManifests
<1> HIDE DEF new
<1>5. Contents(manifests') /\
        \/ Fail
        \/ Ignore("channels", "releases")
        \/ /\ Goto("releases")
           /\ DOMAIN manifests' = DOMAIN manifests \cup DOMAIN new
           /\ \A f \in DOMAIN new : manifests'[f] \in {new[f], ErrorPage}
  BY <1>3, <1>4, DownloadSaves DEF CollectInv, FilesOK
<1>6. FilesOK'
  BY <1>1, <1>5 DEF CollectInv, FilesOK
<1>7. CASE Fail
  BY <1>1, <1>6, <1>7, CollectExit DEF Fail
<1>8. CASE ~Fail
  <2>1. Moves("releases")
    BY <1>5, <1>8 DEF Moves
  <2>2. cmd'.pc = "releases" /\ cmd'.o = cmd.o /\ cmd'.bundle = cmd.bundle
    BY <2>1, MovesFields
  <2>3. CmdOK'
    BY <1>1, <2>1, CmdGoto DEF CollectInv, Holding, steps
  <2>4. HasEksD(manifests)'
    <3>1. CASE Ignore("channels", "releases")
      BY <3>1, IgnoreFields DEF HasEksD
    <3>2. CASE ~Ignore("channels", "releases")
      <4>1. ASSUME NEW c \in EksDChannels[cmd.bundle]
            PROVE  /\ EksDManifest(c) \in DOMAIN manifests'
                   /\ manifests'[EksDManifest(c)] \in {cmd.bundle, ErrorPage}
        <5>1. EksDManifest(c) \in DOMAIN new /\ new[EksDManifest(c)] = cmd.bundle
          BY <1>2 DEF new, eksDManifests
        <5>2. QED
          BY <1>5, <1>8, <3>2, <5>1
      <4>2. QED
        BY <2>2, <4>1 DEF HasEksD
    <3>3. QED
      BY <3>1, <3>2
  <2>5. Collected' /\ CheckedOut'
    BY <1>1, <1>2, <2>2, <2>4 DEF Collected, CheckedOut
  <2>6. QED
    BY <1>1, <1>6, <2>3, <2>5 DEF CollectInv
<1>9. QED
  BY <1>7, <1>8

\* The releases manifest is downloaded, with whatever is published by then.
LEMMA CollectReleases ==
  ASSUME CollectInv, CmdShape, downloadReleasesManifest
  PROVE  CollectInv'
<1>1. /\ cmd.pc = "releases" /\ cmd.o.kind = "manifests" /\ latest' = latest /\ repo' = repo
      /\ tarball' = tarball /\ extracted' = extracted
  BY DEF downloadReleasesManifest, At
<1>2. PICK content \in {latest, ErrorPage} :
        /\ manifests' = saveOver(manifests, [f \in {ReleasesManifest} |-> content])
        /\ Fail \/ Goto("bundles") \/ Ignore("page", "bundles")
  BY DEF downloadReleasesManifest
<1>3. Contents([f \in {ReleasesManifest} |-> content])
  BY ImageAssumption DEF Contents, ErrorPage, CollectInv
<1>4. FilesOK'
  BY <1>1, <1>2, <1>3, SaveOverTyped DEF CollectInv, FilesOK
<1>5. CASE Fail
  BY <1>1, <1>4, <1>5, CollectExit DEF Fail
<1>6. CASE ~Fail
  <2>0. Moves("bundles")
    BY <1>2, <1>6 DEF Moves
  <2>1. /\ cmd'.pc = "bundles" /\ cmd'.o = cmd.o /\ cmd'.bundle = cmd.bundle
        /\ cmd.ignored \subseteq cmd'.ignored
    BY <2>0, MovesFields
  <2>2. CmdOK'
    BY <1>1, <2>0, CmdGoto DEF CollectInv, Holding, steps
  <2>3. /\ \A f \in DOMAIN manifests : f \in DOMAIN manifests'
        /\ \A f \in DOMAIN manifests \ {ReleasesManifest} : manifests'[f] = manifests[f]
        /\ ReleasesManifest \in DOMAIN manifests' /\ manifests'[ReleasesManifest] = content
    BY <1>2, <1>6 DEF saveOver
  <2>4. HasReleases(manifests)'
    <3>1. content \in 0..MaxRelease
      BY <1>2, ImageAssumption DEF CollectInv, ErrorPage
    <3>2. QED
      BY <2>3, <3>1 DEF HasReleases
  <2>5. HasEksD(manifests)'
    <3>1. ASSUME NEW c PROVE EksDManifest(c) # ReleasesManifest
      BY DEF EksDManifest, ReleasesManifest
    <3>2. HasEksD(manifests)
      BY <1>1 DEF CollectInv, Collected
    <3>3. QED
      BY <2>1, <2>3, <3>1, <3>2 DEF HasEksD
  <2>6. Collected' /\ CheckedOut'
    BY <1>1, <2>1, <2>4, <2>5 DEF CollectInv, Collected, CheckedOut, Holding
  <2>7. QED
    BY <1>1, <1>4, <2>2, <2>6 DEF CollectInv
<1>7. QED
  BY <1>5, <1>6

\* The bundles of the releases in the releases manifest are downloaded.
LEMMA CollectBundles ==
  ASSUME CollectInv, CmdShape, downloadBundlesManifests
  PROVE  CollectInv'
<1> DEFINE n == manifests[ReleasesManifest]
           names == {BundlesManifest(r) : r \in 1..n}
           new == [f \in names |-> f[2]]
<1>1. /\ cmd.pc = "bundles" /\ cmd.o.kind = "manifests" /\ latest' = latest /\ repo' = repo
      /\ tarball' = tarball /\ extracted' = extracted
  BY DEF downloadBundlesManifests, downloadManifests, At
<1>2. HasEksD(manifests) /\ ReleasesManifest \in DOMAIN manifests /\ n \in 0..MaxRelease
  BY <1>1 DEF CollectInv, Collected, HasReleases
<1>3. \A r \in 1..n : BundlesManifest(r) \in DOMAIN new /\ new[BundlesManifest(r)] = r
  BY DEF BundlesManifest
<1>4. /\ ReleasesManifest \notin DOMAIN new
      /\ \A c : EksDManifest(c) \notin DOMAIN new
  BY DEF BundlesManifest, ReleasesManifest, EksDManifest
<1>5. Contents(new)
  <2>1. ASSUME NEW f \in names PROVE new[f] \in -1..MaxRelease
    <3>1. PICK r \in 1..n : f = BundlesManifest(r)
      OBVIOUS
    <3>2. new[f] = r
      BY <1>3, <3>1
    <3> HIDE DEF new, names, n
    <3>3. QED
      BY <1>2, <3>1, <3>2, ImageAssumption
  <2>2. QED
    BY <2>1 DEF Contents
<1>6. downloadManifests(new, "tar")
  BY DEF downloadBundlesManifests
<1> HIDE DEF new
<1>7. Contents(manifests') /\
        \/ Fail
        \/ /\ Goto("tar")
           /\ DOMAIN manifests' = DOMAIN manifests \cup DOMAIN new
           /\ \A f \in DOMAIN new : manifests'[f] \in {new[f], ErrorPage}
           /\ \A f \in DOMAIN manifests \ DOMAIN new : manifests'[f] = manifests[f]
  BY <1>5, <1>6, DownloadSaves DEF CollectInv, FilesOK
<1>8. FilesOK'
  BY <1>1, <1>7 DEF CollectInv, FilesOK
<1>9. CASE Fail
  BY <1>1, <1>8, <1>9, CollectExit DEF Fail
<1>10. CASE ~Fail
  <2>1. cmd'.pc = "tar" /\ cmd'.o = cmd.o /\ cmd'.bundle = cmd.bundle /\ cmd'.ignored = cmd.ignored
    BY <1>7, <1>10, GotoFields
  <2>2. CmdOK'
    BY <1>1, <1>7, <1>10, CmdGoto DEF CollectInv, Holding, steps, Moves
  <2>3. HasReleases(manifests)' /\ manifests'[ReleasesManifest] = n
    BY <1>2, <1>4, <1>7, <1>10 DEF HasReleases
  <2>4. HasEksD(manifests)'
    BY <1>2, <1>4, <1>7, <1>10, <2>1 DEF HasEksD
  <2>5. HasBundles(manifests)'
    BY <1>3, <1>7, <1>10, <2>3 DEF HasBundles
  <2>6. Collected' /\ CheckedOut'
    BY <1>1, <2>1, <2>3, <2>4, <2>5 DEF CollectInv, Collected, CheckedOut, Holding
  <2>7. QED
    BY <1>1, <1>8, <2>2, <2>6 DEF CollectInv
<1>11. QED
  BY <1>9, <1>10

\* The tarball is written, and the directory is removed.
LEMMA CollectTarball ==
  ASSUME CollectInv, CmdShape, createTarball \/ removeManifests
  PROVE  CollectInv'
<1>1. /\ cmd.pc \in {"tar", "rmdir"} /\ cmd.o.kind = "manifests" /\ latest' = latest /\ repo' = repo
      /\ extracted' = extracted
  BY DEF createTarball, removeManifests, At
<1>2. CASE createTarball
  <2>1. PICK S \in SUBSET DOMAIN manifests :
          \/ /\ tarball' = [number |-> tarball.number + 1, files |-> Restrict(manifests, S)]
             /\ Fail \/ Ignore("walk", "rmdir")
          \/ /\ tarball' = [number |-> tarball.number + 1, files |-> manifests]
             /\ Goto("rmdir")
    BY <1>2 DEF createTarball
  <2>2. manifests' = manifests /\ cmd.pc = "tar"
    BY <1>2 DEF createTarball, At
  <2>3. tarball'.number = tarball.number + 1 /\ Contents(tarball'.files)
    BY <2>1, RestrictTyped DEF CollectInv, FilesOK
  <2>4. Extracts(extracted, tarball.number + 1)
    <3>1. tarball.number \in Nat /\ Extracts(extracted, tarball.number)
      BY DEF CollectInv, FilesOK
    <3>2. 1..tarball.number \subseteq 1..(tarball.number + 1)
      BY <3>1
    <3>3. QED
      BY <3>1, <3>2 DEF Extracts
  <2>5. FilesOK'
    BY <1>1, <2>2, <2>3, <2>4 DEF CollectInv, FilesOK
  <2>6. CASE Fail
    BY <1>1, <2>5, <2>6, CollectExit DEF Fail
  <2>7. CASE ~Fail
    <3>1. Moves("rmdir")
      BY <2>1, <2>7 DEF Moves
    <3>2. /\ cmd'.pc = "rmdir" /\ cmd'.o = cmd.o /\ cmd'.bundle = cmd.bundle
          /\ cmd.ignored \subseteq cmd'.ignored
      BY <3>1, MovesFields
    <3>3. CmdOK'
      BY <1>1, <2>2, <3>1, CmdGoto DEF CollectInv, Holding, steps
    <3>4. "walk" \notin cmd'.ignored => HasAll(tarball.files)'
      <4>1. CASE Ignore("walk", "rmdir")
        BY <4>1, IgnoreFields
      <4>2. CASE ~Ignore("walk", "rmdir")
        <5>1. tarball'.files = manifests
          BY <2>1, <2>7, <4>2
        <5>2. HasAll(manifests)
          BY <1>1, <2>2 DEF CollectInv, Collected, HasAll
        <5>3. QED
          BY <3>2, <5>1, <5>2 DEF HasAll, HasEksD, HasReleases, HasBundles
      <4>3. QED
        BY <4>1, <4>2
    <3>5. Collected' /\ CheckedOut'
      BY <1>1, <2>2, <3>2, <3>4 DEF CollectInv, Collected, CheckedOut, Holding
    <3>6. QED
      BY <1>1, <2>5, <3>3, <3>5 DEF CollectInv
  <2>8. QED
    BY <2>6, <2>7
<1>3. CASE removeManifests
  <2>1. Goto("cleanup") /\ manifests' = NoFiles /\ tarball' = tarball /\ cmd.pc = "rmdir"
    BY <1>3 DEF removeManifests, At
  <2>2. FilesOK'
    BY <1>1, <2>1 DEF CollectInv, FilesOK, Contents, NoFiles
  <2>3. cmd'.pc = "cleanup" /\ cmd'.o = cmd.o /\ cmd'.bundle = cmd.bundle /\ cmd'.ignored = cmd.ignored
    BY <2>1, GotoFields
  <2>4. CmdOK'
    BY <1>1, <2>1, CmdGoto DEF CollectInv, Holding, steps, Moves
  <2>5. "walk" \notin cmd'.ignored => HasAll(tarball.files)'
    BY <1>1, <2>1, <2>3 DEF CollectInv, Collected, HasAll, HasEksD, HasReleases, HasBundles
  <2>6. Collected' /\ CheckedOut'
    BY <1>1, <2>1, <2>3, <2>5 DEF CollectInv, Collected, CheckedOut, Holding
  <2>7. QED
    BY <1>1, <2>2, <2>4, <2>6 DEF CollectInv
<1>4. QED
  BY <1>2, <1>3

\* A command starts.
LEMMA CollectStart ==
  ASSUME CollectInv, CmdShape, Start
  PROVE  CollectInv'
<1>1. PICK o \in Requests, first \in {"refused", "extract", "force"} :
        /\ first = "extract" => o.kind = "build"
        /\ cmd' = IF first = "refused" THEN [cmd EXCEPT !.id = @ + 1]
                   ELSE [cmd EXCEPT !.pc = first, !.id = @ + 1, !.o = o]
  BY DEF Start
<1>2. /\ cmd.pc = "idle" /\ cmd.id < MaxCommands /\ latest' = latest /\ manifests' = manifests
      /\ tarball' = tarball /\ extracted' = extracted
  BY DEF Start
<1>3. FilesOK'
  BY <1>2 DEF CollectInv, FilesOK
<1>4. /\ cmd'.id = cmd.id + 1 /\ cmd'.id \in 1..MaxCommands /\ cmd'.bundle = cmd.bundle
      /\ cmd'.ignored = cmd.ignored
  BY <1>1, <1>2, ImageAssumption DEF CollectInv, CmdOK, CmdShape
<1>5. /\ cmd'.o \in Requests \cup {NoOptions} /\ cmd'.pc \in steps(cmd'.o.kind)
      /\ cmd'.pc \in {"idle", "extract", "force"}
  <2>1. CASE first = "refused"
    BY <1>1, <1>2, <2>1 DEF CollectInv, CmdOK, CmdShape
  <2>2. CASE first # "refused"
    <3>1. cmd'.pc = first /\ cmd'.o = o
      BY <1>1, <2>2 DEF CmdShape
    <3>2. first \in steps(o.kind)
      BY <1>1, <2>2, ImageAssumption DEF steps
    <3>3. QED
      BY <2>2, <3>1, <3>2
  <2>3. QED
    BY <2>1, <2>2
<1>6. CmdOK'
  BY <1>4, <1>5 DEF CollectInv, CmdOK, Holding
<1>7. CheckedOut' /\ Collected'
  BY <1>5 DEF CheckedOut, Collected, Holding
<1>8. QED
  BY <1>2, <1>3, <1>6, <1>7 DEF CollectInv

\* The manifests of a tarball from another machine are typed.
LEMMA BroughtTyped ==
  ASSUME NEW n \in 1..MaxRelease, NEW S \in SUBSET DOMAIN wholeManifests(n, n)
  PROVE  Contents(Restrict(wholeManifests(n, n), S))
<1> DEFINE whole == wholeManifests(n, n)
<1>1. ASSUME NEW f \in DOMAIN whole PROVE whole[f] \in -1..MaxRelease
  <2>1. CASE f = ReleasesManifest
    <3>1. whole[f] = n
      BY <2>1 DEF wholeManifests, ReleasesManifest
    <3>2. QED
      BY <3>1, ImageAssumption
  <2>2. CASE \E r \in 1..n : f = BundlesManifest(r)
    <3>1. PICK r \in 1..n : f = BundlesManifest(r)
      BY <2>2
    <3>2. whole[f] = r
      BY <3>1 DEF wholeManifests, BundlesManifest
    <3>3. QED
      BY <3>2, ImageAssumption
  <2>3. CASE f \in eksDManifests(n)
    <3>1. whole[f] = n
      BY <2>3 DEF wholeManifests, eksDManifests, EksDManifest
    <3>2. QED
      BY <3>1, ImageAssumption
  <2>4. QED
    BY <2>1, <2>2, <2>3 DEF wholeManifests
<1>2. Contents(whole)
  BY <1>1 DEF Contents
<1>3. QED
  BY <1>2, RestrictTyped

\* What happens around the commands.
LEMMA CollectAround ==
  ASSUME CollectInv, CmdShape, Kill \/ PublishRelease \/ BringTarball \/ UNCHANGED vars
  PROVE  CollectInv'
<1>1. manifests' = manifests /\ extracted' = extracted
  BY DEF Kill, PublishRelease, BringTarball, vars
<1>2. CASE Kill
  BY <1>1, <1>2, CollectExit DEF Kill, Fail, CollectInv, FilesOK
<1>3. CASE PublishRelease \/ UNCHANGED vars
  <2>1. cmd' = cmd /\ repo' = repo /\ tarball' = tarball /\ latest' \in 1..MaxRelease
    BY <1>3, ImageAssumption DEF PublishRelease, vars, CollectInv
  <2>2. CmdOK' /\ CheckedOut' /\ FilesOK'
    BY <1>1, <2>1 DEF CollectInv, CmdOK, CheckedOut, FilesOK
  <2>3. Collected'
    BY <1>1, <2>1 DEF CollectInv, Collected, HasAll, HasEksD, HasReleases, HasBundles
  <2>4. QED
    BY <2>1, <2>2, <2>3 DEF CollectInv
<1>4. CASE BringTarball
  <2>1. cmd' = cmd /\ repo' = repo /\ latest' = latest /\ cmd.pc = "idle"
    BY <1>4 DEF BringTarball
  <2>2. PICK n \in 1..latest : \E S \in SUBSET DOMAIN wholeManifests(n, n) :
          tarball' = [number |-> tarball.number + 1, files |-> Restrict(wholeManifests(n, n), S)]
    BY <1>4 DEF BringTarball
  <2>3. n \in 1..MaxRelease
    BY <2>2, ImageAssumption DEF CollectInv
  <2>4. tarball'.number = tarball.number + 1 /\ Contents(tarball'.files)
    BY <2>2, <2>3, BroughtTyped
  <2>5. tarball.number \in Nat /\ Extracts(extracted, tarball.number)
    BY DEF CollectInv, FilesOK
  <2>6. 1..tarball.number \subseteq 1..(tarball.number + 1)
    BY <2>5
  <2>7. Extracts(extracted, tarball.number + 1)
    BY <2>5, <2>6 DEF Extracts
  <2>8. FilesOK'
    BY <1>1, <2>4, <2>5, <2>7 DEF CollectInv, FilesOK
  <2>9. CmdOK' /\ CheckedOut' /\ Collected'
    BY <2>1 DEF CollectInv, CmdOK, CheckedOut, Collected, Holding
  <2>10. QED
    BY <2>1, <2>8, <2>9 DEF CollectInv
<1>5. QED
  BY <1>2, <1>3, <1>4

\* Download manifests keeps track of what it has collected, over whatever an earlier
\* command left in the directory: the inductive invariant of the manifests.
THEOREM CollectInvariant == Spec => []CollectInv
<1>1. Init => CollectInv
  <2> SUFFICES ASSUME Init PROVE CollectInv
    OBVIOUS
  <2>1. /\ cmd.pc = "idle" /\ cmd.o = NoOptions /\ cmd.o.kind = "none" /\ cmd.id = 0 /\ cmd.bundle = 0
        /\ cmd.ignored = {} /\ latest = 1 /\ tarball.number = 0 /\ tarball.files = NoFiles
        /\ manifests = NoFiles /\ extracted = NoFiles
    BY DEF Init, NoOptions
  <2>2. CmdOK
    BY <2>1, ImageAssumption DEF CmdOK, steps, Holding
  <2>3. CheckedOut /\ Collected /\ FilesOK
    BY <2>1 DEF CheckedOut, Collected, FilesOK, Contents, Extracts, NoFiles, Holding
  <2>4. QED
    BY <2>1, <2>2, <2>3, ImageAssumption DEF CollectInv
<1>2. CloneInv /\ CollectInv /\ [Next]_vars => CollectInv'
  BY CollectStart, CollectExtract, CollectRewrite, CollectCommand, CollectElsewhere, CollectEksD,
     CollectReleases, CollectBundles, CollectTarball, CollectAround DEF Next, CloneInv
<1>3. QED
  BY <1>1, <1>2, CloneInvariant, PTL DEF Spec

\* The tarball of a successful download manifests is complete, whatever earlier
\* commands left and whatever is published meanwhile, but for what the two dropped
\* errors cost.
THEOREM TarballIsComplete == Spec => []TarballComplete
<1>1. CollectInv => TarballComplete
  <2> SUFFICES ASSUME CollectInv, At({"manifests"}, "cleanup"), "walk" \notin cmd.ignored
               PROVE  TarballComplete
    BY DEF TarballComplete
  <2> DEFINE files == tarball.files
             n == files[ReleasesManifest]
             whole == wholeManifests(cmd.bundle, n)
  <2>1. HasEksD(files) /\ HasReleases(files) /\ HasBundles(files)
    BY DEF CollectInv, Collected, HasAll, At
  <2>2. ASSUME NEW f \in DOMAIN whole
        PROVE  Archived(f, files, whole) \/ (f[1] = "eksd" /\ "channels" \in cmd.ignored)
    <3>1. CASE f = ReleasesManifest
      <4>1. whole[f] = n
        BY <3>1 DEF wholeManifests, ReleasesManifest
      <4>2. QED
        BY <2>1, <3>1, <4>1 DEF HasReleases, Archived
    <3>2. CASE \E r \in 1..n : f = BundlesManifest(r)
      <4>1. PICK r \in 1..n : f = BundlesManifest(r)
        BY <3>2
      <4>2. whole[f] = r
        BY <4>1 DEF wholeManifests, BundlesManifest
      <4>3. QED
        BY <2>1, <4>1, <4>2 DEF HasBundles, Archived
    <3>3. CASE f \in eksDManifests(cmd.bundle)
      <4>1. PICK c \in EksDChannels[cmd.bundle] : f = EksDManifest(c)
        BY <3>3 DEF eksDManifests
      <4>2. whole[f] = cmd.bundle /\ f[1] = "eksd"
        BY <3>3, <4>1 DEF wholeManifests, EksDManifest
      <4>3. QED
        BY <2>1, <4>1, <4>2 DEF HasEksD, Archived
    <3>4. QED
      BY <3>1, <3>2, <3>3 DEF wholeManifests
  <2>3. QED
    BY <2>2 DEF TarballComplete
<1>2. QED
  BY <1>1, CollectInvariant, PTL

-----------------------------------------------------------------------------
\* The artifact of the release and channel of the command is there, and not cut short.
Has(files, a) ==
  /\ artifact(a, "cut") \notin files
  /\ artifact(a, "whole") \in files \/ artifact(a, "page") \in files

\* What download artifacts has been through: from the check of the channel on it is a
\* channel of the release, and the files of each phase that is over are there.
Fetched ==
  cmd.o.kind = "artifacts" =>
    /\ cmd.pc \in {"eksa", "eksd", "cleanup"} => cmd.o.channel \in SupportedChannels[cmd.bundle]
    /\ cmd.pc = "eksd" => \A a \in Artifacts.eksa : Has(artifacts, a)
    /\ cmd.pc = "cleanup" =>
         \A a \in (Artifacts.eksa \cup Artifacts.eksd) \ Artifacts.byName : Has(artifacts, a)

AnyArtifact == [name : Artifacts.eksa \cup Artifacts.eksd, release : 1..MaxRelease,
                channel : UNION {SupportedChannels[r] : r \in 1..MaxRelease},
                state : {"whole", "page", "cut"}]

FetchInv == Fetched /\ artifacts \subseteq AnyArtifact

\* Saving artifacts whole, or an error page in their place, brings the ones saved and
\* loses none of the others.
LEMMA SavedArtifacts ==
  ASSUME NEW old, NEW S, NEW state \in {"whole", "page"}, NEW a, a \in S \/ Has(old, a)
  PROVE  Has(withArtifacts(old, S, state), a)
<1> DEFINE new == withArtifacts(old, S, state)
<1>1. \A b, c, st, tt : artifact(b, st) = artifact(c, tt) => b = c /\ st = tt
  BY DEF artifact
<1>2. \A x : x \in new <=> \/ x \in old /\ ~\E b \in S, st \in {"whole", "page", "cut"} : x = artifact(b, st)
                           \/ \E b \in S : x = artifact(b, state)
  BY DEF withArtifacts
<1> HIDE DEF new
<1>3. CASE a \in S
  <2>1. artifact(a, state) \in new
    BY <1>2, <1>3
  <2>2. artifact(a, "cut") \notin new
    BY <1>1, <1>2, <1>3
  <2>3. QED
    BY <2>1, <2>2 DEF Has, new
<1>4. CASE a \notin S
  <2>1. \A st : artifact(a, st) \in new <=> artifact(a, st) \in old
    BY <1>1, <1>2, <1>4
  <2>2. QED
    BY <1>4, <2>1 DEF Has, new
<1>5. QED
  BY <1>3, <1>4

\* Artifacts of a channel of a published release are saved among artifacts.
LEMMA SavedTyped ==
  ASSUME NEW old \in SUBSET AnyArtifact, NEW S \in SUBSET (Artifacts.eksa \cup Artifacts.eksd),
         NEW state \in {"whole", "page", "cut"},
         cmd.bundle \in 1..MaxRelease, cmd.o.channel \in SupportedChannels[cmd.bundle]
  PROVE  withArtifacts(old, S, state) \subseteq AnyArtifact
<1>1. ASSUME NEW a \in S PROVE artifact(a, state) \in AnyArtifact
  BY DEF artifact, AnyArtifact
<1>2. QED
  BY <1>1 DEF withArtifacts

\* A phase of download artifacts, from old files on: either it fails, or the artifacts
\* of the phase are there and those that were there still are.
LEMMA PhaseSaves ==
  ASSUME NEW old \in SUBSET AnyArtifact, NEW names \in SUBSET (Artifacts.eksa \cup Artifacts.eksd),
         NEW next, downloadArtifacts(old, names, next),
         cmd.bundle \in 1..MaxRelease, cmd.o.channel \in SupportedChannels[cmd.bundle]
  PROVE  /\ artifacts' \subseteq AnyArtifact
         /\ \/ Fail
            \/ Goto(next) /\ \A a : a \in names \/ Has(old, a) => Has(artifacts', a)
<1>1. CASE artifacts' = withArtifacts(old, names, "whole") /\ Goto(next)
  BY <1>1, SavedArtifacts, SavedTyped
<1>2. CASE (\E a \in names : artifacts' = withArtifacts(withArtifacts(old, names \ {a}, "whole"), {a}, "page"))
           /\ Goto(next)
  <2>1. PICK a \in names : artifacts' = withArtifacts(withArtifacts(old, names \ {a}, "whole"), {a}, "page")
    BY <1>2
  <2>2. withArtifacts(old, names \ {a}, "whole") \in SUBSET AnyArtifact
    BY SavedTyped
  <2>3. artifacts' \subseteq AnyArtifact
    BY <2>1, <2>2, SavedTyped
  <2>4. ASSUME NEW b, b \in names \/ Has(old, b) PROVE Has(artifacts', b)
    <3>1. b = a \/ Has(withArtifacts(old, names \ {a}, "whole"), b)
      BY <2>4, SavedArtifacts
    <3>2. QED
      BY <2>1, <3>1, SavedArtifacts
  <2>5. QED
    BY <1>2, <2>3, <2>4
<1>3. CASE (\E S \in SUBSET names : \E a \in names \ S : \E cut \in SUBSET {a} :
              artifacts' = withArtifacts(withArtifacts(old, S, "whole"), cut, "cut")) /\ Fail
  <2>1. PICK S \in SUBSET names, cut \in SUBSET names :
          artifacts' = withArtifacts(withArtifacts(old, S, "whole"), cut, "cut")
    BY <1>3
  <2>2. withArtifacts(old, S, "whole") \in SUBSET AnyArtifact
    BY SavedTyped
  <2>3. artifacts' \subseteq AnyArtifact
    BY <2>1, <2>2, SavedTyped
  <2>4. QED
    BY <1>3, <2>3
<1>4. QED
  BY <1>1, <1>2, <1>3, Zenon DEF downloadArtifacts

\* What is there of an artifact depends on the release and the channel only.
LEMMA HasStays ==
  ASSUME cmd'.o = cmd.o, cmd'.bundle = cmd.bundle, NEW a, Has(artifacts', a)
  PROVE  Has(artifacts, a)'
BY DEF Has, artifact

\* The two phases of download artifacts.
LEMMA FetchPhases ==
  ASSUME FetchInv, CollectInv, CmdShape, downloadEKSAArtifacts \/ downloadEKSDArtifacts
  PROVE  FetchInv'
<1>1. /\ cmd.pc \in {"eksa", "eksd"} /\ cmd.o.kind = "artifacts"
      /\ cmd.bundle \in 1..MaxRelease /\ cmd.o.channel \in SupportedChannels[cmd.bundle]
  BY DEF downloadEKSAArtifacts, downloadEKSDArtifacts, At, FetchInv, Fetched, CollectInv, CmdOK, Holding
<1>2. CASE downloadEKSAArtifacts
  <2> DEFINE old == IF cmd.o.force THEN {} ELSE artifacts
  <2>1. downloadArtifacts(old, Artifacts.eksa, "eksd")
    BY <1>2 DEF downloadEKSAArtifacts
  <2>2. old \in SUBSET AnyArtifact
    BY DEF FetchInv
  <2> HIDE DEF old
  <2>3. /\ artifacts' \subseteq AnyArtifact
        /\ Fail \/ (Goto("eksd") /\ \A a \in Artifacts.eksa : Has(artifacts', a))
    BY <1>1, <2>1, <2>2, PhaseSaves
  <2>4. CASE Fail
    BY <2>3, <2>4, ExitFields DEF Fail, FetchInv, Fetched
  <2>5. CASE ~Fail
    <3>1. cmd'.pc = "eksd" /\ cmd'.o = cmd.o /\ cmd'.bundle = cmd.bundle
      BY <2>3, <2>5, GotoFields
    <3>2. \A a \in Artifacts.eksa : Has(artifacts, a)'
      BY <2>3, <2>5, <3>1, HasStays
    <3>3. QED
      BY <1>1, <2>3, <3>1, <3>2 DEF FetchInv, Fetched
  <2>6. QED
    BY <2>4, <2>5
<1>3. CASE downloadEKSDArtifacts
  <2>1. PICK skipped \in SUBSET Artifacts.byName :
          downloadArtifacts(artifacts, Artifacts.eksd \ skipped, "cleanup")
    BY <1>3 DEF downloadEKSDArtifacts
  <2>2. \A a \in Artifacts.eksa : Has(artifacts, a)
    BY <1>1, <1>3 DEF downloadEKSDArtifacts, At, FetchInv, Fetched
  <2>3. /\ artifacts' \subseteq AnyArtifact
        /\ \/ Fail
           \/ /\ Goto("cleanup")
              /\ \A a \in (Artifacts.eksa \cup Artifacts.eksd) \ Artifacts.byName : Has(artifacts', a)
    <3> DEFINE names == Artifacts.eksd \ skipped
    <3>1. names \in SUBSET (Artifacts.eksa \cup Artifacts.eksd) /\ artifacts \in SUBSET AnyArtifact
      BY DEF FetchInv
    <3>2. \A a \in (Artifacts.eksa \cup Artifacts.eksd) \ Artifacts.byName :
             a \in names \/ Has(artifacts, a)
      BY <2>2
    <3>3. downloadArtifacts(artifacts, names, "cleanup")
      BY <2>1
    <3> HIDE DEF names
    <3>4. /\ artifacts' \subseteq AnyArtifact
          /\ \/ Fail
             \/ Goto("cleanup") /\ \A a : a \in names \/ Has(artifacts, a) => Has(artifacts', a)
      BY <1>1, <3>1, <3>3, PhaseSaves
    <3>5. QED
      BY <3>2, <3>4
  <2>4. CASE Fail
    BY <2>3, <2>4, ExitFields DEF Fail, FetchInv, Fetched
  <2>5. CASE ~Fail
    <3>1. cmd'.pc = "cleanup" /\ cmd'.o = cmd.o /\ cmd'.bundle = cmd.bundle
      BY <2>3, <2>5, GotoFields
    <3>2. \A a \in (Artifacts.eksa \cup Artifacts.eksd) \ Artifacts.byName : Has(artifacts, a)'
      BY <2>3, <2>5, <3>1, HasStays
    <3>3. QED
      BY <1>1, <2>3, <3>1, <3>2 DEF FetchInv, Fetched
  <2>6. QED
    BY <2>4, <2>5
<1>4. QED
  BY <1>2, <1>3

\* Download artifacts keeps track of the files that it has saved, over whatever an
\* earlier command left of them: the inductive invariant of the artifacts.
THEOREM FetchInvariant == Spec => []FetchInv
<1>1. Init => FetchInv
  BY DEF Init, FetchInv, Fetched, NoOptions
<1>2. CloneInv /\ CollectInv /\ FetchInv /\ [Next]_vars => FetchInv'
  <2> SUFFICES ASSUME CloneInv, CollectInv, FetchInv, [Next]_vars PROVE FetchInv'
    OBVIOUS
  <2>1. CmdShape
    BY DEF CloneInv
  <2>2. CASE downloadEKSAArtifacts \/ downloadEKSDArtifacts
    BY <2>1, <2>2, FetchPhases
  <2>3. CASE UNCHANGED vars \/ PublishRelease \/ BringTarball
    <3>1. cmd' = cmd /\ artifacts' = artifacts
      BY <2>3 DEF vars, PublishRelease, BringTarball
    <3>2. QED
      BY <3>1 DEF FetchInv, Fetched, Has, artifact
  <2>4. CASE checkChannel
    <3>1. artifacts' = artifacts /\ cmd.pc = "channel"
      BY <2>4 DEF checkChannel, At
    <3>2. CASE supportedChannel /\ \E s \in {"make", "eksa"} : Goto(s)
      <4>1. repo.commit = cmd.bundle
        BY <3>1 DEF CollectInv, CheckedOut, Holding
      <4>2. cmd'.pc \in {"make", "eksa"} /\ cmd'.o = cmd.o /\ cmd'.bundle = cmd.bundle
        BY <2>1, <3>2, GotoFields
      <4>3. QED
        BY <3>1, <3>2, <4>1, <4>2 DEF FetchInv, Fetched, supportedChannel
    <3>3. CASE Exit
      BY <2>1, <3>1, <3>3, ExitFields DEF FetchInv, Fetched
    <3>4. QED
      BY <2>4, <3>2, <3>3 DEF checkChannel, Refuse
  <2>5. CASE \/ Start \/ extractTarball \/ replaceDomains \/ forceCleanup \/ getBundle
             \/ cloneRepo \/ checkoutRepo \/ make \/ moveOutput \/ cleanup
             \/ downloadEKSDManifests \/ downloadReleasesManifest \/ downloadBundlesManifests
             \/ createTarball \/ removeManifests \/ Kill
    <3>1. artifacts' = artifacts
      BY <2>5 DEF Start, extractTarball, replaceDomains, forceCleanup, getBundle, cloneRepo,
           checkoutRepo, make, moveOutput, cleanup, downloadEKSDManifests,
           downloadReleasesManifest, downloadBundlesManifests, downloadManifests, createTarball,
           removeManifests, Kill
    <3>2. cmd'.pc \in {"idle", "extract", "rewrite", "force", "bundle", "clone", "checkout", "channel"}
          \/ cmd'.o.kind # "artifacts"
      <4>1. CASE Exit
        BY <2>1, <4>1, ExitFields
      <4>2. CASE \E s \in {"rewrite", "force", "bundle", "checkout", "channel"} : Goto(s)
        BY <2>1, <4>2, GotoFields
      <4>3. CASE cmd.o.kind # "artifacts" /\ \E s : Goto(s) \/ \E e : Ignore(e, s)
        BY <2>1, <4>3, GotoFields, IgnoreFields
      <4>4. CASE Start
        <5>1. \E o, first : /\ first \in {"refused", "extract", "force"}
                            /\ cmd' = IF first = "refused" THEN [cmd EXCEPT !.id = @ + 1]
                                      ELSE [cmd EXCEPT !.pc = first, !.id = @ + 1, !.o = o]
          BY <4>4 DEF Start
        <5>2. cmd.pc = "idle"
          BY <4>4 DEF Start
        <5>3. QED
          BY <2>1, <5>1, <5>2 DEF CmdShape
      <4>5. CASE \E v, b : cmd' = [cmd EXCEPT !.pc = "clone", !.version = v, !.bundle = b]
        BY <2>1, <4>5 DEF CmdShape
      <4>6. QED
        BY <2>5, <4>1, <4>2, <4>3, <4>4, <4>5
           DEF extractTarball, replaceDomains, forceCleanup, getBundle, cloneRepo,
           checkoutRepo, make, moveOutput, cleanup, downloadEKSDManifests,
           downloadReleasesManifest, downloadBundlesManifests, downloadManifests, createTarball,
           removeManifests, Kill, Fail, Break, Refuse, At
    <3>3. QED
      BY <3>1, <3>2 DEF FetchInv, Fetched
  <2>6. QED
    BY <2>2, <2>3, <2>4, <2>5 DEF Next
<1>3. QED
  BY <1>1, <1>2, CloneInvariant, CollectInvariant, PTL DEF Spec

\* A successful download artifacts leaves every artifact of its release and channel
\* that it does not look up by name, none of them cut short.
THEOREM ArtifactsAreComplete == Spec => []ArtifactsComplete
<1>1. FetchInv => ArtifactsComplete
  BY DEF FetchInv, Fetched, ArtifactsComplete, Has, At
<1>2. QED
  BY <1>1, FetchInvariant, PTL

-----------------------------------------------------------------------------
\* What is left to type: the clone and the images, and the failures.
ImagesOK ==
  /\ repo.present \in BOOLEAN /\ repo.by \in 0..MaxCommands
  /\ repo.commit \in 0..MaxRelease /\ repo.images \subseteq Images
  /\ \A n \in DOMAIN output : output[n] \in Images
FailuresOK == failed \subseteq 1..cmd.id /\ failures \in 0..MaxFailures

\* What is typed follows from the invariants, with these two.
LEMMA TypesFollow ==
  ASSUME CollectInv, FetchInv, ImagesOK, FailuresOK
  PROVE  TypeOK
<1>1. artifacts \subseteq [name : Artifacts.eksa \cup Artifacts.eksd, release : 1..MaxRelease,
                           channel : UNION {SupportedChannels[r] : r \in 1..MaxRelease},
                           state : {"whole", "page", "cut"}]
  BY DEF FetchInv, AnyArtifact
<1>2. QED
  BY <1>1, Zenon DEF CollectInv, ImagesOK, FailuresOK, TypeOK, CmdOK, FilesOK, Contents, Extracts

\* A step that leaves the clone and the images alone, or removes the clone.
LEMMA ImagesStay ==
  ASSUME ImagesOK, repo' \in {repo, NoClone}, output' = output
  PROVE  ImagesOK'
<1>1. ImagesOK' \/ repo' = NoClone
  BY DEF ImagesOK
<1>2. CASE repo' = NoClone
  <2>1. repo'.present = FALSE /\ repo'.by = 0 /\ repo'.commit = 0 /\ repo'.images = {}
    BY <1>2 DEF NoClone
  <2>2. repo'.by \in 0..MaxCommands /\ repo'.commit \in 0..MaxRelease
    BY <2>1, ImageAssumption
  <2>3. repo'.present \in BOOLEAN
    BY <2>1, Zenon
  <2>4. QED
    BY <2>1, <2>2, <2>3 DEF ImagesOK
<1>3. QED
  BY <1>1, <1>2

\* The clone, the checkout, make and the move of the image keep the images typed.
LEMMA ImagesChange ==
  ASSUME CloneInv, CollectInv, ImagesOK, cloneRepo \/ checkoutRepo \/ make \/ moveOutput
  PROVE  ImagesOK'
<1>1. RepoShape /\ cmd.pc # "idle"
  BY DEF CloneInv, cloneRepo, checkoutRepo, make, moveOutput, At
<1>2. cmd.id \in 1..MaxCommands
  BY <1>1, ImageAssumption DEF CollectInv, CmdOK
<1>3. CASE cloneRepo
  <2>1. CASE repo' = repo
    BY <1>3, <2>1, ImagesStay DEF cloneRepo
  <2>2. CASE repo' = [NoClone EXCEPT !.present = TRUE, !.by = cmd.id]
    <3>1. repo'.by = cmd.id /\ repo'.commit = 0 /\ repo'.images = {}
      BY <2>2 DEF NoClone
    <3>2. repo'.present = TRUE
      BY <2>2 DEF NoClone
    <3>3. repo'.by \in 0..MaxCommands /\ repo'.commit \in 0..MaxRelease
      BY <1>2, <3>1, ImageAssumption
    <3>4. QED
      BY <1>3, <3>1, <3>2, <3>3 DEF cloneRepo, ImagesOK
  <2>3. QED
    BY <1>3, <2>1, <2>2 DEF cloneRepo
<1>4. CASE checkoutRepo
  <2>1. repo' = [repo EXCEPT !.commit = cmd.bundle] /\ output' = output
    BY <1>4 DEF checkoutRepo
  <2>2. /\ repo'.present = repo.present /\ repo'.by = repo.by /\ repo'.images = repo.images
        /\ repo'.commit = cmd.bundle
    BY <1>1, <2>1 DEF RepoShape
  <2>3. QED
    BY <2>1, <2>2 DEF ImagesOK, CollectInv, CmdOK
<1>5. CASE make
  <2>1. CASE repo' = repo
    BY <1>5, <2>1, ImagesStay DEF make
  <2>2. CASE repo' = [repo EXCEPT !.images = @ \cup {[by |-> cmd.id, commit |-> repo.commit]}]
    <3>1. repo.commit \in 1..MaxRelease
      BY <1>5 DEF make, At, CollectInv, CheckedOut, CmdOK, Holding
    <3>2. [by |-> cmd.id, commit |-> repo.commit] \in Images
      BY <1>2, <3>1 DEF Images
    <3>3. /\ repo'.present = repo.present /\ repo'.by = repo.by /\ repo'.commit = repo.commit
          /\ repo'.images = repo.images \cup {[by |-> cmd.id, commit |-> repo.commit]}
      BY <1>1, <2>2 DEF RepoShape
    <3>4. QED
      BY <1>5, <3>2, <3>3 DEF make, ImagesOK
  <2>3. QED
    BY <1>5, <2>1, <2>2 DEF make
<1>6. CASE moveOutput
  <2>1. PICK image \in repo.images :
          /\ output' = [a \in DOMAIN output \cup {outputArtifact(cmd.o)} |->
                           IF a = outputArtifact(cmd.o) THEN image ELSE output[a]]
          /\ repo' = [repo EXCEPT !.images = @ \ {image}]
    BY <1>6 DEF moveOutput
  <2>2. /\ repo'.present = repo.present /\ repo'.by = repo.by /\ repo'.commit = repo.commit
        /\ repo'.images = repo.images \ {image}
    BY <1>1, <2>1 DEF RepoShape
  <2>3. \A n \in DOMAIN output' : output'[n] \in Images
    BY <2>1 DEF ImagesOK
  <2>4. QED
    BY <2>2, <2>3 DEF ImagesOK
<1>7. QED
  BY <1>3, <1>4, <1>5, <1>6

\* Every step keeps the images typed.
LEMMA ImagesStep ==
  ASSUME CloneInv, CollectInv, ImagesOK, [Next]_vars
  PROVE  ImagesOK'
<1>1. CASE cloneRepo \/ checkoutRepo \/ make \/ moveOutput
  BY <1>1, ImagesChange
<1>2. CASE \/ Start \/ extractTarball \/ replaceDomains \/ forceCleanup \/ getBundle \/ checkChannel
           \/ cleanup \/ downloadEKSDManifests \/ downloadReleasesManifest
           \/ downloadBundlesManifests \/ createTarball \/ removeManifests
           \/ downloadEKSAArtifacts \/ downloadEKSDArtifacts
           \/ Kill \/ PublishRelease \/ BringTarball \/ UNCHANGED vars
  <2>1. repo' \in {repo, NoClone} /\ output' = output
    BY <1>2 DEF Start, extractTarball, replaceDomains, forceCleanup, getBundle, checkChannel,
         cleanup, downloadEKSDManifests, downloadReleasesManifest, downloadBundlesManifests,
         downloadManifests, createTarball, removeManifests, downloadEKSAArtifacts,
         downloadEKSDArtifacts, downloadArtifacts, Kill, PublishRelease, BringTarball, vars
  <2>2. QED
    BY <2>1, ImagesStay
<1>3. QED
  BY <1>1, <1>2 DEF Next

\* Every step keeps the failures typed: a command that fails is one that was started.
LEMMA FailuresStep ==
  ASSUME CmdShape, CollectInv, FailuresOK, [Next]_vars
  PROVE  FailuresOK'
<1>1. cmd.id \in Nat /\ (cmd.pc # "idle" => cmd.id \in 1..cmd.id)
  BY ImageAssumption DEF CollectInv, CmdOK
<1>2. CASE Start
  <2>1. cmd'.id = cmd.id + 1 /\ failed' = failed /\ failures' = failures
    BY <1>2 DEF Start, CmdShape
  <2>2. 1..cmd.id \subseteq 1..(cmd.id + 1)
    BY <1>1
  <2>3. QED
    BY <2>1, <2>2 DEF FailuresOK
<1>3. CASE cmd'.id = cmd.id /\ failed' = failed /\ failures' \in {failures, failures + 1} /\ failures' <= MaxFailures
  BY <1>3, ImageAssumption DEF FailuresOK
<1>4. CASE (Break \/ Fail) /\ cmd.pc # "idle"
  <2>1. cmd'.id = cmd.id
    BY <1>4, ExitFields DEF Break, Fail
  <2>2. failed' \subseteq 1..cmd.id
    BY <1>1, <1>4 DEF Break, Fail, FailuresOK
  <2>3. failures' \in 0..MaxFailures
    BY <1>4, ImageAssumption DEF Break, Fail, FailuresOK
  <2>4. QED
    BY <2>1, <2>2, <2>3 DEF FailuresOK
<1>5. ASSUME failed' = failed, failures' = failures,
             \/ Exit \/ cmd' = cmd \/ \E s : Goto(s)
             \/ \E v, b : cmd' = [cmd EXCEPT !.pc = "clone", !.version = v, !.bundle = b]
      PROVE  FailuresOK'
  <2>1. cmd'.id = cmd.id
    BY <1>5, ExitFields, GotoFields DEF CmdShape
  <2>2. QED
    BY <1>5, <2>1 DEF FailuresOK
<1>6. CASE \/ downloadEKSDManifests \/ downloadBundlesManifests \/ downloadEKSAArtifacts
           \/ downloadEKSDArtifacts \/ downloadReleasesManifest \/ createTarball
  <2>1. /\ cmd.pc # "idle"
        /\ \/ Fail
           \/ (\E s : Goto(s)) /\ failed' = failed /\ failures' = failures
           \/ /\ \E s : Goto(s) \/ \E e : Ignore(e, s)
              /\ failed' = failed /\ failures < MaxFailures /\ failures' = failures + 1
    BY <1>6 DEF downloadEKSDManifests, downloadBundlesManifests, downloadManifests,
         downloadEKSAArtifacts, downloadEKSDArtifacts, downloadArtifacts,
         downloadReleasesManifest, createTarball, Ignore, At
  <2>2. CASE /\ \E s : Goto(s) \/ \E e : Ignore(e, s)
             /\ failed' = failed /\ failures < MaxFailures /\ failures' = failures + 1
    <3>1. cmd'.id = cmd.id
      BY <2>2, GotoFields, IgnoreFields
    <3>2. failures' <= MaxFailures
      BY <2>2, ImageAssumption DEF FailuresOK
    <3>3. QED
      BY <1>3, <2>2, <3>1, <3>2
  <2>3. QED
    BY <1>4, <1>5, <2>1, <2>2
<1>7. CASE extractTarball \/ replaceDomains \/ cloneRepo \/ make \/ getBundle \/ Kill
  <2>1. /\ cmd.pc # "idle"
        /\ \/ Fail \/ Break
           \/ /\ failed' = failed /\ failures' = failures
              /\ \/ Exit \/ \E s : Goto(s)
                 \/ \E v, b : cmd' = [cmd EXCEPT !.pc = "clone", !.version = v, !.bundle = b]
    BY <1>7 DEF extractTarball, replaceDomains, cloneRepo, make, getBundle, Kill, Refuse, At
  <2>2. QED
    BY <1>4, <1>5, <2>1
<1>8. CASE \/ forceCleanup \/ checkoutRepo \/ checkChannel \/ moveOutput \/ cleanup
           \/ removeManifests \/ PublishRelease \/ BringTarball \/ UNCHANGED vars
  <2>1. failed' = failed /\ failures' = failures /\ (Exit \/ cmd' = cmd \/ \E s : Goto(s))
    BY <1>8 DEF forceCleanup, checkoutRepo, checkChannel, moveOutput, cleanup, removeManifests,
         PublishRelease, BringTarball, vars, Refuse
  <2>2. QED
    BY <1>5, <2>1
<1>9. QED
  BY <1>2, <1>6, <1>7, <1>8 DEF Next

\* Every variable of the CLI has its type: a command is only ever at a step of its
\* own kind, and every image was made from a commit that had been checked out.
THEOREM ImageBuilderTyped == Spec => []TypeOK
<1>1. Init => ImagesOK /\ FailuresOK
  <2> SUFFICES ASSUME Init PROVE ImagesOK /\ FailuresOK
    OBVIOUS
  <2>1. repo = NoClone /\ output = NoFiles /\ failed = {} /\ failures = 0
    BY DEF Init
  <2>2. repo.present = FALSE /\ repo.by = 0 /\ repo.commit = 0 /\ repo.images = {}
    BY <2>1 DEF NoClone
  <2>3. repo.by \in 0..MaxCommands /\ repo.commit \in 0..MaxRelease
    BY <2>2, ImageAssumption
  <2>4. repo.present \in BOOLEAN
    BY <2>2, Zenon
  <2>5. QED
    BY <2>1, <2>2, <2>3, <2>4, ImageAssumption DEF ImagesOK, FailuresOK, NoFiles
<1>2. CloneInv /\ CollectInv /\ ImagesOK /\ FailuresOK /\ [Next]_vars => ImagesOK' /\ FailuresOK'
  BY ImagesStep, FailuresStep DEF CloneInv
<1>3. Spec => [](ImagesOK /\ FailuresOK)
  BY <1>1, <1>2, CloneInvariant, CollectInvariant, PTL DEF Spec
<1>4. CollectInv /\ FetchInv /\ ImagesOK /\ FailuresOK => TypeOK
  BY TypesFollow
<1>5. QED
  BY <1>3, <1>4, CollectInvariant, FetchInvariant, PTL

=============================================================================
