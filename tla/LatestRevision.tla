--------------------------- MODULE LatestRevision ---------------------------
(***************************************************************************)
(* How the version tracker picks the revision a project is upgraded to:    *)
(* GetLatestRevision of pkg/github for a GitHub repository and of          *)
(* pkg/ecrpublic for the Cilium images.  A revision is a record: v is its  *)
(* semantic version, t the author date of its commit, and release says     *)
(* that a release which is not a prerelease has been made of the tag.  An  *)
(* upstream repository is the sequence of its revisions in the order in    *)
(* which GitHub lists them.                                                *)
(***************************************************************************)
EXTENDS Integers, Sequences, FiniteSetsExt

\* What a query answers: the revision, whether it is an upgrade, and failure.
Answer(rev, upgrade) == [rev |-> rev, needsUpgrade |-> upgrade, failed |-> FALSE]
Failed == [rev |-> 0, needsUpgrade |-> FALSE, failed |-> TRUE]

\* Every page of ListTags: the places of the list.
getTagsForRepo(repo) == DOMAIN repo

\* Every page of ListReleases, without the prereleases.
getReleasesForRepo(repo) == {i \in DOMAIN repo : repo[i].release}

\* The tags that carry the version v (none: an empty commit hash).
getCommitForTag(repo, v) == {i \in getTagsForRepo(repo) : repo[i].v = v}

\* The date of the commit that the tag v points to.
getCommitDateEpoch(repo, v) == repo[Min(getCommitForTag(repo, v))].t

\* Only the dates are compared, and an equal one will do.
newerByDate(r, cur) == r.t >= cur.t

\* Newer than cur in both orders, date and version.
newer(r, cur) == r.t > cur.t /\ r.v > cur.v

\* The loop over the list stops at an upgrade or at the current version.
isUpgradeRequired(r, cur) ==
    [needsUpgrade |-> newer(r, cur), shouldBreak |-> newer(r, cur) \/ r.v = cur.v]

\* The first place of the list the loop stops at; without one, the last entry
\* it looked at is reported and no upgrade is asked for.
scan(repo, list, cur) ==
    LET stops == {i \in list : isUpgradeRequired(repo[i], cur).shouldBreak}
    IN  IF stops = {}
        THEN Answer(repo[Max(list)].v, FALSE)
        ELSE LET r == repo[Min(stops)]
             IN  Answer(r.v, isUpgradeRequired(r, cur).needsUpgrade)

\* GetLatestRevision of pkg/github.  The commit of the current version is
\* looked up first, so a version without a tag fails and the branch of the
\* code for a repository without any tag is never reached.
GetLatestRevision(repo, current) ==
    LET releases == getReleasesForRepo(repo)
        list == IF releases = {} THEN getTagsForRepo(repo) ELSE releases
    IN  IF getCommitForTag(repo, current) = {}
        THEN Failed
        ELSE scan(repo, list, [v |-> current, t |-> getCommitDateEpoch(repo, current)])

\* GetLatestRevision of pkg/ecrpublic: the greatest version among the tags of
\* the image repository, when it is greater than the current one.
GetLatestImage(repo, current) ==
    LET greater == {repo[i].v : i \in {k \in DOMAIN repo : repo[k].v > current}}
    IN  IF greater = {} THEN Answer(0, FALSE) ELSE Answer(Max(greater), TRUE)

=============================================================================
