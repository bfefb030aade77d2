----------------------------- MODULE FeedDigest -----------------------------
(***************************************************************************)
(* How a channel of bots is condensed (internal/digest): the posts of a    *)
(* git feed grouped into stories, one per merge request, branch, issue or  *)
(* deploy target; those of a log feed into patterns under their severity.  *)
(* A post is what the regular expressions find in its text, "" for what    *)
(* they do not find. Posts are digested newest first, as Slack lists them. *)
(***************************************************************************)
EXTENDS Naturals, Sequences, FiniteSets, Functions

CONSTANTS
    FeedPost,           \* posts: [repo, mr, branch, issue, deploy, terms, text]
    PatternsPerBand,    \* log_samples_per_band
    MaxFeedPosts        \* bound: posts of the feed

ASSUME FeedAssumption == PatternsPerBand \in Nat \ {0} /\ MaxFeedPosts \in Nat

VARIABLES
    feedPosts,  \* the unread posts, newest first
    digested,   \* how many of them BuildLogBands has read
    patterns    \* what it has made of them: per severity, [sample, count]

feedVars == <<feedPosts, digested, patterns>>

(***************************************************************************)
(* Git feeds: GroupGitWorkflows.                                           *)
(***************************************************************************)
LinksBranch(p) == p.mr # "" /\ p.branch # ""

\* buildBranchAliases: of several links of a branch the one read last stays,
\* whatever repository the post was about.
AliasesUpTo(n) ==
    LET links == {k \in 1 .. n : LinksBranch(feedPosts[k])}
        last(b) == CHOOSE k \in links : /\ feedPosts[k].branch = b
                                        /\ \A m \in links : feedPosts[m].branch = b => m <= k
    IN  [b \in {feedPosts[k].branch : k \in links} |-> feedPosts[last(b)].mr]

MutantAliasesSoFar(i) == AliasesUpTo(i)

\* The whole feed is read for links before any post is told.
Aliases(i) == AliasesUpTo(Len(feedPosts))

\* chooseWorkflowKey; <<>> for a post that belongs to no story.
StoryOf(i) ==
    LET p == feedPosts[i]
    IN  IF p.mr # "" THEN <<p.repo, p.mr>>
        ELSE IF p.branch \in DOMAIN Aliases(i) THEN <<p.repo, Aliases(i)[p.branch]>>
        ELSE IF p.issue # ""  THEN <<p.repo, p.issue>>
        ELSE IF p.branch # "" THEN <<p.repo, "branch", p.branch>>
        ELSE IF p.deploy # "" THEN <<"deploy", p.deploy>>
        ELSE IF p.repo # ""   THEN <<p.repo>>
        ELSE <<>>

(***************************************************************************)
(* Log feeds: BuildLogBands and dedupLogSamples, one post after another;   *)
(* the posts of a severity are read in the order of the feed.              *)
(***************************************************************************)
Severities == <<"fatal", "error", "alert", "warn">>

Bands == Range(Severities) \cup {"info"}

\* A report of success is information whatever else it says.
Severity(p) ==
    LET found == {n \in DOMAIN Severities : Severities[n] \in p.terms}
    IN  IF "passed" \in p.terms \/ found = {} THEN "info"
        ELSE Severities[CHOOSE n \in found : \A m \in found : n <= m]

SameText(i, j) == feedPosts[i].text = feedPosts[j].text

\* A pattern keeps its first post, the newest, as the feed is read from the
\* newest on.
AddToPatterns(found, i) ==
    LET same == {x \in found : SameText(x.sample, i)}
    IN  IF same = {} THEN found \cup {[sample |-> i, count |-> 1]}
        ELSE (found \ same) \cup {[x EXCEPT !.count = @ + 1] : x \in same}

FeedInit == feedPosts = <<>> /\ digested = 0 /\ patterns = [b \in Bands |-> {}]

PostToFeed(p) ==
    /\ digested = 0 /\ Len(feedPosts) < MaxFeedPosts
    /\ feedPosts' = <<p>> \o feedPosts
    /\ UNCHANGED <<digested, patterns>>

DigestPost ==
    /\ digested < Len(feedPosts) /\ digested' = digested + 1
    /\ LET b == Severity(feedPosts[digested + 1])
       IN  patterns' = [patterns EXCEPT ![b] = AddToPatterns(@, digested + 1)]
    /\ UNCHANGED feedPosts

FeedNext == DigestPost \/ \E p \in FeedPost : PostToFeed(p)

FeedSpec == FeedInit /\ [][FeedNext]_feedVars

\* What the digest shows of a band; the rest is a number.
MutantNewestFirst(x, y) == x.sample < y.sample

Leads(x, y) == x.count > y.count \/ (x.count = y.count /\ x.sample < y.sample)

ShownPatterns(band) ==
    {x \in patterns[band] : Cardinality({y \in patterns[band] : Leads(y, x)}) < PatternsPerBand}

-----------------------------------------------------------------------------
FeedTypeOK ==
    /\ feedPosts \in Seq(FeedPost) /\ Len(feedPosts) <= MaxFeedPosts
    /\ digested \in 0 .. Len(feedPosts)
    /\ \A b \in Bands : \A x \in patterns[b] : x.sample \in 1 .. digested /\ x.count \in 1 .. digested
    /\ DOMAIN patterns = Bands

\* The posts linking branches of this name agree on the request.
OneRequestOf(branch) ==
    \A i, j \in DOMAIN feedPosts :
        {i, j} \subseteq {n \in DOMAIN feedPosts : LinksBranch(feedPosts[n]) /\ feedPosts[n].branch = branch}
            => feedPosts[i].mr = feedPosts[j].mr

\* A push, a pipeline or the removal of a branch is told with the merge
\* request the branch belongs to, whether the post that links the two came
\* before it or after it, as long as every post linking a branch of that name
\* names the same request (GroupGitWorkflows).
BranchFollowsItsRequest ==
    \A i, j \in DOMAIN feedPosts :
        /\ LinksBranch(feedPosts[i]) /\ OneRequestOf(feedPosts[i].branch)
        /\ feedPosts[j].mr = "" /\ feedPosts[j].branch = feedPosts[i].branch
        /\ feedPosts[j].repo = feedPosts[i].repo
        => StoryOf(j) = StoryOf(i)

\* A log feed shows the alert that comes most often, in its newest form and
\* with the number of times it came: none that is hidden under the same
\* severity came more often, or as often and later (dedupLogSamples).
CommonestShown ==
    digested = Len(feedPosts) =>
        \A band \in Bands :
            LET shown == ShownPatterns(band)
                posts == {i \in DOMAIN feedPosts : Severity(feedPosts[i]) = band}
                times(k) == Cardinality({j \in posts : SameText(j, k)})
                newest(k) == CHOOSE j \in posts : SameText(j, k) /\ \A m \in posts : SameText(m, k) => j <= m
            IN  \A i \in posts :
                    \/ [sample |-> newest(i), count |-> times(i)] \in shown
                    \/ /\ Cardinality(shown) = PatternsPerBand
                       /\ \A x \in shown : \/ times(x.sample) > times(i)
                                           \/ times(x.sample) = times(i) /\ x.sample < newest(i)
=============================================================================
