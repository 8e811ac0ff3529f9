--------------------------- MODULE VersionSource ----------------------------
(***************************************************************************)
(* The version sources of tag_ranges: what a source publishes (a listing,  *)
(* in the order of the server) and how much of it Fetch returns. A json    *)
(* source is one request; github is listed page by page, releases without  *)
(* the drafts; every request of both is retried by getBody. The tags of a  *)
(* registry are listed by a library, without retries.                      *)
(***************************************************************************)
EXTENDS Integers, Sequences, FiniteSets

CONSTANTS
    Listings,        \* the records [kind, entries] that may be published
    maxRetries,      \* attempts per request
    maxGitHubPages,
    githubPageSize,
    maxRegistryTags

ASSUME SourceAssumption ==
    /\ maxRetries \in Nat \ {0} /\ maxGitHubPages \in Nat \ {0}
    /\ githubPageSize \in Nat \ {0} /\ maxRegistryTags \in Nat
    /\ \A l \in Listings : Len(l.entries) \in Nat /\ DOMAIN l.entries = 1 .. Len(l.entries)

VARIABLES
    listing,    \* what is published; a version has a flag draft
    page,       \* the page of the running request
    attempt,    \* failed attempts of the running request
    source,     \* versions: what the pages so far have returned
    fetch       \* where Fetch is

fetchVars == <<listing, page, attempt, source, fetch>>

FetchInit ==
    /\ listing \in Listings
    /\ page = 1 /\ attempt = 0
    /\ source = {}
    /\ fetch = "idle"

Paged == listing.kind \in {"releases", "tags"}

\* The entries that one request is answered with.
Page(n) ==
    {i \in DOMAIN listing.entries :
        Paged => (n - 1) * githubPageSize < i /\ i <= n * githubPageSize}

\* fetchGitHubReleases drops the drafts of a page.
Kept(entries) == {i \in entries : listing.kind = "releases" => ~listing.entries[i].draft}

Versions(entries) == {listing.entries[i] : i \in entries}

StartFetch ==
    /\ fetch = "idle"
    /\ page' = 1 /\ attempt' = 0 /\ source' = {}
    /\ fetch' = "request"
    /\ UNCHANGED listing

\* The loop over pages ends with the first one that is not full.
Answered ==
    LET got == Kept(Page(page))
    IN  /\ fetch = "request"
        /\ listing.kind # "registry"
        /\ source' = source \cup Versions(got)
        /\ attempt' = 0
        /\ IF Paged /\ Cardinality(got) >= githubPageSize /\ page < maxGitHubPages
           THEN page' = page + 1 /\ UNCHANGED fetch
           ELSE fetch' = "fetched" /\ UNCHANGED page
        /\ UNCHANGED listing

\* The tags of a registry in one call, unless there are too many of them.
RegistryListed ==
    /\ fetch = "request"
    /\ listing.kind = "registry"
    /\ source' = Versions(DOMAIN listing.entries)
    /\ fetch' = IF Len(listing.entries) > maxRegistryTags THEN "failed" ELSE "fetched"
    /\ UNCHANGED <<listing, page, attempt>>

\* Mutated form: what the earlier pages returned is taken for the result.
RequestFailsPartially ==
    /\ fetch = "request"
    /\ listing.kind # "registry"
    /\ attempt' = attempt + 1
    /\ fetch' = IF attempt' < maxRetries THEN "backoff" ELSE "fetched"
    /\ UNCHANGED <<listing, page, source>>

\* A network error, 429 or 5xx.
RequestFails ==
    /\ fetch = "request"
    /\ listing.kind # "registry"
    /\ attempt' = attempt + 1
    /\ fetch' = IF attempt' < maxRetries THEN "backoff" ELSE "failed"
    /\ UNCHANGED <<listing, page, source>>

\* Another status, a body that does not decode, a registry that fails.
RequestRejected ==
    /\ fetch = "request"
    /\ attempt' = attempt + 1
    /\ fetch' = "failed"
    /\ UNCHANGED <<listing, page, source>>

\* sleepBackoff: the delay, or the end of the context.
Backoff ==
    /\ fetch = "backoff"
    /\ fetch' \in {"request", "failed"}
    /\ UNCHANGED <<listing, page, attempt, source>>

FetchNext == Answered \/ RegistryListed \/ RequestFails \/ RequestRejected \/ Backoff
-----------------------------------------------------------------------------
FetchTypeOK ==
    /\ listing \in Listings
    /\ page \in 1 .. maxGitHubPages
    /\ attempt \in 0 .. maxRetries
    /\ fetch \in {"idle", "request", "backoff", "fetched", "failed"}

\* What a source publishes for ch: everything, of GitHub the pages up to the cap.
Published ==
    Versions(Kept({i \in DOMAIN listing.entries : Paged => i <= maxGitHubPages * githubPageSize}))

\* "maxGitHubPages caps pagination": a fetch that succeeds has all that is
\* published up to the cap, whatever was retried and whatever the pages hold;
\* a part of the pages is never taken for the whole.
FetchIsComplete == fetch = "fetched" => source = Published
=============================================================================
