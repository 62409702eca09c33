--------------------------------- MODULE Web ---------------------------------
(***************************************************************************)
(* The webs that the crawlers of ds/6.824/code/crawler/main.go crawl. A    *)
(* web maps the URLs the fetcher knows to their links; a URL outside the   *)
(* domain of the web is one for which Fetch returns an error. A crawl has  *)
(* one web and keeps it.                                                   *)
(***************************************************************************)
EXTENDS Naturals, Sequences, FiniteSets

CONSTANTS Url,      \* the URLs that occur as a root, a page or a link
          Root,     \* the URL the crawl starts from
          Webs      \* the webs that the fetcher may serve

VARIABLES web,      \* the canned results of fakeFetcher, never changed
          calls     \* how many times Fetch was called with each URL

ASSUME RootIsUrl == Root \in Url
ASSUME WebsLinkUrls ==
  \A w \in Webs : /\ DOMAIN w \subseteq Url
                  /\ \A p \in DOMAIN w : w[p] \in Seq(Url)
ASSUME WebsAreFinite == \A w \in Webs : IsFiniteSet(DOMAIN w)

-----------------------------------------------------------------------------
(* No page is fetched twice: not by the recursion, however the goroutines  *)
(* that reach it through different links interleave around the mutex       *)
(* (lines 42-49), and in whatever order the workers answer.                *)
FetchedOnce == \A u \in Url : calls[u] <= 1

-----------------------------------------------------------------------------
(* The web that main.go serves, lines 159-190: cmd is linked but missing.  *)
GolangUrl == {"golang", "pkg", "cmd", "fmt", "os"}

Golang == [golang |-> <<"pkg", "cmd">>,
           pkg    |-> <<"golang", "cmd", "fmt", "os">>,
           fmt    |-> <<"golang", "pkg">>,
           os     |-> <<"golang", "pkg">>]

(* The webs over the URLs U whose pages have at most k links: dead links,  *)
(* self links, double links, cycles and pages out of reach included.       *)
WebsOver(U, k) == UNION {[D -> UNION {[1..l -> U] : l \in 0..k}] : D \in SUBSET U}

(* The webs on which the crawlers are model-checked. *)
TestWebs == {Golang} \cup WebsOver({"golang", "cmd"}, 2)
ThreePageWebs == {Golang} \cup WebsOver({"golang", "cmd", "pkg"}, 2)
=============================================================================
