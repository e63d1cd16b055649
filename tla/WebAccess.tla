------------------------------- MODULE WebAccess -------------------------------
(***************************************************************************)
(* web_search and web_fetch during turns (internal/tools/web.go,           *)
(* websearch.go, usersearch.go): the user searches and picks pages for the *)
(* agent to read, the agent searches and fetches, with approval, and what  *)
(* is fetched redirects.  A host resolves to a public address or not, at   *)
(* each connection anew.  The texts of pages and answers are left out.     *)
(***************************************************************************)
EXTENDS Naturals, Sequences, SequencesExt, FiniteSets

CONSTANTS Hosts, Pages, \* of URLs
          Redirector,   \* the host google's links are on
          MaxRedirects, \* webMaxRedirects
          MaxResults,   \* results asked for
          MaxFetches    \* bound: fetches and searches

ASSUME WebAssumption == Redirector \notin Hosts /\ MaxRedirects \in Nat \ {0}

VARIABLES webConfig, \* WebFetchConfig: lists of domains and permissions, and who searches
          granted,   \* what the user granted for this turn and for the session
          fetching,  \* the fetch under way: its URL, the requests sent and where
          searched,  \* the last search: the links found and the results
          webCalls   \* fetches and searches made

webVars == <<webConfig, granted, fetching, searched, webCalls>>

URLs == [host : Hosts, page : Pages]
NoFetch == [pc |-> "none"]
NoDomains == [allow |-> {}, deny |-> {}, private |-> FALSE, searcher |-> "none"]
NoResults == [found |-> <<>>, results |-> <<>>]

(* newWebSearcher: a provider needs a key, from the configuration or the     *)
(* environment, and one's own instance its address; an endpoint that isn't a *)
(* URL is refused.  google gives links on a host of its own, the others the  *)
(* pages.                                                                    *)
SearchConfigs ==
    [provider : {"unknown", "brave", "tavily", "google", "searxng"}, has : SUBSET {"key", "key in environment", "address", "no URL"}]

Searcher(c) ==
    IF /\ "no URL" \notin c.has
       /\ \/ c.provider \in {"brave", "tavily", "google"} /\ {"key", "key in environment"} \cap c.has # {}
          \/ c.provider = "searxng" /\ "address" \in c.has
    THEN IF c.provider = "google" THEN "links" ELSE "pages"
    ELSE "none"

(* The network is allowed, or nothing happens; one of the lists names a host. *)
WebInit ==
    /\ webConfig \in [allow : SUBSET Hosts, deny : SUBSET Hosts, private : BOOLEAN,
                     searcher : {Searcher(c) : c \in SearchConfigs}]
    /\ Cardinality(webConfig.allow \cup webConfig.deny) <= 1
    /\ granted = [grants |-> {}, rules |-> {}]
    /\ fetching = NoFetch
    /\ searched = NoResults
    /\ webCalls = 0

More == webCalls < MaxFetches /\ fetching.pc = "none"

-------------------------------------------------------------------------------
(* A search of the user's; the agent's differs in that it is approved first  *)
(* and that nobody picks from what it found.                                 *)

Undenied(url) == url.host \notin webConfig.deny

(* resolveRedirects: links are resolved together, as many as can be.         *)
Unresolved(url) == [host |-> Redirector, page |-> url.page]

Resolved(pages) ==
    IF webConfig.searcher = "links"
    THEN {[i \in DOMAIN pages |-> IF i \in lost THEN Unresolved(pages[i]) ELSE pages[i]] : lost \in SUBSET DOMAIN pages}
    ELSE {pages}

(* run: nothing is found if the provider fails or answers what it shouldn't; *)
(* links are resolved before the denied ones are left out.                   *)
Search ==
    /\ More /\ webConfig.searcher # "none" /\ webCalls' = webCalls + 1
    /\ \E pages \in UNION {[1 .. n -> URLs] : n \in 0 .. MaxResults + 1} : \E found \in Resolved(pages) :
           LET kept == SelectSeq(found, Undenied)
           IN searched' = [found |-> found,
                        results |-> IF Len(kept) > MaxResults THEN SubSeq(kept, 1, MaxResults) ELSE kept]
    /\ UNCHANGED <<webConfig, granted, fetching>>

(* /search web: a turn begins with the pages the user picked. *)
NewTurn(picked) ==
    /\ fetching.pc = "none" /\ picked \subseteq ToSet(searched.results)
    /\ granted.grants # picked
    /\ granted' = [granted EXCEPT !.grants = picked]
    /\ searched' = NoResults
    /\ UNCHANGED <<webConfig, fetching, webCalls>>

-------------------------------------------------------------------------------
(* fetch: exactly these URLs; and any page of their hosts.                   *)
PickedHost(url) == \E g \in granted.grants : g.host = url.host
PickedPage(url) == url \in granted.grants

(* The way of a fetch: allowed, granted, by a rule or by an answer. *)
Fetch(url) ==
    /\ More /\ url.host \notin webConfig.deny /\ webCalls' = webCalls + 1
    /\ \E by \in {"list", "grant", "rule", "yes", "no"} :
           /\ by = "list" <=> url.host \in webConfig.allow
           /\ by = "grant" <=> url.host \notin webConfig.allow /\ PickedPage(url)
           /\ by = "rule" <=> url.host \notin webConfig.allow /\ ~PickedPage(url) /\ url.host \in granted.rules
           /\ fetching' = IF by = "no" THEN NoFetch
                       ELSE [pc |-> "sending", url |-> url, by |-> by, sent |-> <<>>, reached |-> {}]
           /\ granted' \in (IF by = "yes" THEN {granted, [granted EXCEPT !.rules = @ \cup {url.host}]} ELSE {granted})
    /\ UNCHANGED <<webConfig, searched>>

(* A request goes over a new connection, whose address is checked, or one of *)
(* an earlier request to the host.                                           *)
Connect(address) ==
    /\ fetching.pc = "sending"
    /\ fetching' = IF address = "private" /\ ~webConfig.private THEN NoFetch
                ELSE [fetching EXCEPT !.pc = "waiting", !.sent = Append(@, fetching.url),
                                   !.reached = @ \cup {<<fetching.url.host, address>>}]
    /\ UNCHANGED <<webConfig, granted, searched, webCalls>>

Reuse ==
    /\ fetching.pc = "sending" /\ \E r \in fetching.reached : r[1] = fetching.url.host
    /\ fetching' = [fetching EXCEPT !.pc = "waiting", !.sent = Append(@, fetching.url)]
    /\ UNCHANGED <<webConfig, granted, searched, webCalls>>

(* CheckRedirect. *)
Follows(url) ==
    /\ Len(fetching.sent) < MaxRedirects
    /\ url.host \notin webConfig.deny
    /\ url.host = fetching.sent[1].host \/ url.host \in webConfig.allow

Redirected(url) ==
    /\ fetching.pc = "waiting"
    /\ fetching' = IF Follows(url) THEN [fetching EXCEPT !.pc = "sending", !.url = url] ELSE NoFetch
    /\ UNCHANGED <<webConfig, granted, searched, webCalls>>

Fetched ==
    /\ fetching.pc = "waiting"
    /\ fetching' = NoFetch
    /\ UNCHANGED <<webConfig, granted, searched, webCalls>>

WebNext ==
    \/ Search
    \/ \E picked \in SUBSET ToSet(searched.results) : NewTurn(picked)
    \/ \E url \in URLs \cup granted.grants : Fetch(url)
    \/ \E url \in URLs : Redirected(url)
    \/ \E address \in {"public", "private"} : Connect(address)
    \/ Reuse \/ Fetched

WebSpec == WebInit /\ [][WebNext]_webVars

-------------------------------------------------------------------------------
WebTypeOK ==
    /\ webConfig.allow \subseteq Hosts /\ webConfig.deny \subseteq Hosts
    /\ granted.grants \subseteq URLs \cup {Unresolved(url) : url \in URLs}
    /\ granted.rules \subseteq Hosts \cup {Redirector}
    /\ fetching.pc \in {"none", "sending", "waiting"}
    /\ webCalls \in 0 .. MaxFetches

(* "exactly these URLs without asking": a fetch nobody was asked about began *)
(* at an allowed host or at the page the user picked for this turn; "any     *)
(* other URL, ... and redirects to another host" don't ride on it, or on     *)
(* another approval; and each of at most five requests reached an address    *)
(* that may be reached (tools/usersearch.go:48-51, web.go:101-113).          *)
FetchedAsGranted ==
    fetching.pc # "none" =>
        /\ fetching.by = "grant" => fetching.sent # <<>> \/ fetching.url \in granted.grants
        /\ fetching.by = "grant" /\ fetching.sent # <<>> => fetching.sent[1] \in granted.grants
        /\ LET all == fetching.sent \o (IF fetching.pc = "sending" THEN <<fetching.url>> ELSE <<>>)
           IN /\ Len(all) <= MaxRedirects
              /\ \A i \in DOMAIN all : /\ all[i].host \notin webConfig.deny
                                       /\ all[i].host \in webConfig.allow \cup {all[1].host}
        /\ \A r \in fetching.reached : r[2] = "public" \/ webConfig.private

(* What a search returns is what the provider found, in its order, without   *)
(* the denied hosts, also those a link only leads to; but a link that can't  *)
(* be resolved is kept, whatever it leads to (websearch.go:180-190 and       *)
(* 376-413), and its page then isn't fetched, by FetchedAsGranted.           *)
ResultsAllowed ==
    /\ Len(searched.results) <= MaxResults
    /\ IsPrefix(searched.results, SelectSeq(searched.found, LAMBDA link : link.host = Redirector \/ link.host \notin webConfig.deny))
===============================================================================
