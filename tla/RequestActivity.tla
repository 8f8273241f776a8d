---------------------------- MODULE RequestActivity ----------------------------
(***************************************************************************)
(* The request-activity panel of the administration page                   *)
(* (request-activity.js): two filters that exclude each other, a list of   *)
(* client addresses, and the details of one address with the forms that    *)
(* ban it.                                                                 *)
(*                                                                         *)
(* Loads of the list and of the details are requests in flight; they are   *)
(* answered, refused or lost in any order while the administrator goes on. *)
(* The handlers number the details they ask for and drop a late answer;    *)
(* the loads of the list are not numbered.                                 *)
(*                                                                         *)
(* Figures, chart, wording and the lookback are left out; what CrowdSec    *)
(* and the telemetry answer is chosen.                                     *)
(***************************************************************************)
EXTENDS Naturals

CONSTANTS
    Users,      \* accounts the owner filter can offer
    Addresses,  \* client addresses in normal form
    Texts,      \* what can be typed as an address
    Normal,     \* Normal[t]: the address t means, or None (RequestClientAddress)
    Reported,   \* sets of addresses an answer can list
    None,       \* an empty field
    MaxLoads    \* bound on the loads of the list

VARIABLES
    users,              \* the owners offered
    userSelect,         \* the owner filter
    ipInput,            \* the address filter
    clientsFilter,      \* the search box of the address list
    loads,              \* requests of loadActivity in flight
    issued,             \* loads so far; numbers them
    state,              \* the status line
    resultsHidden,
    shownAddress,       \* the address the summary and the figures are about
    clients,            \* addresses of the last answer
    clientsPanelHidden,
    listed,             \* addresses in the rows of the list
    detailsHidden,
    clientAddress,      \* heading of the details
    clientState,        \* their status line
    banAreaHidden,
    banIp,              \* hidden field of the ban form
    banFormHidden,
    unbanAddress,       \* hidden field of the form that removes a ban
    unbanFormHidden,
    detailsRequest,     \* number of the details asked for last
    inspections         \* requests of loadClientDetails in flight

filters == <<userSelect, ipInput, clientsFilter>>
list == <<users, state, resultsHidden, shownAddress, clients, clientsPanelHidden, listed>>
banForms == <<banIp, banFormHidden, unbanAddress, unbanFormHidden>>
details == <<detailsHidden, clientAddress, clientState, banAreaHidden, detailsRequest, inspections>>
vars == <<filters, loads, issued, list, details, banForms>>

Assumptions ==
    /\ Addresses \subseteq Texts
    /\ Normal \in [Texts -> Addresses \cup {None}]
    /\ \A a \in Addresses : Normal[a] = a
    /\ None \notin Texts /\ None \notin Users
    /\ Reported \subseteq SUBSET Addresses
    /\ MaxLoads \in Nat

Loads == [id : Nat, user : Users \cup {None}, text : Texts \cup {None}]
Inspections == [id : Nat, address : Addresses]

-----------------------------------------------------------------------------
(* The filters and the loads of the list.                                  *)

\* loadActivity up to its await.
LoadActivity(user, text) ==
    /\ issued < MaxLoads
    /\ issued' = issued + 1
    /\ loads' = loads \cup {[id |-> issued + 1, user |-> user, text |-> text]}
    /\ state' = "Loading"
    /\ resultsHidden' = TRUE
    /\ UNCHANGED <<users, shownAddress, clients, clientsPanelHidden, listed, details, banForms>>

Submit == LoadActivity(userSelect, ipInput) /\ UNCHANGED filters

Clear == /\ userSelect' = None /\ ipInput' = None /\ clientsFilter' = None
         /\ LoadActivity(None, None)

\* A button in the list or in the timeline, which names the busiest address of an
\* interval.
Inspect(a) ==
    /\ ~resultsHidden
    /\ userSelect' = None /\ ipInput' = a
    /\ LoadActivity(None, a)
    /\ UNCHANGED clientsFilter

SelectUser(u) ==
    /\ u \in users \cup {None}
    /\ userSelect' = u
    /\ ipInput' = IF u = None THEN ipInput ELSE None
    /\ UNCHANGED <<clientsFilter, loads, issued, list, details, banForms>>

TypeAddress(t) ==
    /\ ipInput' = t
    /\ userSelect' = IF t = None THEN userSelect ELSE None
    /\ UNCHANGED <<clientsFilter, loads, issued, list, details, banForms>>

\* The rows of renderClients; a search for one address finds that one.
Matching(found, search) == {a \in found : search \in {None, a}}

TypeFilter(f) ==
    /\ ~resultsHidden /\ ~clientsPanelHidden
    /\ clientsFilter' = f
    /\ listed' = Matching(clients, f)
    /\ UNCHANGED <<userSelect, ipInput, loads, issued, users, state, resultsHidden, shownAddress,
                   clients, clientsPanelHidden, details, banForms>>

-----------------------------------------------------------------------------
(* The answers to a load.                                                  *)

Ended(l) == l \in loads /\ loads' = loads \ {l} /\ UNCHANGED issued

\* What the server answers 400 to: not an address, or both filters.
Invalid(l) == l.text # None /\ (Normal[l.text] = None \/ l.user # None)

Warn(l) == /\ Ended(l)
           /\ state' = "Message"
           /\ UNCHANGED <<filters, users, resultsHidden, shownAddress, clients, clientsPanelHidden,
                          listed, details, banForms>>

Reject(l) == Invalid(l) /\ Warn(l)

\* Another status, no connection, or an answer that is no JSON.  Rendering an answer is
\* taken not to throw: renderChart only would if the page came without its chart library.
FailLoad(l) == Warn(l)

\* The selected owner is kept if the answer offers it.
RenderUsers(us) == /\ users' = us
                   /\ userSelect' = IF userSelect \in us THEN userSelect ELSE None

\* Mutant: the early return leaves the status line alone.
SilentlyUnavailable(l, us) ==
    /\ Ended(l) /\ ~Invalid(l)
    /\ RenderUsers(us)
    /\ UNCHANGED <<state, ipInput, clientsFilter, resultsHidden, shownAddress, clients,
                   clientsPanelHidden, listed, details, banForms>>

Unavailable(l, us) ==
    /\ Ended(l) /\ ~Invalid(l)
    /\ RenderUsers(us)
    /\ state' = "Message"
    /\ UNCHANGED <<ipInput, clientsFilter, resultsHidden, shownAddress, clients,
                   clientsPanelHidden, listed, details, banForms>>

\* Mutant: details asked for again carry the number of those before.
SharedNumber(a) ==
    /\ detailsRequest' = detailsRequest
    /\ inspections' = inspections \cup {[id |-> detailsRequest, address |-> a]}
    /\ detailsHidden' = FALSE /\ banAreaHidden' = TRUE
    /\ clientAddress' = a /\ clientState' = "Loading"

\* loadClientDetails up to its await.
LoadClientDetails(a) ==
    /\ detailsRequest' = detailsRequest + 1
    /\ inspections' = inspections \cup {[id |-> detailsRequest + 1, address |-> a]}
    /\ detailsHidden' = FALSE /\ banAreaHidden' = TRUE
    /\ clientAddress' = a /\ clientState' = "Loading"

\* Mutant: results without an address leave the details open.
KeepDetails == UNCHANGED details

HideDetails == /\ detailsRequest' = detailsRequest + 1
               /\ detailsHidden' = TRUE
               /\ UNCHANGED <<clientAddress, clientState, banAreaHidden, inspections>>

\* Answers may be complete, partial or empty: the status line says so.
Answer(l, us, found, message) ==
    /\ Ended(l) /\ ~Invalid(l)
    /\ RenderUsers(us)
    /\ state' = message
    /\ clients' = found
    /\ clientsPanelHidden' = (l.user # None)
    /\ listed' = IF l.user = None THEN Matching(found, clientsFilter) ELSE listed
    /\ resultsHidden' = FALSE
    /\ \/ /\ l.text # None
          /\ shownAddress' = Normal[l.text]
          /\ ipInput' = Normal[l.text]
          /\ LoadClientDetails(Normal[l.text])
       \/ /\ l.text = None
          /\ shownAddress' = None
          /\ HideDetails
          /\ UNCHANGED ipInput
    /\ UNCHANGED <<clientsFilter, banForms>>

-----------------------------------------------------------------------------
(* The answers to the details, and the bans.                               *)

Verdicts == {"Unknown", "BannedExactly", "BannedByRange", "Refused", "Free"}

DetailsEnded(i) == i \in inspections /\ inspections' = inspections \ {i}

\* renderBanArea
RenderBanArea(address, verdict) ==
    /\ banIp' = address /\ unbanAddress' = address
    /\ banFormHidden' = (verdict # "Free")
    /\ unbanFormHidden' = (verdict # "BannedExactly")

AnswerDetails(i, verdict, message) ==
    /\ DetailsEnded(i)
    /\ i.id = detailsRequest
    /\ clientState' = message
    /\ banAreaHidden' = FALSE
    /\ RenderBanArea(i.address, verdict)
    /\ UNCHANGED <<filters, loads, issued, list, detailsHidden, clientAddress, detailsRequest>>

\* An answer, or an error, that other details or a load have overtaken.
DropDetails(i) ==
    /\ DetailsEnded(i)
    /\ i.id # detailsRequest
    /\ UNCHANGED <<filters, loads, issued, list, detailsHidden, clientAddress, clientState,
                   banAreaHidden, detailsRequest, banForms>>

FailDetails(i) ==
    /\ DetailsEnded(i)
    /\ i.id = detailsRequest
    /\ clientState' = "Message"
    /\ UNCHANGED <<filters, loads, issued, list, detailsHidden, clientAddress, banAreaHidden,
                   detailsRequest, banForms>>

\* The page is loaded again, with an address in the field; the script loads at once.
Reload(ip) ==
    /\ issued < MaxLoads
    /\ issued' = issued + 1
    /\ loads' = {[id |-> issued + 1, user |-> None, text |-> ip]}
    /\ users' = {} /\ userSelect' = None /\ ipInput' = ip /\ clientsFilter' = None
    /\ state' = "Loading" /\ resultsHidden' = TRUE /\ shownAddress' = None
    /\ clients' = {} /\ clientsPanelHidden' = FALSE /\ listed' = {}
    /\ detailsHidden' = TRUE /\ clientAddress' = None /\ clientState' = "Empty"
    /\ banAreaHidden' = FALSE /\ detailsRequest' = 0 /\ inspections' = {}
    /\ banIp' = None /\ banFormHidden' = TRUE /\ unbanAddress' = None /\ unbanFormHidden' = TRUE

BanAreaVisible == ~resultsHidden /\ ~detailsHidden /\ ~banAreaHidden

\* The forms are posted and the server redirects to the page, after a ban with
\* its address.
Ban(ip) == BanAreaVisible /\ ~banFormHidden /\ ip = banIp /\ Reload(ip)

Unban == BanAreaVisible /\ ~unbanFormHidden /\ Reload(None)

-----------------------------------------------------------------------------
Init ==
    /\ issued = 1
    /\ \E ip \in Addresses \cup {None} :
          ipInput = ip /\ loads = {[id |-> 1, user |-> None, text |-> ip]}
    /\ users = {} /\ userSelect = None /\ clientsFilter = None
    /\ state = "Loading" /\ resultsHidden = TRUE /\ shownAddress = None
    /\ clients = {} /\ clientsPanelHidden = FALSE /\ listed = {}
    /\ detailsHidden = TRUE /\ clientAddress = None /\ clientState = "Empty"
    /\ banAreaHidden = FALSE /\ detailsRequest = 0 /\ inspections = {}
    /\ banIp = None /\ banFormHidden = TRUE /\ unbanAddress = None /\ unbanFormHidden = TRUE

AnswerLoad(l) ==
    \/ Reject(l) \/ FailLoad(l)
    \/ \E us \in SUBSET Users :
          \/ Unavailable(l, us)
          \/ \E found \in Reported, message \in {"Empty", "Message"} :
                Answer(l, us, found, message)

AnswerInspection(i) ==
    \/ \E verdict \in Verdicts, message \in {"Empty", "Message"} : AnswerDetails(i, verdict, message)
    \/ DropDetails(i)
    \/ FailDetails(i)

Next == \/ Submit \/ Clear
        \/ \E a \in Addresses : Inspect(a)
        \/ \E u \in Users \cup {None} : SelectUser(u)
        \/ \E t \in Texts \cup {None} : TypeAddress(t)
        \/ \E f \in Addresses \cup {None} : TypeFilter(f)
        \/ \E l \in loads : AnswerLoad(l)
        \/ \E i \in inspections : AnswerInspection(i)
        \/ \E ip \in Addresses : Ban(ip)
        \/ Unban

Spec == Init /\ [][Next]_vars

-----------------------------------------------------------------------------
(* Properties.                                                             *)

\* What stands under the results belongs to them, in whatever order the loads are
\* answered: the details are those of the address the results are about, closed when
\* they are about none, and the list is what the search box leaves of the addresses
\* reported (loadActivity, renderClients).
ResultsAgree ==
    ~resultsHidden =>
        /\ IF shownAddress = None THEN detailsHidden
           ELSE ~detailsHidden /\ clientAddress = shownAddress
        /\ clientsPanelHidden \/ listed = Matching(clients, clientsFilter)

\* The forms that ban an address or remove its ban post the address in the heading
\* above them (loadClientDetails, renderBanArea).
BanNamesShownAddress ==
    BanAreaVisible => banIp = clientAddress /\ unbanAddress = clientAddress

\* What says it is loading is waiting for an answer, and nothing is hidden without
\* a word: each answer, refusal and error ends what its request began.
NoEndlessLoading ==
    /\ state = "Loading" => loads # {}
    /\ resultsHidden => state # "Empty"
    /\ ~detailsHidden /\ clientState = "Loading" =>
          \E i \in inspections : i.id = detailsRequest /\ i.address = clientAddress
=============================================================================
