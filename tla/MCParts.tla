-------------------------------- MODULE MCParts --------------------------------
(***************************************************************************)
(* The parts that share no state with a scan or with each other, checked   *)
(* one at a time: a behaviour is a behaviour of the part chosen at first,  *)
(* while the others stay in one of their initial states.                   *)
(***************************************************************************)
EXTENDS HubSpotRequest, NonceCache, TokenCache, Listing, Normalizers, DeadLetter

VARIABLE part

partsVars == << part, vars, nonceVars, tokenVars, listVars, normVars, letterVars >>

Parts == { "request", "nonces", "token", "list", "normalizer", "letter" }

-------------------------------------------------------------------------------
\* Records of each type that differ in what its normalizer looks at.
PlainRecord == [ id |-> "1", createdAt |-> Missing, createdate |-> Missing,
                 teams |-> << >>, associations |-> [t \in {} |-> << >>], null |-> "nothing" ]

Associations ==
    { [t \in {} |-> << >>], [t \in { "contacts" } |-> << "a", "b" >>],
      [t \in { "contacts", "companies", "line_items" } |-> << "a" >>],
      [t \in { "companies" } |-> << >>] }

Record == [
    contacts  |-> { [PlainRecord EXCEPT !.id = i, !.createdAt = c, !.createdate = d] :
                      i \in { "1", Missing }, c, d \in { "t", Missing } }
                  \cup { [PlainRecord EXCEPT !.null = "properties"] },
    companies |-> { PlainRecord, [PlainRecord EXCEPT !.null = "associations"] },
    tickets   |-> { PlainRecord, [PlainRecord EXCEPT !.null = "properties"] },
    owners    |-> { [PlainRecord EXCEPT !.teams = t, !.createdate = "t", !.null = n] :
                      t \in { << >>, << "x", "y" >> }, n \in { "nothing", "properties", "team" } },
    deals     |-> { [PlainRecord EXCEPT !.id = i, !.associations = a] :
                      i \in { "1", "2" }, a \in Associations }
                  \cup { [PlainRecord EXCEPT !.null = n] : n \in { "properties", "associations" } } ]

\* Trees of a few strings, two levels deep, "s" wherever a secret may stand.
Leaf == { Str("o"), Str("p") }

Holder == { Dict(<< At("token", Str("s")) >>), Dict(<< At("name", Str("p")), At("token", List(<< Str("s"), Str("s") >>)) >>),
            Dict(<< At("token", Dict(<< At("name", Str("s")) >>)) >>) }

Payload ==
    LET inner == Leaf \cup Holder \cup { List(<< h, l >>) : h \in Holder, l \in Leaf }
    IN inner \cup { List(<< i >>) : i \in inner }
             \cup { Dict(<< At("name", i), At("key", j) >>) : i, j \in inner }
             \cup { Dict(<< At("key", List(<< i, j, i >>)) >>) : i, j \in inner }

-------------------------------------------------------------------------------
PartsInit ==
    /\ part \in Parts
    /\ part # "request" => kind = "page"
    /\ Init
    /\ NonceInit
    /\ part # "token" => creds = [oauth |-> TRUE, access |-> FALSE, refresh |-> FALSE]
    /\ TokenInit
    /\ part # "list" => newest = 0
    /\ ListInit
    /\ part # "normalizer" => objectType = "owners" /\ input = << >>
    /\ NormInit
    /\ part # "letter" => payload = Str("o") /\ error = "none"
    /\ LetterInit

RequestPart ==
    /\ part = "request" /\ Next
    /\ UNCHANGED << part, nonceVars, tokenVars, listVars, normVars, letterVars >>

NoncePart ==
    /\ part = "nonces" /\ NonceNext
    /\ UNCHANGED << part, vars, tokenVars, listVars, normVars, letterVars >>

TokenPart ==
    /\ part = "token" /\ TokenNext
    /\ UNCHANGED << part, vars, nonceVars, listVars, normVars, letterVars >>

ListPart ==
    /\ part = "list" /\ ListNext
    /\ UNCHANGED << part, vars, nonceVars, tokenVars, normVars, letterVars >>

NormPart ==
    /\ part = "normalizer" /\ NormNext
    /\ UNCHANGED << part, vars, nonceVars, tokenVars, listVars, letterVars >>

LetterPart ==
    /\ part = "letter" /\ LetterNext
    /\ UNCHANGED << part, vars, nonceVars, tokenVars, listVars, normVars >>

PartsNext ==
    RequestPart \/ NoncePart \/ TokenPart \/ ListPart \/ NormPart \/ LetterPart

\* Fairness of the request's part alone: every request has a timeout.
PartsSpec == PartsInit /\ [][PartsNext]_partsVars /\ WF_partsVars(RequestPart)

-------------------------------------------------------------------------------
\* The type invariant of every part.
PartsTypeOK ==
    TypeOK /\ NonceTypeOK /\ TokenTypeOK /\ ListTypeOK /\ NormTypeOK /\ LetterTypeOK

\* Every call to HubSpot comes to an end, however HubSpot answers.
EveryCallEnds == part = "request" => Ends
===============================================================================
