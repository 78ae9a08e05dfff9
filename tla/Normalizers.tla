------------------------------ MODULE Normalizers ------------------------------
(***************************************************************************)
(* The normalizers of app/services/normalizers/: one call of normalize,    *)
(* which goes through the raw records of an object type one by one and     *)
(* grows the rows of its tables.  Of the columns copied as they are only   *)
(* the id is kept; created_at, which has two sources, and the lists that   *)
(* become rows or columns of their own are kept too.                       *)
(***************************************************************************)
EXTENDS Naturals, Sequences, SequencesExt

CONSTANTS
    RawRecords,    \* for each object type, the records to choose the input from
    MaxRecords,    \* bound of the input's length
    Missing        \* None, or a key that is not there

ASSUME MaxRecordsAssumption == MaxRecords \in Nat

VARIABLES
    objectType,    \* whose normalizer it is
    input,         \* the records of a raw file
    seen,          \* how many of them the loop has been through
    main,          \* the table named like the type
    links,         \* deal_associations
    lineItems,     \* deal_line_items
    result         \* "running", "returned" or "raised"

normVars == << objectType, input, seen, main, links, lineItems, result >>

-------------------------------------------------------------------------------
\* NORMALIZER_REGISTRY
Normalized == { "contacts", "companies", "deals", "tickets", "owners" }

\* Associations come as lists.
ASSUME ListsAssumption ==
    \A type \in Normalized : \A record \in RawRecords[type] :
        \A to \in DOMAIN record.associations :
            record.associations[to] \in Seq(ToSet(record.associations[to]))

NormInit ==
    /\ objectType \in Normalized
    /\ input \in SeqOf(RawRecords[objectType], MaxRecords)
    /\ seen = 0
    /\ main = << >>
    /\ links = << >>
    /\ lineItems = << >>
    /\ result = "running"

\* createdAt or properties.createdate; an owner has no properties.
CreatedAt(record) ==
    IF record.createdAt # Missing \/ objectType = "owners" THEN record.createdAt
                                                           ELSE record.createdate

\* An owner's teams are joined into a column, if there are any.
Teams(record) ==
    IF objectType = "owners" /\ record.teams # << >> THEN record.teams ELSE Missing

Row(record) == [id |-> record.id, created_at |-> CreatedAt(record), team_ids |-> Teams(record)]

\* record["associations"][type]["results"], an empty list if any of it is not there
Associated(record, type) ==
    IF type \in DOMAIN record.associations THEN record.associations[type] ELSE << >>

\* A row of deal_associations, or of deal_line_items.
Link(deal, type, to) == [deal_id |-> deal, to_object_type |-> type, to_object_id |-> to]

LinksTo(record, type) ==
    [k \in DOMAIN Associated(record, type) |->
        Link(record.id, type, Associated(record, type)[k])]

\* Bug: the loop over the types keeps only the last one's.
OnlyCompanies(record) == LinksTo(record, "companies")

LinksOf(record) == LinksTo(record, "contacts") \o LinksTo(record, "companies")

\* A null where there should be an object, or a team's name, which .get does not replace
\* by its default.
NullPart(record) ==
    \/ record.null = "properties" /\ objectType # "owners"
    \/ record.null = "associations" /\ objectType = "deals"
    \/ record.null = "team" /\ objectType = "owners"

\* Bug: such a record is left out.
SkipNull ==
    /\ result = "running"
    /\ seen < Len(input)
    /\ NullPart(input[seen + 1])
    /\ seen' = seen + 1
    /\ UNCHANGED << objectType, input, main, links, lineItems, result >>

\* It raises in the middle of the loop, and the caller gets no table at all.
NormalizeRaises ==
    /\ result = "running"
    /\ seen < Len(input)
    /\ NullPart(input[seen + 1])
    /\ result' = "raised"
    /\ UNCHANGED << objectType, input, seen, main, links, lineItems >>

\* One turn of the loop.
NormalizeRecord ==
    /\ result = "running"
    /\ seen < Len(input)
    /\ LET record == input[seen + 1] IN
         /\ ~NullPart(record)
         /\ main' = Append(main, Row(record))
         /\ IF objectType = "deals"
              THEN /\ links' = links \o LinksOf(record)
                   /\ lineItems' = lineItems \o LinksTo(record, "line_items")
              ELSE UNCHANGED << links, lineItems >>
    /\ seen' = seen + 1
    /\ UNCHANGED << objectType, input, result >>

NormalizeReturns ==
    /\ result = "running"
    /\ seen = Len(input)
    /\ result' = "returned"
    /\ UNCHANGED << objectType, input, seen, main, links, lineItems >>

NormNext == NormalizeRecord \/ NormalizeRaises \/ NormalizeReturns

NormSpec == NormInit /\ [][NormNext]_normVars

-------------------------------------------------------------------------------
NormTypeOK ==
    /\ objectType \in Normalized
    /\ seen \in 0..Len(input)
    /\ \A k \in DOMAIN main : DOMAIN main[k] = { "id", "created_at", "team_ids" }
    /\ objectType # "deals" => links = << >> /\ lineItems = << >>
    /\ result \in { "running", "returned", "raised" }

\* No record is lost silently: whenever tables are returned every record has one row, in
\* its place, and a creation time wherever HubSpot put one.
RowPerRecord ==
    result = "returned" =>
        /\ Len(main) = Len(input)
        /\ \A i \in DOMAIN main :
             /\ main[i].id = input[i].id
             /\ main[i].created_at = Missing =>
                  /\ input[i].createdAt = Missing
                  /\ input[i].createdate = Missing \/ objectType = "owners"

Rows(table, row) == Cardinality({ k \in DOMAIN table : table[k] = row })

\* The places in the input that say that the row should be.
Sources(row) ==
    Cardinality(UNION { { << i, k >> : k \in
        { k \in DOMAIN Associated(input[i], row.to_object_type) :
            Link(input[i].id, row.to_object_type,
                 Associated(input[i], row.to_object_type)[k]) = row } } : i \in DOMAIN input })

Objects == UNION { ToSet(Associated(input[i], type)) :
                     i \in DOMAIN input, type \in { "contacts", "companies", "line_items" } }

\* The link tables are the associations of the deals and nothing else: each association
\* in the input has its row as often as it occurs, under its own type and its own deal,
\* and each row's deal is in the main table.
LinksResolve ==
    result = "returned" /\ objectType = "deals" =>
        /\ \A i \in DOMAIN input, to \in Objects :
             /\ \A type \in { "contacts", "companies" } :
                  LET row == Link(input[i].id, type, to) IN Rows(links, row) = Sources(row)
             /\ LET row == Link(input[i].id, "line_items", to) IN
                  Rows(lineItems, row) = Sources(row)
        /\ \A table \in { links, lineItems } : \A k \in DOMAIN table :
             \E i \in DOMAIN main : main[i].id = table[k].deal_id
===============================================================================
