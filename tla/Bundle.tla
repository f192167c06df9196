-------------------------------- MODULE Bundle --------------------------------
(***************************************************************************)
(* hubcore/output.py and the planning half of hubcore/writer.py: from the  *)
(* ranked rows to the artifacts and their paths.  A link is rendered into  *)
(* each artifact from the row alone, so an artifact is the sequence of its *)
(* rows; a path is a pair of a directory and a file name.                  *)
(***************************************************************************)
EXTENDS Comprehension, Naturals, Sequences, FiniteSets

CONSTANTS
    Sanitized,    \* Sanitized[c]: country_filename of the country c
    Folded,       \* Folded[f]: the file name f without the difference of case
    Reserved      \* file names validate_relative_path refuses

UltraFastMs == 200
GoodPingMs == 500

\* LEGACY_PROTOCOL_FILE and LEGACY_TRANSPORT_FILE; a transport without a file
\* has none.
ProtocolFile(p) ==
    CASE p = "shadowsocks" -> "ss"
      [] p = "socks5" -> "socks"
      [] OTHER -> p
TransportFiles == {"tcp", "ws", "grpc", "xhttp"}

\* country_filename hardened as group_by_country does it.
CountryFile(c) == IF Sanitized[c] = "" THEN "Unknown" ELSE Sanitized[c]
UnknownCountry(f) == Folded[f] \in {"global", "other", "unknown"}

-----------------------------------------------------------------------------
(* Groups.  A grouping K gives the positions of the rows that have a file   *)
(* the name of that file.                                                    *)

\* The names in the order of their first appearance.
FilesOf(K) ==
    Picked(K, {i \in DOMAIN K : \A j \in DOMAIN K : j < i => K[j] # K[i]})

\* The rows of one file, in the order they have.
Group(rows, K, file) == Picked(rows, {i \in DOMAIN K : K[i] = file})

\* One artifact of a directory for every file.
Files(dir, rows, K) ==
    LET files == FilesOf(K)
    IN [n \in DOMAIN files |-> [path |-> <<dir, files[n]>>,
                                rows |-> Group(rows, K, files[n])]]

Protocols(rows) == [i \in DOMAIN rows |-> ProtocolFile(rows[i].node.protocol)]

Transports(rows) ==
    [i \in {j \in DOMAIN rows : rows[j].node.transport \in TransportFiles} |->
        rows[i].node.transport]

Countries(rows) ==
    [i \in {j \in DOMAIN rows : ~UnknownCountry(CountryFile(rows[j].node.country))} |->
        CountryFile(rows[i].node.country)]

\* Mutant of ByProtocol: a later row replaces its group instead of joining it.
ByProtocol_LastOnly(rows) ==
    LET files == Files("Config", rows, Protocols(rows))
    IN [i \in DOMAIN files |-> [files[i] EXCEPT !.rows = <<@[Len(@)]>>]]

ByProtocol(rows) == Files("Config", rows, Protocols(rows))
ByTransport(rows) == Files("transports", rows, Transports(rows))
ByCountry(rows) == Files("Country", rows, Countries(rows))

Tier(rows, limit) == Picked(rows, {i \in DOMAIN rows : rows[i].node.ms <= limit})

\* Mutant of InTier: the limit itself does not count.
InTier_Below(row, limit) == row.node.ms < limit

\* _in_tier, which counts apart from render_ping_tiers.
InTier(row, limit) == row.node.ms <= limit

\* build_outputs: the artifacts in the order of _bundle_artifacts.
Artifacts(rows) ==
    <<[path |-> <<"", "all">>, rows |-> rows],
      [path |-> <<"", "all_b64">>, rows |-> rows]>>
    \o ByProtocol(rows) \o ByTransport(rows) \o ByCountry(rows)
    \o <<[path |-> <<"Subscription", "ultra_fast">>, rows |-> Tier(rows, UltraFastMs)],
         [path |-> <<"Subscription", "good_ping">>, rows |-> Tier(rows, GoodPingMs)]>>

\* How many rows each file of a grouping has.
Tally(rows, K) == [f \in {K[i] : i \in DOMAIN K} |-> Len(Group(rows, K, f))]

\* The counts of the ranked rows, and of those left out by their status.
Counts(rows, left) ==
    [nodes |-> Len(rows),
     protocols |-> Tally(rows, Protocols(rows)),
     transports |-> Tally(rows, Transports(rows)),
     countries |-> Tally(rows, Countries(rows)),
     ultra_fast |-> Cardinality({i \in DOMAIN rows : InTier(rows[i], UltraFastMs)}),
     good_ping |-> Cardinality({i \in DOMAIN rows : InTier(rows[i], GoodPingMs)}),
     unranked |-> Len(left),
     unranked_by_status |->
        [s \in {left[i].outcome.status : i \in DOMAIN left} |->
            Cardinality({i \in DOMAIN left : left[i].outcome.status = s})]]

-----------------------------------------------------------------------------
(* plan_outputs *)

FoldedPath(path) ==
    <<path[1], IF path[2] \in DOMAIN Folded THEN Folded[path[2]] ELSE path[2]>>

\* No reserved name, and no two paths that differ in case only.
Plannable(artifacts) ==
    /\ \A i \in DOMAIN artifacts : artifacts[i].path[2] \notin Reserved
    /\ \A i, j \in DOMAIN artifacts :
         FoldedPath(artifacts[i].path) = FoldedPath(artifacts[j].path) => i = j
==============================================================================
