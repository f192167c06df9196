------------------------------- MODULE Answers --------------------------------
(***************************************************************************)
(* The part of hubcore/resolver.py between the answer of getaddrinfo and   *)
(* the addresses a host may be dialled at.  An answer is a sequence of     *)
(* texts; a text that is no IP address is in no one's domain, and an IPv6  *)
(* text that maps an IPv4 address stands for that IPv4 address.            *)
(***************************************************************************)
EXTENDS Naturals, Sequences

CONSTANTS
    IPs,          \* addresses in their canonical form
    PublicIPs,    \* those classify_ip calls public
    IPv4,         \* those of version 4
    AddressOf,    \* AddressOf[t]: the address the text t stands for
    Cap           \* MAX_ADDRS_PER_HOST

ASSUME AnswersAssumption ==
    /\ PublicIPs \subseteq IPs
    /\ IPv4 \subseteq IPs
    /\ \A t \in DOMAIN AddressOf : AddressOf[t] \in IPs
    /\ Cap \in Nat \ {0}

Firsts(s) == SelectSeq([i \in DOMAIN s |-> i],
                       LAMBDA i : \A j \in 1..(i - 1) : s[j] # s[i])

\* Each text once and the malformed ones left out; two texts of one address are
\* not noticed.
Known(infos) ==
    LET good == SelectSeq(Firsts(infos), LAMBDA i : infos[i] \in DOMAIN AddressOf)
    IN [i \in DOMAIN good |-> AddressOf[infos[good[i]]]]

Capped(s) == IF Len(s) <= Cap THEN s ELSE SubSeq(s, 1, Cap)

\* all_ips of the record: IPv4 before IPv6, each capped in the order of the answer.
AllIps(infos) ==
    Capped(SelectSeq(Known(infos), LAMBDA a : a \in IPv4))
      \o Capped(SelectSeq(Known(infos), LAMBDA a : a \notin IPv4))

\* Mutant of FirstPublic: the first address of the record is taken.
FirstPublic_First(infos) ==
    LET all == AllIps(infos) IN {all[i] : i \in DOMAIN all \cap {1}}

\* public_ips[0]: the first public address of the record, in a set that is empty
\* when there is none.
FirstPublic(infos) ==
    LET all    == AllIps(infos)
        public == {i \in DOMAIN all : all[i] \in PublicIPs}
    IN  {all[i] : i \in {j \in public : \A k \in public : j <= k}}
===============================================================================
