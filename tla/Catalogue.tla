----------------------------- MODULE Catalogue -----------------------------
(***************************************************************************)
(* Provider profiles and the knowledge bases that refer to them            *)
(* (api/routes_profiles.py, api/routes_kbs.py), and what resolving a       *)
(* knowledge base's settings then finds (assemble_kb_settings).            *)
(*                                                                         *)
(* Each route runs in a thread of its own and checks in one transaction    *)
(* what it relies on in the next.  No foreign key backs the checks: the    *)
(* migrations add the columns without one.  The row id of a deleted        *)
(* profile may come back; `birth' tells the profiles that had it apart.    *)
(***************************************************************************)
EXTENDS Naturals, FiniteSets

CONSTANTS
    KBs,            \* knowledge bases, and
    MaxProfiles,    \* bound: profiles created
    MaxUpdates,     \* bound: profile updates
    MaxKbWrites,    \* bound: create_kb, update_kb
    MaxFallbacks,   \* bound: fallbacks of a knowledge base
    MaxDeletes      \* bound: overlapping deletions of one profile

ASSUME CatalogueAssumption ==
    /\ MaxProfiles \in Nat /\ MaxUpdates \in Nat /\ MaxKbWrites \in Nat
    /\ MaxFallbacks \in Nat /\ MaxDeletes \in Nat

VARIABLES
    profile,    \* profile rows, by id
    made,       \* profiles created
    updates, writes,
    kb,         \* what each knowledge base refers to, or NoKb
    deleting,   \* deletions that have found an id unreferenced and are about to delete it
    request,    \* a validated create_kb or update_kb of each knowledge base, or NoKb
    asked,      \* births of the profiles as the request was validated (history)
    given,      \* those of the request that was written last (history)
    overlapped  \* knowledge bases whose last write met a deletion (history)

catHistory == <<asked, given, overlapped>>
catVars == <<profile, made, updates, writes, kb, deleting, request, catHistory>>

Pids == 1..MaxProfiles
Gone == [birth |-> 0, kind |-> "llm", keys |-> FALSE]
Live(p) == profile[p].birth > 0
NoKb == [llm |-> 0, embedding |-> 0, fallback |-> {}]   \* 0: NULL

CatInit ==
    /\ profile = [p \in Pids |-> Gone] /\ made = 0 /\ updates = 0 /\ writes = 0
    /\ kb = [k \in KBs |-> NoKb] /\ request = kb
    /\ deleting = [p \in Pids |-> 0]
    /\ asked = [k \in KBs |-> deleting] /\ given = asked /\ overlapped = {}

\* The largest row id in use plus one.
NextPid == CHOOSE p \in 1..(MaxProfiles + 1) :
              /\ p = 1 \/ Live(p - 1)
              /\ \A q \in Pids : q >= p => ~Live(q)

\* With keys; without is the same as clearing them next.
CreateProfile(kind) ==
    /\ made < MaxProfiles /\ NextPid \in Pids
    /\ made' = made + 1
    /\ profile' = [profile EXCEPT ![NextPid] = [birth |-> made + 1, kind |-> kind, keys |-> TRUE]]
    /\ UNCHANGED <<updates, writes, kb, deleting, request, catHistory>>

\* api_keys: None leaves them, [] clears them.  The kind is never changed.
UpdateProfile(p) ==
    /\ Live(p) /\ updates < MaxUpdates
    /\ updates' = updates + 1
    /\ \E keys \in BOOLEAN : profile' = [profile EXCEPT ![p].keys = keys]
    /\ UNCHANGED <<made, writes, kb, deleting, request, catHistory>>

\* Mutant: a column is forgotten.
ReferencedByOne(p) == \E k \in KBs : p = kb[k].llm

Main(refs) == {refs.llm, refs.embedding} \ {0}

\* referencing_kbs does not look at the fallback lists.  (The Neo4j profile, referred to
\* like the embedding profile, is left out.)
Referenced(p) == \E k \in KBs : p \in Main(kb[k])

DeleteCheck(p) ==
    /\ ~Referenced(p) /\ deleting[p] < MaxDeletes
    /\ deleting' = [deleting EXCEPT ![p] = @ + 1]
    /\ UNCHANGED <<profile, made, updates, writes, kb, request, catHistory>>

\* The row may have been deleted by another request, be another's by now, and be
\* referred to by now: nothing is checked again.
DeleteCommit(p) ==
    /\ deleting[p] > 0 /\ deleting' = [deleting EXCEPT ![p] = @ - 1]
    /\ profile' = [profile EXCEPT ![p] = Gone]
    /\ UNCHANGED <<made, updates, writes, kb, request, catHistory>>

\* _require_profile does not look at the kind, _validate_fallback_ids does.
ValidateKb(k, new) ==
    /\ request[k] = NoKb /\ writes < MaxKbWrites
    /\ writes' = writes + 1
    /\ new.llm \in Pids /\ Live(new.llm)
    /\ new.embedding > 0 => Live(new.embedding)
    /\ \A p \in new.fallback \ {new.llm} : Live(p) /\ profile[p].kind = "llm"
    /\ request' = [request EXCEPT ![k] = [new EXCEPT !.fallback = @ \ {new.llm}]]
    /\ asked' = [asked EXCEPT ![k] = [p \in Pids |-> IF p \in Main(new) THEN profile[p].birth
                                                     ELSE 0]]
    /\ UNCHANGED <<profile, made, updates, kb, deleting, given, overlapped>>

\* All references are replaced, whatever became of the profiles since they were
\* validated.
WriteKb(k) ==
    LET new == request[k]
        met == \E p \in Main(new) : deleting[p] > 0 \/ profile[p].birth # asked[k][p]
    IN  /\ new # NoKb
        /\ kb' = [kb EXCEPT ![k] = new] /\ request' = [request EXCEPT ![k] = NoKb]
        /\ given' = [given EXCEPT ![k] = asked[k]]
        /\ asked' = [asked EXCEPT ![k] = [p \in Pids |-> 0]]
        /\ overlapped' = IF met THEN overlapped \cup {k} ELSE overlapped \ {k}
        /\ UNCHANGED <<profile, made, updates, writes, deleting>>

CatNext ==
    \/ \E kind \in {"llm", "embedding"} : CreateProfile(kind)
    \/ \E p \in Pids : UpdateProfile(p) \/ DeleteCheck(p) \/ DeleteCommit(p)
    \/ \E k \in KBs : WriteKb(k)
    \/ \E k \in KBs, l \in Pids, e \in 0..MaxProfiles, f \in SUBSET Pids :
          /\ Cardinality(f) <= MaxFallbacks
          /\ ValidateKb(k, [llm |-> l, embedding |-> e, fallback |-> f])

CatSpec == CatInit /\ [][CatNext]_catVars

-----------------------------------------------------------------------------
(* Resolving a knowledge base, and properties.                             *)

\* assemble_kb_settings: a missing profile, or one that must have keys and has none,
\* raises.  An embedding profile without keys is passed on.
Resolves(k) ==
    /\ \A p \in {kb[k].llm} \cup kb[k].fallback : Live(p) /\ profile[p].keys
    /\ kb[k].embedding > 0 => Live(kb[k].embedding)

\* Once written, the chat and the embedding profile of a knowledge base are the very ones
\* that its request was validated for, whatever is deleted and created meanwhile,
\* unless a deletion of one of them was under way as the row was written or had
\* gone through since the validation: deletions check in one transaction and
\* delete in the next (delete_profile), references are validated in one and
\* written in the next (create_kb, update_kb).  So only a fallback, or keys that
\* were cleared, can keep it from resolving.
ReferencesKept ==
    \A k \in KBs \ overlapped : kb[k] # NoKb =>
        /\ \A p \in Main(kb[k]) : Live(p) /\ profile[p].birth = given[k][p]
        /\ ~Resolves(k) => \E p \in {kb[k].llm} \cup kb[k].fallback : ~profile[p].keys

\* A profile that a knowledge base uses is not deleted (the design of the profiles: "409
\* with the referencing-KB list if any KB uses it (no orphaning)").
NoOrphans ==
    \A k \in KBs : kb[k] # NoKb =>
        \A p \in Main(kb[k]) : Live(p)
=============================================================================
