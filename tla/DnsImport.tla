----------------------------- MODULE DnsImport -----------------------------
(***************************************************************************)
(* Import of DHCP bindings into the rewrites of the DNS server             *)
(* (jns_network_identity/__init__.py): a name is made of the last six      *)
(* digits of a MAC, so two MACs may have the same one; the rewrites are    *)
(* listed, compared and corrected one by one by requests of their own,     *)
(* then listed again.  Two imports may run at once.                        *)
(***************************************************************************)
EXTENDS Naturals, FiniteSets, FiniteSetsExt

CONSTANTS
    Macs, NameOf, \* MACs, and the name of each: a number, for their order
    Addresses,
    Uploads,      \* the files there are: sets of lines <<mac, address>>
    Importers,    \* service calls that may run at once
    Imports,      \* bound: how many imports are begun
    Failures      \* bound: how many requests fail

Names == {NameOf[m] : m \in Macs}
Lines == Macs \X Addresses
ASSUME NameAssumption == NameOf \in [Macs -> Nat]
ASSUME UploadAssumption == Uploads \subseteq SUBSET Lines
ASSUME ImportAssumption == Imports \in Nat /\ Failures \in Nat

VARIABLES
    rewrites,  \* the server's rewrites: pairs of name and address
    status,    \* the status entity
    dnsPc, upload,
    records,   \* [importers -> the pairs to be served]
    existing,  \* [importers -> the rewrites as listed, less those deleted since]
    left,      \* [importers -> names still to be changed]
    imports, failures,
    answered   \* ghost: [importers -> names answered when the import began]

dnsLocal == <<upload, records, existing, left>>
dnsVars == <<rewrites, status, dnsPc, dnsLocal, imports, failures, answered>>

AnswersIn(list, n) == {r[2] : r \in {r \in list : r[1] = n}}
Answers(n) == AnswersIn(rewrites, n)

DnsInit ==
    /\ \E ns \in SUBSET Names, as \in SUBSET Addresses : rewrites = ns \X as
    /\ status = "ready"
    /\ dnsPc = [i \in Importers |-> "idle"]
    /\ upload = [i \in Importers |-> {}] /\ records = [i \in Importers |-> {}]
    /\ existing = [i \in Importers |-> {}] /\ left = [i \in Importers |-> {}]
    /\ imports = 0 /\ failures = 0
    /\ answered = [i \in Importers |-> {}]

GoOn(i, step) == dnsPc' = [dnsPc EXCEPT ![i] = step]

\* The except clause.
Error(i) == GoOn(i, "idle") /\ status' = "error"

\* A request that is refused, or times out with or without its effect.
Fails(i, effect) ==
    /\ failures < Failures /\ failures' = failures + 1
    /\ rewrites' \in {rewrites, effect}
    /\ Error(i) /\ UNCHANGED <<dnsLocal, imports, answered>>

-----------------------------------------------------------------------------

BeginImport(i) ==
    /\ dnsPc[i] = "idle" /\ imports < Imports
    /\ \E u \in Uploads : upload' = [upload EXCEPT ![i] = u]
    /\ imports' = imports + 1
    /\ status' = "working" /\ GoOn(i, "parse")
    /\ UNCHANGED <<rewrites, records, existing, left, failures, answered>>

\* The pairs of an upload, unless two lines contradict each other.
Pairs(u) == {<<NameOf[l[1]], l[2]>> : l \in u}
Contradict(p, q) == (p[1] = q[1]) # (p[2] = q[2])
Acceptable(u) == u # {} /\ \A p, q \in Pairs(u) : ~Contradict(p, q)

\* _parse_bindings
Parse(i) ==
    /\ dnsPc[i] = "parse"
    /\ \/ /\ Acceptable(upload[i])
          /\ records' = [records EXCEPT ![i] = Pairs(upload[i])] /\ GoOn(i, "list")
          /\ UNCHANGED status
       \/ ~Acceptable(upload[i]) /\ Error(i) /\ UNCHANGED records
    /\ UNCHANGED <<rewrites, upload, existing, left, imports, failures, answered>>

\* Mutant: a name that has the right answer among others is left alone.
ToChangeIfMissing(list, served) ==
    {p[1] : p \in {p \in list : p \notin served}}

\* The names whose answer is not the one wanted, or not the only one.
ToChange(list, served) == {p[1] : p \in {p \in list : AnswersIn(served, p[1]) # {p[2]}}}

List(i) ==
    /\ dnsPc[i] = "list"
    /\ \/ /\ existing' = [existing EXCEPT ![i] = rewrites]
          /\ left' = [left EXCEPT ![i] = ToChange(records[i], rewrites)]
          /\ answered' = [answered EXCEPT ![i] = {r[1] : r \in rewrites}]
          /\ GoOn(i, "apply")
          /\ UNCHANGED <<rewrites, status, upload, records, imports, failures>>
       \/ Fails(i, rewrites)

\* The loop goes through the names in their order.
NextName(i) == Min(left[i])

Delete(i) ==
    /\ dnsPc[i] = "apply" /\ left[i] # {}
    /\ LET n == NextName(i) IN
       \E old \in AnswersIn(existing[i], n) :
           \/ /\ rewrites' = rewrites \ {<<n, old>>}
              /\ existing' = [existing EXCEPT ![i] = @ \ {<<n, old>>}]
              /\ UNCHANGED <<status, dnsPc, upload, records, left, imports, failures, answered>>
           \/ Fails(i, rewrites \ {<<n, old>>})

Add(i) ==
    /\ dnsPc[i] = "apply" /\ left[i] # {}
    /\ LET n == NextName(i)
           new == {<<n, a>> : a \in AnswersIn(records[i], n)}
       IN  /\ AnswersIn(existing[i], n) = {}
           /\ \/ /\ rewrites' = rewrites \cup new
                 /\ left' = [left EXCEPT ![i] = @ \ {n}]
                 /\ UNCHANGED <<status, dnsPc, upload, records, existing, imports, failures, answered>>
              \/ Fails(i, rewrites \cup new)

\* The second listing, and the end of the import.
Verify(i) ==
    /\ dnsPc[i] = "apply" /\ left[i] = {}
    /\ \/ /\ IF records[i] \subseteq rewrites THEN GoOn(i, "idle") /\ status' = "ok" ELSE Error(i)
          /\ UNCHANGED <<rewrites, dnsLocal, imports, failures, answered>>
       \/ Fails(i, rewrites)

ImportStep(i) == Parse(i) \/ List(i) \/ Delete(i) \/ Add(i) \/ Verify(i)
DnsNext == \E i \in Importers : BeginImport(i) \/ ImportStep(i)
DnsSpec == DnsInit /\ [][DnsNext]_dnsVars

\* Every request is answered or times out.
DnsFair == DnsSpec /\ \A i \in Importers : WF_dnsVars(ImportStep(i))

-----------------------------------------------------------------------------
(* Properties.                                                             *)

DnsTypeOK ==
    /\ rewrites \subseteq Names \X Addresses
    /\ status \in {"ready", "working", "ok", "error"}
    /\ dnsPc \in [Importers -> {"idle", "parse", "list", "apply"}]
    /\ upload \in [Importers -> SUBSET Lines]
    /\ records \in [Importers -> SUBSET (Names \X Addresses)]
    /\ existing \in [Importers -> SUBSET (Names \X Addresses)]
    /\ left \in [Importers -> SUBSET Names] /\ answered \in [Importers -> SUBSET Names]
    /\ imports \in 0..Imports /\ failures \in 0..Failures

Succeeds(i) == dnsPc[i] = "apply" /\ dnsPc'[i] = "idle" /\ status' = "ok"

\* An import that reports success leaves each of its names with its one
\* address and no other.
OkMeansServed == \A i \in Importers : Succeeds(i) =>
                    \A p \in records[i] : Answers(p[1])' = {p[2]}

\* Of the names that were answered when an import began, at most one is
\* without an answer, at any moment and after a failure.
GapIsOne == \A i \in Importers : Cardinality({n \in answered[i] : Answers(n) = {}}) <= 1

\* An import that reports success leaves each name with its one address, and
\* meanwhile at most one name that was answered is without an answer: of an
\* import that no other one interrupts.
OneImporter == \A i, j \in Importers : i = j
NamesAreServed ==
    [][DnsTypeOK' /\ (OneImporter => GapIsOne' /\ OkMeansServed)]_dnsVars

\* The status does not stay at "working".
Working == status = "working"
WorkingEnds == Working ~> ~Working
=============================================================================
