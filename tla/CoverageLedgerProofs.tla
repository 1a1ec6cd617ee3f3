------------------------- MODULE CoverageLedgerProofs -------------------------
(***************************************************************************)
(* Proofs about CoverageLedger, and the operators of WiringAnalysis and    *)
(* MergeGates it uses, for any revisions of any code, any number of        *)
(* writers, candidates and contents, and any pull request.                 *)
(***************************************************************************)
EXTENDS CoverageLedger, FiniteSetTheorems, TLAPS

(*----------------------------- enumerations ----------------------------*)
(* Members of a finite set with distinct ranks are counted from 1 up: each *)
(* number to the size of the set is the count of exactly one member.       *)
Upto(S, rank, x) == {y \in S : rank[y] <= rank[x]}

LEMMA CountsAreBijective ==
    ASSUME NEW S, IsFiniteSet(S), NEW rank, \A x \in S : rank[x] \in Int,
           \A x, y \in S : rank[x] = rank[y] => x = y
    PROVE  /\ Cardinality(S) \in Nat
           /\ \A x \in S : Cardinality(Upto(S, rank, x)) \in 1 .. Cardinality(S)
           /\ \A x, y \in S :
                 Cardinality(Upto(S, rank, x)) = Cardinality(Upto(S, rank, y)) => x = y
           /\ \A k \in 1 .. Cardinality(S) : \E x \in S : Cardinality(Upto(S, rank, x)) = k
<1> DEFINE count(x) == Cardinality(Upto(S, rank, x))
<1>1. Cardinality(S) \in Nat
  BY FS_CardinalityType
<1>2. ASSUME NEW x \in S PROVE IsFiniteSet(Upto(S, rank, x)) /\ count(x) \in 1 .. Cardinality(S)
  <2>1. Upto(S, rank, x) \in SUBSET S /\ x \in Upto(S, rank, x)
    BY DEF Upto
  <2>2. IsFiniteSet(Upto(S, rank, x)) /\ count(x) <= Cardinality(S)
    BY <2>1, FS_Subset
  <2>3. count(x) \in Nat /\ count(x) # 0
    BY <2>1, <2>2, FS_CardinalityType, FS_EmptySet
  <2> QED
    BY <1>1, <2>2, <2>3
<1>3. ASSUME NEW x \in S, NEW y \in S, rank[x] < rank[y] PROVE count(x) # count(y)
  <2>1. Upto(S, rank, x) \in SUBSET Upto(S, rank, y)
    BY <1>3 DEF Upto
  <2>2. y \in Upto(S, rank, y) \ Upto(S, rank, x)
    BY <1>3 DEF Upto
  <2> QED
    BY <1>2, <2>1, <2>2, FS_Subset
<1>4. ASSUME NEW x \in S, NEW y \in S, count(x) = count(y) PROVE x = y
  <2>1. ~(rank[x] < rank[y]) /\ ~(rank[y] < rank[x])
    BY <1>3, <1>4
  <2> QED
    BY <2>1
<1> DEFINE f == [x \in S |-> count(x)]
<1>5. f \in Injection(S, 1 .. Cardinality(S))
  <2>1. f \in [S -> 1 .. Cardinality(S)]
    BY <1>2
  <2> QED
    BY <1>4, <2>1 DEF Injection, IsInjective
<1>6. IsFiniteSet(1 .. Cardinality(S)) /\ Cardinality(1 .. Cardinality(S)) = Cardinality(S)
  BY <1>1, FS_Interval
<1>7. f \in Surjection(S, 1 .. Cardinality(S))
  BY <1>5, <1>6, FS_Injection
<1>8. \A k \in 1 .. Cardinality(S) : \E x \in S : count(x) = k
  BY <1>7 DEF Surjection
<1> QED
  BY <1>1, <1>2, <1>4, <1>8

(* So Ordered lists every member once. *)
LEMMA OrderedEnumerates ==
    ASSUME NEW S, IsFiniteSet(S), NEW rank, \A x \in S : rank[x] \in Int,
           \A x, y \in S : rank[x] = rank[y] => x = y
    PROVE  /\ Cardinality(S) \in Nat
           /\ Ordered(S, rank) \in [1 .. Cardinality(S) -> S]
           /\ \A j, k \in 1 .. Cardinality(S) :
                 Ordered(S, rank)[j] = Ordered(S, rank)[k] => j = k
           /\ \A x \in S : \E k \in 1 .. Cardinality(S) : Ordered(S, rank)[k] = x
<1> DEFINE list == Ordered(S, rank)
           count(x) == Cardinality(Upto(S, rank, x))
<1>1. list = [k \in 1 .. Cardinality(S) |-> CHOOSE x \in S : count(x) = k]
  BY DEF Ordered, Upto
<1>2. /\ Cardinality(S) \in Nat
      /\ \A x \in S : count(x) \in 1 .. Cardinality(S)
      /\ \A x, y \in S : count(x) = count(y) => x = y
      /\ \A k \in 1 .. Cardinality(S) : \E x \in S : count(x) = k
  BY CountsAreBijective
<1> HIDE DEF list, count
<1>3. \A k \in 1 .. Cardinality(S) : list[k] \in S /\ count(list[k]) = k
  BY <1>1, <1>2
<1>4. list \in [1 .. Cardinality(S) -> S]
  BY <1>1, <1>3
<1>5. \A j, k \in 1 .. Cardinality(S) : list[j] = list[k] => j = k
  BY <1>3
<1>6. \A x \in S : \E k \in 1 .. Cardinality(S) : list[k] = x
  BY <1>2, <1>3
<1> QED
  BY <1>2, <1>4, <1>5, <1>6 DEF list

(* A finite set of numbers has a greatest one: the last that is listed.    *)
LEMMA Greatest ==
    ASSUME NEW S, \A x \in S : x \in Int, IsFiniteSet(S), S # {}
    PROVE  \E x \in S : \A y \in S : y <= x
<1> DEFINE rank == [x \in S |-> x]
<1>1. /\ \A x \in S : rank[x] \in Int
      /\ \A x, y \in S : rank[x] = rank[y] => x = y
  OBVIOUS
<1>2. Cardinality(S) \in Nat /\ Cardinality(S) # 0
  BY FS_CardinalityType, FS_EmptySet
<1> HIDE DEF rank
<1>c. \A k \in 1 .. Cardinality(S) : \E x \in S : Cardinality(Upto(S, rank, x)) = k
  BY <1>1, CountsAreBijective
<1>3. PICK x \in S : Cardinality(Upto(S, rank, x)) = Cardinality(S)
  BY <1>2, <1>c
<1>4. Upto(S, rank, x) \in SUBSET S
  BY DEF Upto
<1>5. Upto(S, rank, x) = S
  BY <1>3, <1>4, FS_Subset
<1>6. \A y \in S : rank[y] <= rank[x]
  BY <1>5 DEF Upto
<1> QED
  BY <1>6 DEF rank
--------------------------------------------------------------------------------
(*------------------------------ the gates ------------------------------*)
(* What the proofs need to know of a document: its items have a scope and  *)
(* evidence with sessions, or are no objects.                              *)
Sessions(e) == {e.verifier_session_id, e.implementer_session_id}

GateItem(i) ==
    /\ i.in_scope \in {"True", "False", "truthy"}
    /\ i.evidence # None => Sessions(i.evidence) \subseteq RawSessions \cup {None}

GateDoc(doc) == \A i \in ToSet(doc.items) : i = Junk \/ GateItem(i)

(* Evidence the evidence gate accepts: complete, with the hash of what was *)
(* captured, by two sessions of the ledger.                                *)
LEMMA AcceptedEvidence ==
    ASSUME NEW e, NEW artifact, NEW ledger, check_slice(e, artifact, ledger),
           Sessions(e) \subseteq RawSessions \cup {None}
    PROVE  /\ e # None /\ e.form = "valid"
           /\ artifact # None /\ e.output_hash = artifact
           /\ _distinct_sessions(e)
           /\ Norm[e.verifier_session_id] # Norm[e.implementer_session_id]
           /\ Sessions(e) \subseteq {s \in RawSessions : Norm[s] \in {Norm[t] : t \in ledger}}
<1>1. /\ e # None /\ e.form = "valid"
      /\ artifact # None /\ e.output_hash = artifact
  BY DEF check_slice, validate_evidence_record, _rederive
<1>2. _distinct_sessions(e)
  BY DEF check_slice, _distinct_sessions
<1>3. \A s \in Sessions(e) : _norm_session(s) \in {_norm_session(t) : t \in ledger} \ {""}
  BY DEF check_slice, Sessions
<1>4. \A s \in Sessions(e) : s \in RawSessions /\ _norm_session(s) = Norm[s]
                             /\ Norm[s] \in {Norm[t] : t \in ledger}
  BY <1>3 DEF _norm_session
<1>5. Norm[e.verifier_session_id] # Norm[e.implementer_session_id]
  BY <1>2, <1>4 DEF _distinct_sessions, Sessions
<1> QED
  BY <1>1, <1>2, <1>4, <1>5

(* The artifact the CI check looks up for an id was captured, or is None.  *)
LEMMA ArtifactsAreCaptured ==
    ASSUME NEW items, NEW files, NEW n \in DOMAIN items
    PROVE  \/ ci_artifacts(items, files)[items[n].id] = None
           \/ \E c \in DOMAIN files : ci_artifacts(items, files)[items[n].id] = files[c]
<1> DEFINE id == items[n].id
           last == CHOOSE m \in DOMAIN items :
                       /\ items[m].id = id
                       /\ \A k \in DOMAIN items : items[k].id = id => k <= m
           evidence == items[last].evidence
<1>1. ci_artifacts(items, files)[id] =
          IF evidence = None THEN None ELSE _safe_read_artifact(files, evidence.test_file)
  BY DEF ci_artifacts
<1> QED
  BY <1>1 DEF _safe_read_artifact

(* Whatever passes the CI check and the merge gate is sound, item by item. *)
LEMMA GatesAreSound ==
    ASSUME DOMAIN captured = Contents, pr # None, GateDoc(pr.doc)
    PROVE  MergeSound
<1> SUFFICES ASSUME ci_run(pr.doc, pr.ledger, captured, pr.baseline),
                    python_gate(pr.doc),
                    pr.baseline.kind = "ids", pr.baseline.ids # {},
                    NEW rid \in pr.baseline.ids
             PROVE  \E n \in DOMAIN pr.doc.items :
                        LET item == pr.doc.items[n]
                            ev == item.evidence
                        IN  /\ item.id = rid /\ _first_occurrence(pr.doc.items, n)
                            /\ item.in_scope # "False"
                            /\ pr.ledger # None =>
                                  /\ item.status = "proven" /\ ev.form = "valid"
                                  /\ ev.output_hash \in {captured[c] : c \in Contents}
                                  /\ Norm[ev.verifier_session_id] # Norm[ev.implementer_session_id]
                                  /\ {ev.verifier_session_id, ev.implementer_session_id} \subseteq
                                        {s \in RawSessions : Norm[s] \in {Norm[t] : t \in pr.ledger}}
                            /\ item.in_scope = "True" =>
                                  /\ item.status = "proven"
                                  /\ item.type = "WIRING" => ev.evidence_kind = "integration"
  BY DEF MergeSound
<1> DEFINE items == pr.doc.items
<1>1. baseline_gate(pr.baseline, pr.doc)
  BY DEF ci_run
<1>2. /\ pr.doc.kind = "model"
      /\ \A n \in DOMAIN items : items[n] # Junk
      /\ \E n \in DOMAIN items : /\ items[n].id = rid
                                 /\ _first_occurrence(items, n)
                                 /\ items[n].in_scope # "False"
  BY <1>1 DEF baseline_gate
<1>3. PICK n \in DOMAIN items : /\ items[n].id = rid
                                /\ _first_occurrence(items, n)
                                /\ items[n].in_scope # "False"
  BY <1>2
<1> DEFINE item == items[n]
           ev == item.evidence
<1>4. item \in ToSet(items) /\ item # Junk /\ GateItem(item)
  BY <1>2 DEF GateDoc, ToSet
<1>5. ASSUME pr.ledger # None
      PROVE  /\ item.status = "proven"
             /\ check_slice(ev, ci_artifacts(items, captured)[item.id], pr.ledger)
  <2>1. check_model(pr.doc, pr.ledger, ci_artifacts(items, captured))
    BY <1>2, <1>5 DEF ci_run
  <2>2. item \in in_scope_items(items)
    BY <1>2, <1>3, <1>4 DEF in_scope_items, ToSet
  <2> QED
    BY <2>1, <2>2 DEF check_model
<1>6. ASSUME pr.ledger # None
      PROVE  /\ ev.form = "valid"
             /\ ev.output_hash \in {captured[c] : c \in Contents}
             /\ Norm[ev.verifier_session_id] # Norm[ev.implementer_session_id]
             /\ {ev.verifier_session_id, ev.implementer_session_id} \subseteq
                    {s \in RawSessions : Norm[s] \in {Norm[t] : t \in pr.ledger}}
  <2> DEFINE artifact == ci_artifacts(items, captured)[item.id]
  <2>1. check_slice(ev, artifact, pr.ledger)
    BY <1>5, <1>6
  <2>2. ev # None
    BY <2>1 DEF check_slice
  <2>3. Sessions(ev) \subseteq RawSessions \cup {None}
    BY <1>4, <2>2 DEF GateItem
  <2>4. artifact = None \/ \E c \in Contents : artifact = captured[c]
    BY ArtifactsAreCaptured
  <2> HIDE DEF artifact, ev
  <2>5. /\ ev.form = "valid" /\ artifact # None /\ ev.output_hash = artifact
        /\ Norm[ev.verifier_session_id] # Norm[ev.implementer_session_id]
        /\ Sessions(ev) \subseteq {s \in RawSessions : Norm[s] \in {Norm[t] : t \in pr.ledger}}
    BY <2>1, <2>3, AcceptedEvidence
  <2> QED
    BY <2>4, <2>5 DEF Sessions
<1>7. ASSUME item.in_scope = "True"
      PROVE  item.status = "proven" /\ (item.type = "WIRING" => ev.evidence_kind = "integration")
  <2>1. item \in {i \in ToSet(items) : i # Junk /\ i.in_scope = "True"}
    BY <1>4, <1>7
  <2>2. ~_item_denied(item)
    BY <1>2, <2>1 DEF python_gate, deny_merge
  <2> QED
    BY <2>2 DEF _item_denied
<1> QED
  BY <1>3, <1>5, <1>6, <1>7

(* What the evidence gate accepts the merge gate accepts, and what that    *)
(* one accepts is complete, if all of it are objects.                      *)
LEMMA GatesDoAgree ==
    ASSUME pr # None, GateDoc(pr.doc)
    PROVE  GatesAgree
<1> SUFFICES ASSUME pr.doc.kind = "model" PROVE GatesAgree
  BY DEF GatesAgree
<1> DEFINE items == pr.doc.items
           objects == {items[n] : n \in DOMAIN items} \ {Junk}
           counted == {i \in ToSet(items) : i # Junk /\ i.in_scope = "True"}
<1>1. objects = ToSet(items) \ {Junk} /\ \A i \in objects : GateItem(i)
  BY DEF ToSet, GateDoc
<1>2. deny_merge(pr.doc) <=> counted = {} \/ \E i \in counted : _item_denied(i)
  BY DEF deny_merge, _model_shape_denial
<1>3. ASSUME Junk \notin ToSet(items), pr.ledger # None,
             check_model(pr.doc, pr.ledger, ci_artifacts(items, captured)),
             \E i \in objects : i.in_scope = "True",
             \A i \in objects : i.type = "WIRING" /\ i.evidence # None =>
                                    i.evidence.evidence_kind = "integration"
      PROVE  ~deny_merge(pr.doc)
  <2>1. counted # {}
    BY <1>1, <1>3
  <2>2. ASSUME NEW i \in counted PROVE ~_item_denied(i)
    <3>1. i \in in_scope_items(items) /\ i \in objects
      BY <1>1, <1>3 DEF in_scope_items
    <3>2. /\ i.status = "proven"
          /\ check_slice(i.evidence, ci_artifacts(items, captured)[i.id], pr.ledger)
      BY <1>3, <3>1 DEF check_model
    <3>3. i.evidence # None /\ Sessions(i.evidence) \subseteq RawSessions \cup {None}
      BY <1>1, <3>1, <3>2 DEF check_slice, GateItem
    <3>4. i.evidence.form = "valid" /\ _distinct_sessions(i.evidence)
      BY <3>2, <3>3, AcceptedEvidence
    <3> QED
      BY <1>3, <3>1, <3>2, <3>3, <3>4 DEF _item_denied, _evidence_complete
  <2> QED
    BY <1>2, <2>1, <2>2
<1>4. ASSUME ~deny_merge(pr.doc), \A i \in objects : i.in_scope # "truthy",
             Junk \notin ToSet(items)
      PROVE  /\ is_complete(items)
             /\ build_opa_input(pr.doc) = [unproven_in_scope |-> {}, missing_evidence |-> {}]
  <2> DEFINE scope == {i \in ToSet(items) : i.in_scope # "False"}
             unproven == {i \in scope : i.status # "proven"}
             bare == {i \in scope \ unproven : i.evidence = None}
  <2>1. scope = counted
    BY <1>1, <1>4 DEF GateItem
  <2>2. counted # {} /\ \A i \in counted : i.status = "proven" /\ i.evidence # None
    BY <1>2, <1>4 DEF _item_denied, _evidence_complete
  <2> HIDE DEF counted
  <2>3. unproven = {} /\ bare = {}
    BY <2>1, <2>2
  <2>4. in_scope_items(items) = scope
    BY <1>4 DEF in_scope_items
  <2>5. build_opa_input(pr.doc) = [unproven_in_scope |-> {i.id : i \in unproven},
                                   missing_evidence |-> {i.id : i \in bare}]
    BY <1>4 DEF build_opa_input
  <2> HIDE DEF scope, unproven, bare
  <2>6. is_complete(items)
    BY <2>1, <2>2, <2>4, <1>4 DEF is_complete, has_unproven_in_scope, ToSet
  <2> QED
    BY <2>3, <2>5, <2>6
<1>5. ASSUME Junk \in ToSet(items)
      PROVE  ~is_complete(items) /\ build_opa_input(pr.doc) = Raises
  BY <1>5 DEF is_complete, in_scope_items, build_opa_input
<1> QED
  BY <1>3, <1>4, <1>5 DEF GatesAgree

--------------------------------------------------------------------------------
(*---------------------------- the candidates ---------------------------*)
LEMMA ImageFinite ==
    ASSUME NEW S, IsFiniteSet(S), NEW f, DOMAIN f = S, f = [x \in S |-> f[x]]
    PROVE  IsFiniteSet({f[x] : x \in S})
<1>1. f \in Surjection(S, {f[x] : x \in S})
  BY DEF Surjection
<1> QED
  BY <1>1, FS_Surjection

LEMMA SequenceDomain ==
    ASSUME NEW s, IsSeq(s)
    PROVE  /\ IsFiniteSet(DOMAIN s) /\ DOMAIN s = 1 .. Len(s) /\ Len(s) \in Nat
<1>1. DOMAIN s = 1 .. Len(s) /\ Len(s) \in Nat
  BY DEF IsSeq
<1> QED
  BY <1>1, FS_Interval

LEMMA SitesFinite ==
    ASSUME NEW c \in CodeBases
    PROVE  IsFiniteSet(sites(c))
<1> DEFINE f == [n \in DOMAIN c |-> {n} \X DOMAIN production_defs(c[n])]
<1>1. IsFiniteSet(DOMAIN c)
  BY LedgerConstants, SequenceDomain
<1>2. \A n \in DOMAIN c : IsFiniteSet(DOMAIN production_defs(c[n]))
  <2> TAKE n \in DOMAIN c
  <2>1. IsFiniteSet(DOMAIN c[n].defs)
    BY LedgerConstants, SequenceDomain
  <2>2. DOMAIN <<>> = {} /\ IsFiniteSet({})
    BY FS_EmptySet
  <2> QED
    BY <2>1, <2>2 DEF production_defs, file_defs
<1>3. \A n \in DOMAIN c : IsFiniteSet(f[n])
  BY <1>2, FS_Singleton, FS_Product
<1>4. sites(c) = UNION {f[n] : n \in DOMAIN c}
  BY DEF sites
<1> HIDE DEF f
<1>5. IsFiniteSet({f[n] : n \in DOMAIN c})
  <2>1. DOMAIN f = DOMAIN c /\ f = [n \in DOMAIN c |-> f[n]]
    BY DEF f
  <2> QED
    BY <1>1, <2>1, ImageFinite
<1> QED
  BY <1>3, <1>4, <1>5, FS_UNION

(* What ingest may be given: from a revision, with or without Semgrep.     *)
FoundIn(c, union) ==
    LET ast == emit_wiring_items(analyze(c))
    IN  IF union THEN merge(ast, Semgrep) ELSE ast

Wiring(i) ==
    i = [id |-> i.id, type |-> "WIRING", status |-> "unproven", in_scope |-> "True",
         qualname |-> i.qualname, file |-> i.file, reachable |-> i.reachable]

LEMMA EmittedShape ==
    ASSUME NEW c \in CodeBases
    PROVE  LET ast == emit_wiring_items(analyze(c))
           IN  /\ \E k \in Nat : DOMAIN ast = 1 .. k /\ ast = [n \in 1 .. k |-> ast[n]]
               /\ \A n \in DOMAIN ast : Wiring(ast[n])
<1> DEFINE k == Cardinality(sites(c))
           w == analyze(c)
<1>1. k \in Nat
  BY SitesFinite, FS_CardinalityType
<1>2. DOMAIN w = 1 .. k
  BY DEF analyze
<1> HIDE DEF k, w
<1>3. emit_wiring_items(w) =
          [n \in 1 .. k |->
              [id |-> n, type |-> "WIRING", status |-> "unproven", in_scope |-> "True",
               qualname |-> w[n].qualname, file |-> w[n].file, reachable |-> w[n].reachable]]
  BY <1>2 DEF emit_wiring_items
<1>4. \A n \in DOMAIN emit_wiring_items(w) : Wiring(emit_wiring_items(w)[n])
  BY <1>3 DEF Wiring
<1> QED
  BY <1>1, <1>3, <1>4 DEF w

(* A dictionary by qualname holds items of the list it is made from.       *)
LEMMA LastOfName ==
    ASSUME NEW items, IsFiniteSet(DOMAIN items), \A n \in DOMAIN items : n \in Int,
           NEW q \in DOMAIN _by_qualname(items)
    PROVE  \E n \in DOMAIN items : _by_qualname(items)[q] = items[n] /\ items[n].qualname = q
<1> DEFINE named == {n \in DOMAIN items : items[n].qualname = q}
           last == CHOOSE n \in DOMAIN items :
                 /\ items[n].qualname = q
                 /\ \A m \in DOMAIN items : items[m].qualname = q => m <= n
<1>1. named # {}
  BY DEF _by_qualname
<1>2. IsFiniteSet(named)
  BY FS_Subset
<1>3. \E n \in named : \A m \in named : m <= n
  BY <1>1, <1>2, Greatest
<1>4. last \in DOMAIN items /\ items[last].qualname = q
  BY <1>3
<1>5. _by_qualname(items)[q] = items[last]
  BY DEF _by_qualname
<1> QED
  BY <1>4, <1>5

LEMMA NamesFinite ==
    ASSUME NEW items, IsFiniteSet(DOMAIN items)
    PROVE  IsFiniteSet(DOMAIN _by_qualname(items))
<1> DEFINE f == [n \in DOMAIN items |-> items[n].qualname]
<1>1. DOMAIN _by_qualname(items) = {f[n] : n \in DOMAIN items}
  BY DEF _by_qualname
<1>2. DOMAIN f = DOMAIN items /\ f = [n \in DOMAIN items |-> f[n]]
  OBVIOUS
<1> HIDE DEF f
<1> QED
  BY <1>1, <1>2, ImageFinite

LEMMA MergedShape ==
    ASSUME NEW ast, NEW k \in Nat, DOMAIN ast = 1 .. k, \A n \in DOMAIN ast : Wiring(ast[n])
    PROVE  LET m == merge(ast, Semgrep)
           IN  /\ \E j \in Nat : DOMAIN m = 1 .. j /\ m = [n \in 1 .. j |-> m[n]]
               /\ \A n \in DOMAIN m : Wiring(m[n])
<1> DEFINE a == _by_qualname(ast)
           s == _by_qualname(Semgrep)
           flagged == {q \in DOMAIN a \cup DOMAIN s :
                          \/ q \in DOMAIN a /\ _ast_is_orphan(a[q])
                          \/ q \in DOMAIN s /\ _semgrep_is_finding(s[q])}
           order == Ordered(flagged, Rank)
           j == Cardinality(flagged)
<1>1. /\ IsFiniteSet(DOMAIN ast) /\ \A n \in DOMAIN ast : n \in Int
      /\ IsFiniteSet(DOMAIN Semgrep)
  BY FS_Interval, SequenceDomain, LedgerConstants
<1>2. IsFiniteSet(DOMAIN a) /\ IsFiniteSet(DOMAIN s)
  BY <1>1, NamesFinite
<1>3. IsFiniteSet(DOMAIN a \cup DOMAIN s)
  BY <1>2, FS_Union
<1>4. IsFiniteSet(flagged) /\ j \in Nat
  <2>1. flagged \in SUBSET (DOMAIN a \cup DOMAIN s)
    OBVIOUS
  <2> QED
    BY <1>3, <2>1, FS_Subset, FS_CardinalityType
<1>5. DOMAIN order = 1 .. j
  BY DEF Ordered
<1>6. merge(ast, Semgrep) =
          [n \in DOMAIN order |->
              IF order[n] \in DOMAIN a THEN a[order[n]] ELSE _synthesize_item(s[order[n]])]
  BY DEF merge
<1>7. \A q \in DOMAIN a : Wiring(a[q])
  BY <1>1, LastOfName
<1>8. \A x : Wiring(_synthesize_item(x))
  BY DEF Wiring, _synthesize_item
<1> HIDE DEF a, s, order, j
<1> QED
  BY <1>4, <1>5, <1>6, <1>7, <1>8

Found == UNION {ToSet(FoundIn(c, union)) : c \in CodeBases, union \in BOOLEAN}

Ids == {SlicedId} \cup {i.id : i \in Found}
Qualnames == {None} \cup {i.qualname : i \in Found}
Paths == {None} \cup {i.file : i \in Found}
Verdicts == {None} \cup {i.reachable : i \in Found}

Candidate ==
    [id : Ids, type : {"WIRING"}, status : {"unproven"}, in_scope : {"True"},
     qualname : Qualnames, file : Paths, reachable : Verdicts]

(* Every candidate is an unproven obligation, in scope, in a list.         *)
LEMMA CandidatesType ==
    ASSUME code \in CodeBases, NEW union \in BOOLEAN
    PROVE  Candidates(union) \in Seq(Candidate)
<1> DEFINE s == FoundIn(code, union)
<1>1. Candidates(union) = s
  BY DEF Candidates, FoundIn
<1>2. /\ \E k \in Nat : DOMAIN s = 1 .. k /\ s = [n \in 1 .. k |-> s[n]]
      /\ \A n \in DOMAIN s : Wiring(s[n])
  BY EmittedShape, MergedShape DEF FoundIn
<1>3. \A n \in DOMAIN s : s[n] \in Found
  <2>1. ToSet(s) \subseteq Found
    BY DEF Found
  <2> QED
    BY <2>1 DEF ToSet
<1> HIDE DEF s
<1>4. \A n \in DOMAIN s : s[n] \in Candidate
  BY <1>2, <1>3 DEF Candidate, Wiring, Ids, Qualnames, Paths, Verdicts
<1>5. PICK k \in Nat : DOMAIN s = 1 .. k /\ s = [n \in 1 .. k |-> s[n]]
  BY <1>2
<1>6. s \in [1 .. k -> Candidate]
  BY <1>4, <1>5
<1> QED
  BY <1>1, <1>6

(* ingest appends no name the model has, and none twice.                   *)
LEMMA SelectedAreNew ==
    ASSUME NEW cands \in Seq(Candidate), NEW items
    PROVE  LET new == _select_new_candidates(cands, items)
           IN  /\ new \in Seq(Candidate)
               /\ \A n \in DOMAIN new, m \in DOMAIN items : items[m].qualname # new[n].qualname
               /\ \A n, m \in DOMAIN new : new[n].qualname = new[m].qualname => n = m
<1> DEFINE fresh(n) ==
               /\ \A m \in DOMAIN items : items[m].qualname # cands[n].qualname
               /\ \A m \in 1 .. n - 1 : cands[m].qualname # cands[n].qualname
           places == {n \in DOMAIN cands : fresh(n)}
           rank == [n \in DOMAIN cands |-> n]
           kept == Ordered(places, rank)
           j == Cardinality(places)
           new == _select_new_candidates(cands, items)
<1>1. DOMAIN cands = 1 .. Len(cands) /\ Len(cands) \in Nat
  OBVIOUS
<1>2. IsFiniteSet(places)
  <2>1. places \in SUBSET (DOMAIN cands) /\ IsFiniteSet(DOMAIN cands)
    BY <1>1, FS_Interval
  <2> QED
    BY <2>1, FS_Subset
<1>3. /\ \A n \in places : rank[n] \in Int
      /\ \A n, m \in places : rank[n] = rank[m] => n = m
  BY <1>1
<1>4. new = [n \in DOMAIN kept |-> cands[kept[n]]]
  BY DEF _select_new_candidates
<1>p. \A n \in places : n \in 1 .. Len(cands) /\ fresh(n)
  BY <1>1
<1> HIDE DEF places, rank
<1>5. /\ j \in Nat /\ kept \in [1 .. j -> places]
      /\ \A n, m \in 1 .. j : kept[n] = kept[m] => n = m
  BY <1>2, <1>3, OrderedEnumerates
<1> HIDE DEF kept, j, new
<1>6. new \in [1 .. j -> Candidate] /\ \A n \in 1 .. j : new[n] = cands[kept[n]]
  BY <1>1, <1>4, <1>5, <1>p
<1>7. \A n \in DOMAIN new, m \in DOMAIN items : items[m].qualname # new[n].qualname
  BY <1>5, <1>6, <1>p
<1>8. ASSUME NEW n \in 1 .. j, NEW m \in 1 .. j, new[n].qualname = new[m].qualname PROVE n = m
  <2>1. cands[kept[n]].qualname = cands[kept[m]].qualname
    BY <1>6, <1>8
  <2>2. /\ kept[n] \in 1 .. Len(cands) /\ fresh(kept[n])
        /\ kept[m] \in 1 .. Len(cands) /\ fresh(kept[m])
    BY <1>5, <1>p
  <2>3. ~(kept[n] < kept[m]) /\ ~(kept[m] < kept[n])
    BY <1>1, <2>1, <2>2
  <2>4. kept[n] = kept[m]
    BY <1>1, <2>2, <2>3
  <2> QED
    BY <1>5, <2>4
<1> QED
  BY <1>5, <1>6, <1>7, <1>8 DEF new

--------------------------------------------------------------------------------
(*------------------------------ the ledger -----------------------------*)
Statuses == {"unproven", "proven", "failed"}

(* Items the writers of the file make: proven exactly with evidence.       *)
LedgerItem ==
    {i \in [id : Ids, type : {"functional", "WIRING"}, status : Statuses, in_scope : {"True"},
            qualname : Qualnames, file : Paths, reachable : Verdicts, evidence : Evidences] :
        i.status = "proven" <=> i.evidence # None}

(* The file, and what each process has read and will write.                *)
File == [kind : {"model", "unreadable"}, items : Seq(LedgerItem)]

Rewrite ==
    [op : {"replace", "text", "truncated"}, read : File, next : Seq(LedgerItem)]

FileInv ==
    /\ feature_list \in File
    /\ work \in [Procs -> Rewrite \cup {None}]

(* The pull request carries items of the file, and what an agent made of   *)
(* one.                                                                    *)
PullInv == pr # None => GateDoc(pr.doc)

TypeInv == TypeOK /\ captured \in [Contents -> Contents \cup {None}] /\ FileInv /\ PullInv

LEMMA NormalizedCandidate ==
    ASSUME NEW c \in Candidate
    PROVE  normalize_item(c) \in LedgerItem /\ normalize_item(c).qualname = c.qualname
<1>1. normalize_item(c) =
         [id |-> c.id, type |-> c.type, status |-> c.status, in_scope |-> c.in_scope,
          qualname |-> c.qualname, file |-> c.file, reachable |-> c.reachable,
          evidence |-> None]
  BY DEF normalize_item, Candidate
<1> QED
  BY <1>1 DEF Candidate, LedgerItem, Evidences, Statuses

LEMMA InitialFile == init_feature_list \in File
<1> DEFINE c == [id |-> SlicedId, type |-> "functional", status |-> "unproven",
                 in_scope |-> "True", qualname |-> None, file |-> None, reachable |-> None]
<1>1. normalize_item(c) =
         [id |-> SlicedId, type |-> "functional", status |-> "unproven",
          in_scope |-> "True", qualname |-> None, file |-> None, reachable |-> None,
          evidence |-> None]
  BY DEF normalize_item
<1>2. normalize_item(c) \in LedgerItem
  BY <1>1 DEF LedgerItem, Evidences, Statuses, Ids, Qualnames, Paths, Verdicts
<1> QED
  BY <1>2 DEF init_feature_list, Model, File

(* What ingest adds comes after the items that are there, under new names. *)
LEMMA Grown ==
    ASSUME NEW old \in Seq(LedgerItem), NEW cands \in Seq(Candidate)
    PROVE  LET new == _select_new_candidates(cands, old)
               items == old \o [n \in DOMAIN new |-> normalize_item(new[n])]
           IN  /\ items \in Seq(LedgerItem)
               /\ \A n \in DOMAIN old : n \in DOMAIN items /\ items[n] = old[n]
               /\ \A n, m \in DOMAIN items :
                     items[n].qualname = items[m].qualname =>
                         n = m \/ (n \in DOMAIN old /\ m \in DOMAIN old)
<1> DEFINE new == _select_new_candidates(cands, old)
           tail == [n \in DOMAIN new |-> normalize_item(new[n])]
           items == old \o tail
<1>1. /\ new \in Seq(Candidate)
      /\ \A n \in DOMAIN new, m \in DOMAIN old : old[m].qualname # new[n].qualname
      /\ \A n, m \in DOMAIN new : new[n].qualname = new[m].qualname => n = m
  BY SelectedAreNew
<1> HIDE DEF new
<1>2. /\ tail \in Seq(LedgerItem) /\ Len(tail) = Len(new)
      /\ \A n \in 1 .. Len(tail) : tail[n].qualname = new[n].qualname
  BY <1>1, NormalizedCandidate
<1> HIDE DEF tail
<1>3. /\ items \in Seq(LedgerItem) /\ Len(items) = Len(old) + Len(tail)
      /\ \A n \in 1 .. Len(old) : items[n] = old[n]
      /\ \A n \in 1 .. Len(tail) : items[Len(old) + n] = tail[n]
  BY <1>2
<1> HIDE DEF items
<1>0. /\ DOMAIN old = 1 .. Len(old) /\ Len(old) \in Nat
      /\ DOMAIN new = 1 .. Len(new) /\ Len(new) \in Nat /\ Len(tail) = Len(new)
      /\ DOMAIN items = 1 .. Len(items)
  BY <1>1, <1>2, <1>3
<1>4. \A n \in 1 .. Len(items) : n \notin 1 .. Len(old) =>
          /\ n - Len(old) \in 1 .. Len(tail)
          /\ items[n] = tail[n - Len(old)]
  <2> SUFFICES ASSUME NEW n \in 1 .. Len(items), n \notin 1 .. Len(old)
               PROVE  /\ n - Len(old) \in 1 .. Len(tail)
                      /\ items[n] = tail[n - Len(old)]
    OBVIOUS
  <2>1. n - Len(old) \in 1 .. Len(tail)
    BY <1>0, <1>3
  <2>2. n = Len(old) + (n - Len(old))
    BY <1>0
  <2> QED
    BY <1>3, <2>1, <2>2
<1>5. ASSUME NEW n \in DOMAIN items, NEW m \in DOMAIN items,
             items[n].qualname = items[m].qualname, n \notin DOMAIN old
      PROVE  n = m
  <2>1. /\ n - Len(old) \in DOMAIN new
        /\ items[n].qualname = new[n - Len(old)].qualname
    BY <1>0, <1>2, <1>4, <1>5
  <2>2. m \notin DOMAIN old
    BY <1>1, <1>3, <1>5, <1>0, <2>1
  <2>3. /\ m - Len(old) \in DOMAIN new
        /\ items[m].qualname = new[m - Len(old)].qualname
    BY <1>0, <1>2, <1>4, <2>2
  <2>4. n - Len(old) = m - Len(old)
    BY <1>1, <1>5, <2>1, <2>3
  <2> QED
    BY <1>0, <2>4
<1>6. \A n \in DOMAIN old : n \in DOMAIN items /\ items[n] = old[n]
  BY <1>0, <1>3
<1>7. \A n, m \in DOMAIN items : items[n].qualname = items[m].qualname =>
          n = m \/ (n \in DOMAIN old /\ m \in DOMAIN old)
  <2> SUFFICES ASSUME NEW n \in DOMAIN items, NEW m \in DOMAIN items,
                      items[n].qualname = items[m].qualname, n # m
               PROVE  n \in DOMAIN old /\ m \in DOMAIN old
    OBVIOUS
  <2> QED
    BY <1>5
<1> QED
  BY <1>3, <1>6, <1>7 DEF items, tail, new

--------------------------------------------------------------------------------
(* No name occurs twice.                                                   *)
Distinct(items) ==
    \A n, m \in DOMAIN items : items[n].qualname = items[m].qualname => n = m

(* Every item stays at its place under its name, and proven if it was.     *)
Extends(old, new) ==
    \A n \in DOMAIN old :
       /\ n \in DOMAIN new /\ new[n].qualname = old[n].qualname
       /\ old[n].status = "proven" => new[n].status = "proven"

(* What a writer that has read old may put in its place.                   *)
Rewrites(old, new) ==
    /\ new \in Seq(LedgerItem)
    /\ Extends(old, new)
    /\ Distinct(old) => Distinct(new)

Started(p) ==
    /\ feature_list.kind = "model"
    /\ \E op \in {"replace", "text"} : \E new \in Seq(LedgerItem) :
          Rewrites(feature_list.items, new) /\ Begin(p, op, new)

LEMMA CollectedEvidence ==
    ASSUME NEW c \in Contents
    PROVE  /\ collect(c, c, "integration", Verifier, Implementer) \in Evidences
           /\ collect(c, c, "integration", Verifier, Implementer) # None
BY LedgerConstants DEF Evidences

(* Items changed in place, without a new name and without losing a proof.  *)
LEMMA ChangedInPlace ==
    ASSUME NEW old \in Seq(LedgerItem), NEW new, DOMAIN new = DOMAIN old,
           new = [n \in DOMAIN old |-> new[n]],
           \A n \in DOMAIN old :
              /\ new[n] \in LedgerItem /\ new[n].qualname = old[n].qualname
              /\ old[n].status = "proven" => new[n].status = "proven"
    PROVE  Rewrites(old, new)
<1>1. DOMAIN old = 1 .. Len(old) /\ Len(old) \in Nat
  OBVIOUS
<1>2. new \in [1 .. Len(old) -> LedgerItem]
  BY <1>1
<1>3. new \in Seq(LedgerItem)
  BY <1>1, <1>2
<1> QED
  BY <1>3 DEF Rewrites, Extends, Distinct

LEMMA IngestStarts ==
    ASSUME TypeInv, NEW p \in Procs, NEW union \in BOOLEAN, Ingest(p, union)
    PROVE  Started(p)
<1> DEFINE old == feature_list.items
           new == _select_new_candidates(Candidates(union), old)
           items == old \o [n \in DOMAIN new |-> normalize_item(new[n])]
<1>1. old \in Seq(LedgerItem) /\ Candidates(union) \in Seq(Candidate)
  BY CandidatesType DEF TypeInv, TypeOK, FileInv, File
<1>2. /\ items \in Seq(LedgerItem)
      /\ \A n \in DOMAIN old : n \in DOMAIN items /\ items[n] = old[n]
      /\ \A n, m \in DOMAIN items :
            items[n].qualname = items[m].qualname =>
                n = m \/ (n \in DOMAIN old /\ m \in DOMAIN old)
  BY <1>1, Grown
<1>3. feature_list.kind = "model" /\ Begin(p, "replace", items)
  BY DEF Ingest
<1> HIDE DEF items
<1>4. Distinct(old) => Distinct(items)
  BY <1>2 DEF Distinct
<1>5. Rewrites(old, items)
  BY <1>2, <1>4 DEF Rewrites, Extends
<1> QED
  BY <1>2, <1>3, <1>5 DEF Started

LEMMA MarkStarts ==
    ASSUME TypeInv, NEW p \in Procs, MarkWiringFailed(p)
    PROVE  Started(p)
<1> DEFINE old == feature_list.items
           items == marked_failed(old, dead_code(code))
<1>1. old \in Seq(LedgerItem)
  BY DEF TypeInv, FileInv, File
<1>2. feature_list.kind = "model" /\ Begin(p, "replace", items)
  BY DEF MarkWiringFailed
<1>3. \A i \in LedgerItem : i.status = "unproven" =>
          /\ [i EXCEPT !.status = "failed"] \in LedgerItem
          /\ [i EXCEPT !.status = "failed"].qualname = i.qualname
  BY DEF LedgerItem, Statuses
<1>4. \A n \in DOMAIN old : old[n] \in LedgerItem
  BY <1>1
<1>5. \A n \in DOMAIN old :
         /\ items[n] \in LedgerItem /\ items[n].qualname = old[n].qualname
         /\ old[n].status = "proven" => items[n].status = "proven"
  BY <1>3, <1>4 DEF marked_failed
<1>6. DOMAIN items = DOMAIN old /\ items = [n \in DOMAIN old |-> items[n]]
  BY DEF marked_failed
<1> HIDE DEF items
<1>7. Rewrites(old, items)
  BY <1>1, <1>5, <1>6, ChangedInPlace
<1> QED
  BY <1>2, <1>7 DEF Started, Rewrites

(* An item that is proven with collected evidence.                         *)
LEMMA ProvenItem ==
    ASSUME NEW i \in LedgerItem, NEW c \in Contents
    PROVE  LET record == collect(c, c, "integration", Verifier, Implementer)
               j == [i EXCEPT !.status = "proven", !.evidence = record]
           IN  j \in LedgerItem /\ j.qualname = i.qualname /\ j.status = "proven"
<1> DEFINE record == collect(c, c, "integration", Verifier, Implementer)
<1>1. record \in Evidences /\ record # None
  BY CollectedEvidence
<1> HIDE DEF record
<1> DEFINE a == [i EXCEPT !.status = "proven"]
           j == [a EXCEPT !.evidence = record]
<1>a. a = [id |-> i.id, type |-> i.type, status |-> "proven", in_scope |-> i.in_scope,
           qualname |-> i.qualname, file |-> i.file, reachable |-> i.reachable,
           evidence |-> i.evidence]
  BY DEF LedgerItem
<1> HIDE DEF a
<1>2. j = [id |-> i.id, type |-> i.type, status |-> "proven", in_scope |-> i.in_scope,
           qualname |-> i.qualname, file |-> i.file, reachable |-> i.reachable,
           evidence |-> record]
  BY <1>a
<1> HIDE DEF j
<1>3. j \in LedgerItem /\ j.qualname = i.qualname /\ j.status = "proven"
  BY <1>1, <1>2 DEF LedgerItem, Statuses
<1> QED
  BY <1>3, Zenon DEF j, a, record

LEMMA SliceStarts ==
    ASSUME TypeInv, NEW p \in Procs, NEW content \in Contents, ProveSlice(p, content)
    PROVE  Started(p)
<1> DEFINE old == feature_list.items
           record == collect(content, content, "integration", Verifier, Implementer)
           proven(i) == [i EXCEPT !.status = "proven", !.evidence = record]
           items == [n \in DOMAIN old |-> IF old[n].id = SlicedId THEN proven(old[n]) ELSE old[n]]
<1>1. old \in Seq(LedgerItem) /\ \A n \in DOMAIN old : old[n] \in LedgerItem
  BY DEF TypeInv, FileInv, File
<1>2. feature_list.kind = "model" /\ Begin(p, "text", items)
  BY DEF ProveSlice
<1>3. \A i \in LedgerItem : /\ proven(i) \in LedgerItem /\ proven(i).qualname = i.qualname
                            /\ proven(i).status = "proven"
  BY ProvenItem
<1> HIDE DEF proven
<1>5. \A n \in DOMAIN old :
         /\ items[n] \in LedgerItem /\ items[n].qualname = old[n].qualname
         /\ old[n].status = "proven" => items[n].status = "proven"
  BY <1>1, <1>3
<1>6. DOMAIN items = DOMAIN old /\ items = [n \in DOMAIN old |-> items[n]]
  OBVIOUS
<1> HIDE DEF items
<1>7. Rewrites(old, items)
  BY <1>1, <1>5, <1>6, ChangedInPlace
<1> QED
  BY <1>2, <1>7 DEF Started, Rewrites

LEMMA VerifierStarts ==
    ASSUME TypeInv, NEW p \in Procs, NEW content \in Contents,
           NEW k \in DOMAIN feature_list.items, VerifierProves(p, k, content)
    PROVE  Started(p)
<1> DEFINE old == feature_list.items
           record == collect(content, content, "integration", Verifier, Implementer)
           proven(i) == [i EXCEPT !.status = "proven", !.evidence = record]
           items == [old EXCEPT ![k].status = "proven", ![k].evidence = record]
<1>1. old \in Seq(LedgerItem) /\ \A n \in DOMAIN old : old[n] \in LedgerItem
  BY DEF TypeInv, FileInv, File
<1>2. feature_list.kind = "model" /\ Begin(p, "text", items)
  BY DEF VerifierProves
<1>3. \A i \in LedgerItem : /\ proven(i) \in LedgerItem /\ proven(i).qualname = i.qualname
                            /\ proven(i).status = "proven"
  BY ProvenItem
<1> HIDE DEF record
<1>4. /\ DOMAIN items = DOMAIN old /\ items = [n \in DOMAIN old |-> items[n]]
      /\ \A n \in DOMAIN old : items[n] = IF n = k THEN proven(old[n]) ELSE old[n]
  BY <1>1
<1> HIDE DEF items, proven
<1>5. \A n \in DOMAIN old :
         /\ items[n] \in LedgerItem /\ items[n].qualname = old[n].qualname
         /\ old[n].status = "proven" => items[n].status = "proven"
  <2> SUFFICES ASSUME NEW n \in DOMAIN old
               PROVE  /\ items[n] \in LedgerItem /\ items[n].qualname = old[n].qualname
                      /\ old[n].status = "proven" => items[n].status = "proven"
    OBVIOUS
  <2>1. CASE n = k
    <3>1. items[n] = proven(old[n])
      BY <1>4, <2>1
    <3> QED
      BY <1>1, <1>3, <3>1
  <2>2. CASE n # k
    <3>1. items[n] = old[n]
      BY <1>4, <2>2
    <3> QED
      BY <1>1, <3>1
  <2> QED
    BY <2>1, <2>2
<1>7. Rewrites(old, items)
  BY <1>1, <1>4, <1>5, ChangedInPlace
<1> QED
  BY <1>2, <1>7 DEF Started, Rewrites

(* The steps that only prepare a rewrite.                                  *)
Prepares(p) ==
    \/ \E union \in BOOLEAN : Ingest(p, union)
    \/ MarkWiringFailed(p)
    \/ \E content \in Contents :
          \/ ProveSlice(p, content)
          \/ \E n \in DOMAIN feature_list.items : VerifierProves(p, n, content)

LEMMA PreparesStarts ==
    ASSUME TypeInv, NEW p \in Procs, Prepares(p)
    PROVE  /\ Started(p)
           /\ UNCHANGED <<code, feature_list, pr, edits, stale, written, proved>>
           /\ \/ UNCHANGED captured
              \/ \E c \in Contents : captured' = [captured EXCEPT ![c] = c]
<1>1. Started(p)
  BY IngestStarts, MarkStarts, SliceStarts, VerifierStarts DEF Prepares
<1> QED
  BY <1>1 DEF Prepares, Ingest, MarkWiringFailed, ProveSlice, VerifierProves
--------------------------------------------------------------------------------
(* What a pull request may carry has scopes and sessions the gates know.   *)
LEMMA LedgerItemsAreGateItems ==
    \A i \in LedgerItem : GateItem(i)
<1>1. \A e \in Evidences : e # None => Sessions(e) \subseteq RawSessions
  BY LedgerConstants DEF Evidences, Sessions, collect
<1> QED
  BY <1>1 DEF LedgerItem, GateItem

LEMMA PayloadsAreGateDocs ==
    ASSUME FileInv, NEW doc \in Payloads
    PROVE  GateDoc(doc)
<1> DEFINE items == feature_list.items
           changes(i) == {[i EXCEPT !.in_scope = s] : s \in {"False", "truthy"}}
                         \cup {[i EXCEPT !.status = "proven", !.evidence = e] : e \in Forged}
<1>1. items \in Seq(LedgerItem) /\ \A n \in DOMAIN items : items[n] \in LedgerItem
  BY DEF FileInv, File
<1>2. \A i \in LedgerItem : \A c \in changes(i) : GateItem(c)
  <2> SUFFICES ASSUME NEW i \in LedgerItem, NEW c \in changes(i) PROVE GateItem(c)
    OBVIOUS
  <2>1. ASSUME NEW s \in {"False", "truthy"}, c = [i EXCEPT !.in_scope = s] PROVE GateItem(c)
    <3>1. c.in_scope = s /\ c.evidence = i.evidence
      BY <2>1 DEF LedgerItem
    <3> QED
      BY <3>1, LedgerItemsAreGateItems DEF GateItem
  <2>2. ASSUME NEW e \in Forged, c = [i EXCEPT !.status = "proven", !.evidence = e]
        PROVE  GateItem(c)
    <3>1. c.in_scope = i.in_scope /\ c.evidence = e
      BY <2>2 DEF LedgerItem
    <3>2. Sessions(e) \subseteq RawSessions \cup {None}
      BY LedgerConstants DEF Sessions
    <3> QED
      BY <3>1, <3>2, LedgerItemsAreGateItems DEF GateItem
  <2> QED
    BY <2>1, <2>2
<1> HIDE DEF changes
<1>3. \A n \in DOMAIN items : GateItem(items[n])
  BY <1>1, LedgerItemsAreGateItems
<1>4. CASE doc = feature_list
  BY <1>3, <1>4 DEF GateDoc, ToSet
<1>5. CASE doc = [kind |-> "absent", items |-> <<>>]
  BY <1>5 DEF GateDoc, ToSet
<1>6. CASE doc = Model(Append(items, Junk))
  <2>1. \A n \in DOMAIN doc.items : doc.items[n] = Junk \/ GateItem(doc.items[n])
    BY <1>1, <1>3, <1>6 DEF Model
  <2> QED
    BY <2>1 DEF GateDoc, ToSet
<1>7. ASSUME NEW n \in DOMAIN items, NEW c \in changes(items[n]),
             doc = Model([items EXCEPT ![n] = c])
      PROVE  GateDoc(doc)
  <2>1. \A m \in DOMAIN doc.items : GateItem(doc.items[m])
    BY <1>1, <1>2, <1>3, <1>7 DEF Model
  <2> QED
    BY <2>1 DEF GateDoc, ToSet
<1>8. ASSUME NEW n \in DOMAIN items,
             doc = Model(Append([items EXCEPT ![n].in_scope = "False"], items[n]))
      PROVE  GateDoc(doc)
  <2> DEFINE off == [items[n] EXCEPT !.in_scope = "False"]
             changed == [items EXCEPT ![n] = off]
  <2>1. off \in changes(items[n])
    BY DEF changes
  <2>2. GateItem(off)
    BY <1>1, <1>2, <2>1
  <2>3. doc.items = Append(changed, items[n])
    BY <1>8 DEF Model
  <2> HIDE DEF off
  <2>4. DOMAIN changed = 1 .. Len(items) /\ Len(items) \in Nat
        /\ \A m \in 1 .. Len(items) : changed[m] = IF m = n THEN off ELSE items[m]
    BY <1>1
  <2>5. changed \in Seq({changed[m] : m \in 1 .. Len(items)} \cup {items[n]})
        /\ Len(changed) = Len(items)
    <3>1. changed \in [1 .. Len(items) -> {changed[m] : m \in 1 .. Len(items)} \cup {items[n]}]
      BY <2>4
    <3> QED
      BY <2>4, <3>1
  <2> HIDE DEF changed
  <2>6. \A m \in DOMAIN doc.items : doc.items[m] = off \/ \E l \in DOMAIN items : doc.items[m] = items[l]
    BY <1>1, <2>3, <2>4, <2>5
  <2> QED
    BY <1>3, <2>2, <2>6 DEF GateDoc, ToSet
<1>9. \/ doc \in {feature_list, [kind |-> "absent", items |-> <<>>], Model(Append(items, Junk))}
      \/ \E n \in DOMAIN items : \E c \in changes(items[n]) : doc = Model([items EXCEPT ![n] = c])
      \/ \E n \in DOMAIN items :
            doc = Model(Append([items EXCEPT ![n].in_scope = "False"], items[n]))
  <2> DEFINE A == {feature_list, [kind |-> "absent", items |-> <<>>], Model(Append(items, Junk))}
             B(n) == {Model([items EXCEPT ![n] = c]) : c \in changes(items[n])}
             C == {Model(Append([items EXCEPT ![n].in_scope = "False"], items[n])) :
                      n \in DOMAIN items}
  <2> DEFINE U == UNION {B(n) : n \in DOMAIN items}
  <2>1. doc \in U => \E n \in DOMAIN items : doc \in B(n)
    OBVIOUS
  <2>6. doc \in A \cup U \cup C
    BY Zenon DEF Payloads, changes
  <2> HIDE DEF A, B, C, U
  <2>2. doc \in A \/ (\E n \in DOMAIN items : doc \in B(n)) \/ doc \in C
    BY <2>1, <2>6
  <2>3. doc \in A => doc \in {feature_list, [kind |-> "absent", items |-> <<>>],
                              Model(Append(items, Junk))}
    BY Zenon DEF A
  <2>4. \A n \in DOMAIN items : doc \in B(n) =>
            \E c \in changes(items[n]) : doc = Model([items EXCEPT ![n] = c])
    BY Zenon DEF B
  <2>5. doc \in C => \E n \in DOMAIN items :
            doc = Model(Append([items EXCEPT ![n].in_scope = "False"], items[n]))
    BY Zenon DEF C
  <2> QED
    BY <2>2, <2>3, <2>4, <2>5, Zenon
<1> QED
  BY <1>4, <1>5, <1>6, <1>7, <1>8, <1>9

--------------------------------------------------------------------------------
(* A text write that has truncated the file forgets what it had read.      *)
LEMMA RewriteTruncated ==
    ASSUME FileInv, NEW p \in Procs, Truncate(p)
    PROVE  work' = [work EXCEPT ![p] =
                       [op |-> "truncated", read |-> Unreadable, next |-> work[p].next]]
<1>1. work[p] \in Rewrite /\ work \in [Procs -> Rewrite \cup {None}]
  BY DEF Truncate, FileInv
<1> DEFINE cut == [op |-> "truncated", read |-> work[p].read, next |-> work[p].next]
           new == [op |-> "truncated", read |-> Unreadable, next |-> work[p].next]
           a == [work EXCEPT ![p].op = "truncated"]
<1>2. [work[p] EXCEPT !.op = "truncated"] = cut
  BY <1>1 DEF Rewrite
<1>3. [cut EXCEPT !.read = Unreadable] = new
  OBVIOUS
<1> HIDE DEF cut, new
<1>4. a = [work EXCEPT ![p] = cut]
  BY <1>2
<1>5. work' = [a EXCEPT ![p].read = Unreadable]
  BY Zenon DEF Truncate
<1> HIDE DEF a
<1>6. a[p] = cut /\ \A q \in Procs : q # p => a[q] = work[q]
  BY <1>1, <1>4
<1>7. work' = [a EXCEPT ![p] = new]
  BY <1>3, <1>5, <1>6
<1> QED
  BY <1>1, <1>4, <1>7 DEF new

(* What FileInv says of the file and the writers in TypeOK's own words.    *)
LEMMA FileTyped ==
    ASSUME FileInv
    PROVE  /\ feature_list.kind \in {"model", "unreadable"}
           /\ \A item \in ToSet(feature_list.items) :
                 /\ item.status \in {"unproven", "proven", "failed"}
                 /\ item.evidence \in Evidences
                 /\ item.status = "proven" <=> item.evidence # None
           /\ \A p \in Procs : work[p] # None => work[p].op \in {"replace", "text", "truncated"}
<1>1. feature_list.items \in Seq(LedgerItem)
  BY DEF FileInv, File
<1>2. \A item \in ToSet(feature_list.items) : item \in LedgerItem
  BY <1>1 DEF ToSet
<1>3. \A p \in Procs : work[p] # None => work[p] \in Rewrite
  BY DEF FileInv
<1> QED
  BY <1>2, <1>3 DEF FileInv, File, Rewrite, LedgerItem, Statuses

LEMMA InitTyped == Init => TypeInv
<1> SUFFICES ASSUME Init PROVE TypeInv
  OBVIOUS
<1>1. FileInv /\ PullInv
  BY InitialFile DEF Init, FileInv, PullInv
<1>2. captured \in [Contents -> Contents \cup {None}] /\ \A c \in Contents : captured[c] = None
  BY DEF Init
<1>3. /\ code \in CodeBases /\ stale \in BOOLEAN
      /\ edits \in 0 .. MaxEdits /\ writes \in 0 .. MaxWrites
  <2>1. MaxEdits \in Nat /\ MaxWrites \in Nat /\ FirstCode \in CodeBases
    BY LedgerConstants
  <2>2. stale \in BOOLEAN
    BY Zenon DEF Init
  <2>3. code \in CodeBases /\ edits = 0 /\ writes = 0
    BY <2>1 DEF Init
  <2> QED
    BY <2>1, <2>2, <2>3
<1> QED
  BY <1>1, <1>2, <1>3, FileTyped DEF TypeInv, TypeOK

LEMMA TypeStep == TypeInv /\ [Next]_vars => TypeInv'
<1> SUFFICES ASSUME TypeInv, [Next]_vars PROVE TypeInv'
  OBVIOUS
<1> DEFINE Rest == /\ code \in CodeBases
                   /\ \A c \in Contents : captured[c] \in {None, c}
                   /\ captured \in [Contents -> Contents \cup {None}]
                   /\ stale \in BOOLEAN
                   /\ edits \in 0 .. MaxEdits /\ writes \in 0 .. MaxWrites
<1>1. Rest /\ FileInv /\ PullInv /\ MaxEdits \in Nat /\ MaxWrites \in Nat
  BY LedgerConstants DEF TypeInv, TypeOK
<1>2. SUFFICES Rest' /\ FileInv' /\ PullInv'
  <2>1. FileInv' => (/\ feature_list.kind \in {"model", "unreadable"}
                     /\ \A item \in ToSet(feature_list.items) :
                           /\ item.status \in {"unproven", "proven", "failed"}
                           /\ item.evidence \in Evidences
                           /\ item.status = "proven" <=> item.evidence # None
                     /\ \A p \in Procs : work[p] # None =>
                           work[p].op \in {"replace", "text", "truncated"})'
    BY FileTyped, PTL
  <2> QED
    BY <2>1 DEF TypeInv, TypeOK
<1>3. ASSUME NEW c \in CodeBases, EditCode(c) PROVE Rest' /\ FileInv' /\ PullInv'
  BY <1>1, <1>3 DEF EditCode, FileInv, PullInv
<1>4. ASSUME NEW p \in Procs, Prepares(p) PROVE Rest' /\ FileInv' /\ PullInv'
  <2>1. /\ Started(p)
        /\ UNCHANGED <<code, feature_list, pr, edits, stale, written, proved>>
        /\ \/ UNCHANGED captured
           \/ \E c \in Contents : captured' = [captured EXCEPT ![c] = c]
    BY <1>4, PreparesStarts
  <2>2. PICK op \in {"replace", "text"}, new \in Seq(LedgerItem) : Begin(p, op, new)
    BY <2>1 DEF Started
  <2>3. [op |-> op, read |-> feature_list, next |-> new] \in Rewrite
    BY <1>1, <2>2 DEF Rewrite, FileInv
  <2>4. work' \in [Procs -> Rewrite \cup {None}]
    BY <1>1, <2>2, <2>3 DEF Begin, FileInv
  <2>5. writes' \in 0 .. MaxWrites
    BY <1>1, <2>2 DEF Begin
  <2>6. /\ \A c \in Contents : captured'[c] \in {None, c}
        /\ captured' \in [Contents -> Contents \cup {None}]
    BY <1>1, <2>1
  <2> QED
    BY <1>1, <2>1, <2>4, <2>5, <2>6 DEF FileInv, PullInv
<1>5. ASSUME NEW p \in Procs, Truncate(p) PROVE Rest' /\ FileInv' /\ PullInv'
  <2>1. Unreadable \in File
    BY DEF Unreadable, File
  <2>2. work[p] \in Rewrite
    BY <1>1, <1>5 DEF Truncate, FileInv
  <2>3. work'[p] = [op |-> "truncated", read |-> Unreadable, next |-> work[p].next]
    BY <1>1, <1>5, <2>2, RewriteTruncated DEF Truncate, FileInv
  <2>4. work'[p] \in Rewrite
    BY <2>1, <2>2, <2>3 DEF Rewrite
  <2>5. work' \in [Procs -> Rewrite \cup {None}]
    BY <1>1, <1>5, <2>4, RewriteTruncated DEF Truncate, FileInv
  <2>6. stale' \in BOOLEAN
    BY <1>5 DEF Truncate
  <2> QED
    BY <1>1, <1>5, <2>1, <2>5, <2>6 DEF Truncate, FileInv, PullInv
<1>6. ASSUME NEW p \in Procs, Finish(p) PROVE Rest' /\ FileInv' /\ PullInv'
  <2>1. work[p] \in Rewrite
    BY <1>1, <1>6 DEF Finish, FileInv
  <2>2. feature_list' \in File
    BY <1>6, <2>1 DEF Finish, Rewrite, Model, File
  <2>3. work' \in [Procs -> Rewrite \cup {None}]
    BY <1>1, <1>6 DEF Finish, FileInv
  <2>4. stale' \in BOOLEAN
    BY <1>6 DEF Finish
  <2> QED
    BY <1>1, <1>6, <2>2, <2>3, <2>4 DEF Finish, FileInv, PullInv
<1>7. ASSUME NEW p \in Procs, Die(p) PROVE Rest' /\ FileInv' /\ PullInv'
  BY <1>1, <1>7 DEF Die, FileInv, PullInv
<1>8. ASSUME NEW doc \in Payloads, NEW rest \in PRs, OpenPR(doc, rest)
      PROVE  Rest' /\ FileInv' /\ PullInv'
  <2>1. GateDoc(doc)
    BY <1>1, PayloadsAreGateDocs
  <2>2. pr'.doc = doc
    BY <1>8 DEF OpenPR
  <2>3. PullInv'
    BY <2>1, <2>2 DEF PullInv
  <2> QED
    BY <1>1, <1>8, <2>3 DEF OpenPR, FileInv
<1>9. CASE UNCHANGED vars
  BY <1>1, <1>9 DEF vars, FileInv, PullInv
<1> HIDE DEF Rest
<1> QED
  BY <1>3, <1>4, <1>5, <1>6, <1>7, <1>8, <1>9 DEF Next, Prepares

(* The file stays a list of items of the three statuses, each proven       *)
(* exactly when it carries complete evidence, whatever the writers         *)
(* interrupt.                                                              *)
THEOREM TypeCorrect == Spec => []TypeOK
<1>1. TypeInv => TypeOK
  BY DEF TypeInv
<1> QED
  BY <1>1, InitTyped, TypeStep, PTL DEF Spec

(* A pull request both merge checks accept carries every baseline id, in   *)
(* scope, and with a dispatch ledger each proven by captured evidence of   *)
(* two distinct dispatched sessions, whatever an agent changed in it.      *)
THEOREM AcceptedIsSound == Spec => []MergeSound
<1>1. TypeInv => MergeSound
  <2> SUFFICES ASSUME TypeInv PROVE MergeSound
    OBVIOUS
  <2>1. CASE pr = None
    BY <2>1 DEF MergeSound
  <2>2. CASE pr # None
    BY <2>2, GatesAreSound DEF TypeInv, PullInv
  <2> QED
    BY <2>1, <2>2
<1> QED
  BY <1>1, InitTyped, TypeStep, PTL DEF Spec

(* The local evidence gate, the CI check and Conftest do not contradict    *)
(* each other about one pull request.                                      *)
THEOREM NoContradiction == Spec => []GatesAgree
<1>1. TypeInv => GatesAgree
  <2> SUFFICES ASSUME TypeInv PROVE GatesAgree
    OBVIOUS
  <2>1. CASE pr = None
    BY <2>1 DEF GatesAgree
  <2>2. CASE pr # None
    BY <2>2, GatesDoAgree DEF TypeInv, PullInv
  <2> QED
    BY <2>1, <2>2
<1> QED
  BY <1>1, InitTyped, TypeStep, PTL DEF Spec
--------------------------------------------------------------------------------
(* Every name that was ever in the file is in these items, and those that  *)
(* were ever proven are proven.                                            *)
Holds(items) ==
    /\ \A q \in written : \E n \in DOMAIN items : items[n].qualname = q
    /\ \A n \in DOMAIN items : items[n].qualname \in proved => items[n].status = "proven"

(* What a writer has read and will write, at each point of its rewrite.    *)
WriterInv ==
    \A p \in Procs : work[p] # None =>
        /\ Distinct(work[p].next)
        /\ work[p].op \in {"replace", "text"} =>
              /\ work[p].read.kind = "model"
              /\ Extends(work[p].read.items, work[p].next)
        /\ work[p].op = "truncated" => work[p].read = Unreadable

(* Until a rewrite replaces a file it has not read: a readable file holds  *)
(* all there ever was, and a truncated one is about to.                    *)
HeldInv ==
    ~stale =>
        /\ feature_list.kind = "model" => Holds(feature_list.items)
        /\ \A p \in Procs : work[p] # None /\ work[p].op = "truncated" =>
              /\ feature_list = Unreadable
              /\ Holds(work[p].next)
              /\ \A r \in Procs : work[r] # None /\ work[r].op = "truncated" => r = p

KeptInv ==
    /\ proved \subseteq written
    /\ feature_list.kind = "model" => Distinct(feature_list.items)
    /\ WriterInv /\ HeldInv

(* A rewrite of items that hold everything holds everything.               *)
LEMMA StillHolds ==
    ASSUME proved \subseteq written, NEW old, NEW new,
           Holds(old), Extends(old, new), Distinct(new)
    PROVE  Holds(new)
<1>1. \A q \in written : \E n \in DOMAIN new : new[n].qualname = q
  BY DEF Holds, Extends
<1>2. ASSUME NEW n \in DOMAIN new, new[n].qualname \in proved PROVE new[n].status = "proven"
  <2>1. PICK m \in DOMAIN old : old[m].qualname = new[n].qualname
    BY <1>2 DEF Holds
  <2>2. /\ old[m].status = "proven" /\ m \in DOMAIN new
        /\ new[m].qualname = new[n].qualname /\ new[m].status = "proven"
    BY <1>2, <2>1 DEF Holds, Extends
  <2> QED
    BY <2>2 DEF Distinct
<1> QED
  BY <1>1, <1>2 DEF Holds

LEMMA InitKept == Init => KeptInv
<1> SUFFICES ASSUME Init PROVE KeptInv
  OBVIOUS
<1>1. \A p \in Procs : work[p] = None
  BY DEF Init
<1>2. written = {} /\ proved = {}
  BY DEF Init
<1>3. DOMAIN feature_list.items = {1}
  BY DEF Init, init_feature_list, Model
<1> QED
  BY <1>1, <1>2, <1>3 DEF KeptInv, WriterInv, HeldInv, Holds, Distinct

LEMMA KeptStep == TypeInv /\ KeptInv /\ [Next]_vars => KeptInv'
<1> SUFFICES ASSUME TypeInv, KeptInv, [Next]_vars PROVE KeptInv'
  OBVIOUS
<1>0. FileInv
  BY DEF TypeInv
<1>1. ASSUME UNCHANGED <<feature_list, work, stale, written, proved>> PROVE KeptInv'
  BY <1>1 DEF KeptInv, WriterInv, HeldInv, Holds
<1>2. ASSUME NEW c \in CodeBases, EditCode(c) PROVE KeptInv'
  BY <1>1, <1>2 DEF EditCode
<1>3. ASSUME NEW doc \in Payloads, NEW rest \in PRs, OpenPR(doc, rest) PROVE KeptInv'
  BY <1>1, <1>3 DEF OpenPR
<1>4. CASE UNCHANGED vars
  BY <1>1, <1>4 DEF vars
<1>5. ASSUME NEW p \in Procs, Prepares(p) PROVE KeptInv'
  <2>1. Started(p) /\ UNCHANGED <<feature_list, stale, written, proved>>
    BY <1>5, PreparesStarts
  <2>2. PICK op \in {"replace", "text"}, new \in Seq(LedgerItem) :
            Rewrites(feature_list.items, new) /\ Begin(p, op, new)
    BY <2>1 DEF Started
  <2>3. feature_list.kind = "model" /\ Distinct(new) /\ Extends(feature_list.items, new)
    BY <2>1, <2>2 DEF Started, Rewrites, KeptInv
  <2>4. /\ work'[p] = [op |-> op, read |-> feature_list, next |-> new]
        /\ \A r \in Procs : r # p => work'[r] = work[r]
    BY <1>0, <2>2 DEF Begin, FileInv
  <2>5. WriterInv'
    BY <2>3, <2>4 DEF KeptInv, WriterInv
  <2>6. \A r \in Procs : work'[r] # None /\ work'[r].op = "truncated" =>
            r # p /\ work'[r] = work[r]
    BY <2>4
  <2>7. HeldInv'
    BY <2>1, <2>6 DEF KeptInv, HeldInv, Holds
  <2> QED
    BY <2>1, <2>5, <2>7 DEF KeptInv
<1>6. ASSUME NEW p \in Procs, Truncate(p) PROVE KeptInv'
  <2>1. /\ work'[p] = [op |-> "truncated", read |-> Unreadable, next |-> work[p].next]
        /\ \A r \in Procs : r # p => work'[r] = work[r]
    BY <1>0, <1>6, RewriteTruncated DEF FileInv
  <2>2. /\ work[p] # None /\ work[p].op = "text"
        /\ feature_list' = Unreadable
        /\ UNCHANGED <<written, proved>>
    BY <1>6 DEF Truncate
  <2>3. WriterInv'
    BY <2>1, <2>2 DEF KeptInv, WriterInv
  <2>4. ASSUME ~stale' PROVE Holds(work[p].next) /\ feature_list.kind = "model" /\ ~stale
    <3>1. ~stale /\ feature_list = work[p].read
      BY <1>6, <2>4 DEF Truncate
    <3>2. feature_list.kind = "model" /\ Extends(feature_list.items, work[p].next)
      BY <2>2, <3>1 DEF KeptInv, WriterInv
    <3>3. Holds(feature_list.items) /\ Distinct(work[p].next) /\ proved \subseteq written
      BY <2>2, <3>1, <3>2 DEF KeptInv, WriterInv, HeldInv
    <3> QED
      BY <3>1, <3>2, <3>3, StillHolds
  <2>5. ASSUME ~stale' PROVE \A r \in Procs : r # p /\ work[r] # None => work[r].op # "truncated"
    <3>1. feature_list # Unreadable /\ ~stale
      BY <2>4, <2>5 DEF Unreadable
    <3> QED
      BY <3>1 DEF KeptInv, HeldInv
  <2>6. HeldInv'
    BY <2>1, <2>2, <2>4, <2>5 DEF HeldInv, Holds, Unreadable
  <2> QED
    BY <2>2, <2>3, <2>6 DEF KeptInv, Unreadable
<1>7. ASSUME NEW p \in Procs, Finish(p) PROVE KeptInv'
  <2> DEFINE next == work[p].next
  <2>1. /\ work[p] # None /\ work[p].op \in {"replace", "truncated"}
        /\ feature_list' = Model(next)
        /\ written' = written \cup {i.qualname : i \in ToSet(next)}
        /\ proved' = proved \cup {i.qualname : i \in {j \in ToSet(next) : j.status = "proven"}}
    BY <1>7 DEF Finish
  <2>2. work'[p] = None /\ \A r \in Procs : r # p => work'[r] = work[r]
    BY <1>0, <1>7 DEF Finish, FileInv
  <2>3. WriterInv'
    BY <2>2 DEF KeptInv, WriterInv
  <2>4. Distinct(next) /\ proved \subseteq written
    BY <2>1 DEF KeptInv, WriterInv
  <2>5. feature_list'.kind = "model" /\ feature_list'.items = next
    BY <2>1 DEF Model
  <2>6. ASSUME ~stale'
        PROVE  /\ Holds(next)
               /\ \A r \in Procs : r # p /\ work[r] # None => work[r].op # "truncated"
    <3>1. ~stale /\ feature_list = work[p].read
      BY <1>7, <2>6 DEF Finish
    <3>2. CASE work[p].op = "truncated"
      BY <2>1, <3>1, <3>2 DEF KeptInv, HeldInv
    <3>3. CASE work[p].op = "replace"
      <4>1. feature_list.kind = "model" /\ Extends(feature_list.items, next)
        BY <2>1, <3>1, <3>3 DEF KeptInv, WriterInv
      <4>2. Holds(feature_list.items) /\ feature_list # Unreadable
        BY <3>1, <4>1 DEF KeptInv, HeldInv, Unreadable
      <4>3. Holds(next)
        BY <2>4, <4>1, <4>2, StillHolds
      <4> QED
        BY <3>1, <4>2, <4>3 DEF KeptInv, HeldInv
    <3> QED
      BY <2>1, <3>2, <3>3
  <2>7. ToSet(next) = {next[n] : n \in DOMAIN next}
    BY DEF ToSet
  <2>8. ASSUME Holds(next)
        PROVE  /\ \A q \in written' : \E n \in DOMAIN next : next[n].qualname = q
               /\ \A n \in DOMAIN next : next[n].qualname \in proved' => next[n].status = "proven"
    <3>1. \A q \in written' : \E n \in DOMAIN next : next[n].qualname = q
      BY <2>1, <2>7, <2>8 DEF Holds
    <3>2. ASSUME NEW n \in DOMAIN next, next[n].qualname \in proved'
          PROVE  next[n].status = "proven"
      <4>1. CASE next[n].qualname \in proved
        BY <2>8, <4>1 DEF Holds
      <4>2. CASE next[n].qualname \notin proved
        <5>1. PICK m \in DOMAIN next : next[m].status = "proven" /\ next[m].qualname = next[n].qualname
          BY <2>1, <2>7, <3>2, <4>2
        <5> QED
          BY <2>4, <5>1 DEF Distinct
      <4> QED
        BY <4>1, <4>2
    <3> QED
      BY <3>1, <3>2
  <2>9. proved' \subseteq written'
    BY <2>1, <2>4
  <2> HIDE DEF next
  <2>10. HeldInv'
    BY <2>2, <2>5, <2>6, <2>8 DEF HeldInv, Holds
  <2> QED
    BY <2>3, <2>4, <2>5, <2>9, <2>10 DEF KeptInv
<1>8. ASSUME NEW p \in Procs, Die(p) PROVE KeptInv'
  <2>1. work'[p] = None /\ \A r \in Procs : r # p => work'[r] = work[r]
    BY <1>0, <1>8 DEF Die, FileInv
  <2>2. UNCHANGED <<feature_list, stale, written, proved>>
    BY <1>8 DEF Die
  <2> QED
    BY <2>1, <2>2 DEF KeptInv, WriterInv, HeldInv, Holds
<1> QED
  BY <1>2, <1>3, <1>4, <1>5, <1>6, <1>7, <1>8 DEF Next, Prepares

(* Until a rewrite replaces a file it has not read, an obligation that     *)
(* once entered the file is in it exactly once, and a proven one is        *)
(* proven, whatever is analysed again and whoever dies.                    *)
THEOREM ObligationsKept == Spec => []LedgerKept
<1>1. TypeInv /\ KeptInv => LedgerKept
  <2> SUFFICES ASSUME TypeInv, KeptInv, ~stale, feature_list.kind = "model"
               PROVE  LET items == feature_list.items
                      IN  /\ \A q \in written :
                                Cardinality({n \in DOMAIN items : items[n].qualname = q}) = 1
                          /\ \A n \in DOMAIN items :
                                items[n].qualname \in proved => items[n].status = "proven"
    BY DEF LedgerKept
  <2> DEFINE items == feature_list.items
  <2>1. Holds(items) /\ Distinct(items)
    BY DEF KeptInv, HeldInv
  <2>2. ASSUME NEW q \in written
        PROVE  Cardinality({n \in DOMAIN items : items[n].qualname = q}) = 1
    <3>1. PICK m \in DOMAIN items : items[m].qualname = q
      BY <2>1, <2>2 DEF Holds
    <3>2. {n \in DOMAIN items : items[n].qualname = q} = {m}
      BY <2>1, <3>1 DEF Distinct
    <3> QED
      BY <3>2, FS_Singleton
  <2> QED
    BY <2>1, <2>2 DEF Holds
<1> QED
  BY <1>1, InitTyped, TypeStep, InitKept, KeptStep, PTL DEF Spec
================================================================================
