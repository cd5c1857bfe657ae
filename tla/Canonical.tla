----------------------------- MODULE Canonical -----------------------------
(***************************************************************************)
(* The components of a tournament, and the tournament with one sound       *)
(* instance of each and nothing concurrent: what the registry's reference  *)
(* session computes (src/internal/session/registry.go reference), and what *)
(* the runtime checks replicas against (src/internal/golden/store.go).     *)
(***************************************************************************)
EXTENDS Strategies, Injector

InjectorName == "game-injector"
TrackerName == "tracker"
NoComponent == ""
Component == {InjectorName, TrackerName} \cup Strategy

Payload == [kind : {"NewGame"}, id : Nat, a : Strategy, b : Strategy]
             \cup [kind : {"GameDecision"}, strategy : Strategy, decision : Decision]

\* The payloads that may follow a log: the sound answers to its last event.
SoloNext(payloads) ==
  LET st == Rebuild(NoBug, payloads)
  IN InjectorBoots(st) \cup InjectorEmits(st)
       \cup UNION {PlayerEmits(s, {}, st) : s \in Strategy}

CanonicalLog ==
  LET upto[k \in 0..(3 * MaxGames)] ==
        IF k = 0 THEN <<>>
        ELSE LET h == upto[k - 1] IN h \o SetToSeq(SoloNext(h))
  IN upto[3 * MaxGames]
CanonicalChain == Rebuild(NoBug, CanonicalLog).chain

\* The component a payload of the log comes from.
SenderOf(p) == IF p.kind = "NewGame" THEN InjectorName ELSE p.strategy

\* Variant: the last event of the reference is never compared.
MatchesReferencePrefix(st, n) ==
  n >= Len(CanonicalChain) \/ st.chain = SubSeq(CanonicalChain, 1, n)

\* golden.Validator.Validate of the chain of a store that has applied n events:
\* past the end of the reference everything passes.
MatchesReference(st, n) ==
  n > Len(CanonicalChain) \/ st.chain = SubSeq(CanonicalChain, 1, n)
=============================================================================
