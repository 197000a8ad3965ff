----------------------------- MODULE RuleLists ------------------------------
(* What the firewall promises: for each place where packets pass a list of *)
(* rules, in the order they were added; the first rule that matches        *)
(* decides and is counted, and without one the packet passes.              *)
EXTENDS Naturals, Sequences, SequencesExt

CONSTANTS Lists, Rules, Packets, Matches(_, _)

VARIABLES
  rules,    \* of each list, the rules with their hits
  saved,    \* likewise, without hits
  verdict   \* on the last packet

vars == <<rules, saved, verdict>>

Init == rules = [l \in Lists |-> <<>>] /\ saved = rules /\ verdict = "passed"

Add(l, r) ==
  rules' = [rules EXCEPT ![l] = Append(@, [rule |-> r, hits |-> 0])] /\ UNCHANGED <<saved, verdict>>
Delete(l, i) == rules' = [rules EXCEPT ![l] = RemoveAt(@, i)] /\ UNCHANGED <<saved, verdict>>
Clear(l) == rules' = [rules EXCEPT ![l] = <<>>] /\ UNCHANGED <<saved, verdict>>

Pass(l, p) ==
  LET hit(e) == Matches(e.rule, p)
      i == SelectInSeq(rules[l], hit)
  IN  IF i = 0 THEN verdict' = "passed" /\ UNCHANGED <<rules, saved>>
      ELSE /\ verdict' = IF rules[l][i].rule.allow THEN "passed" ELSE "dropped"
           /\ rules' = [rules EXCEPT ![l][i].hits = @ + 1]
           /\ UNCHANGED saved

(* A restart brings back what was saved, counted anew.                     *)
Anew(s) == [i \in DOMAIN s |-> [s[i] EXCEPT !.hits = 0]]
Save(l) == saved' = [saved EXCEPT ![l] = Anew(rules[l])] /\ UNCHANGED <<rules, verdict>>
Restart == rules' = saved /\ UNCHANGED <<saved, verdict>>

Next ==
  \/ Restart
  \/ \E l \in Lists :
       \/ \E r \in Rules : Add(l, r)
       \/ \E i \in DOMAIN rules[l] : Delete(l, i)
       \/ Clear(l) \/ Save(l) \/ \E p \in Packets : Pass(l, p)

Spec == Init /\ [][Next]_vars
=============================================================================
