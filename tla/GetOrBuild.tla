----------------------------- MODULE GetOrBuild -----------------------------
(***************************************************************************)
(* What AgencyClient.gateway() and AgencyClient.observability() promise:   *)
(* one instance per identity, built by the first caller that succeeds and  *)
(* handed to every caller that asks for the identity.                      *)
(***************************************************************************)
EXTENDS Naturals

CONSTANTS
  Thread, Identity,
  Nothing  \* no identity

VARIABLES
  instance,  \* the instance of each identity, 0 when there is none
  asked,     \* the identity each thread asks for, or Nothing
  answer,    \* the instance each thread was given last, 0 when it failed
  made       \* instances made so far

buildVars == <<instance, asked, answer, made>>

BuildInit ==
  /\ instance = [i \in Identity |-> 0]
  /\ asked = [t \in Thread |-> Nothing]
  /\ answer = [t \in Thread |-> 0]
  /\ made = 0

\* A thread asks for an identity.
AskFor(t, i) ==
  /\ asked[t] = Nothing
  /\ asked' = [asked EXCEPT ![t] = i]
  /\ UNCHANGED <<instance, answer, made>>

Answer(t, n) ==
  /\ answer' = [answer EXCEPT ![t] = n]
  /\ asked' = [asked EXCEPT ![t] = Nothing]

\* The instance exists: it is the answer.
Reuse(t, i) ==
  /\ asked[t] = i /\ instance[i] # 0
  /\ Answer(t, instance[i])
  /\ UNCHANGED <<instance, made>>

\* There is none: a new one is made, kept and given.
Build(t, i) ==
  /\ asked[t] = i /\ instance[i] = 0
  /\ made' = made + 1
  /\ instance' = [instance EXCEPT ![i] = made + 1]
  /\ Answer(t, made + 1)

\* Building raises: nothing is kept.
Fail(t, i) ==
  /\ asked[t] = i /\ instance[i] = 0
  /\ Answer(t, 0)
  /\ UNCHANGED <<instance, made>>

BuildNext ==
  \E t \in Thread, i \in Identity :
    AskFor(t, i) \/ Reuse(t, i) \/ Build(t, i) \/ Fail(t, i)

BuildSpec == BuildInit /\ [][BuildNext]_buildVars
==============================================================================
