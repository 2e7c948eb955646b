------------------------------ MODULE Infusion ------------------------------
(* The claude bridge (llm/cli_tunnel.py) and the Infusion engine it goes to  *)
(* when AOS_USE_INFUSION is set (infusion/engine.py, infusion/providers):    *)
(* the prompt is broadcast to every provider at once, the answers are        *)
(* combined, and the providers refine the text one after another.            *)
EXTENDS Naturals, SequencesExt

VARIABLES
    keyed,      \* providers whose key was in the environment when the engine was made
    cli,        \* whether the claude binary is in PATH
    infused,    \* AOS_USE_INFUSION
    stage,      \* where the call is
    waiting,    \* providers whose broadcast answer is outstanding
    heard,      \* what each provider answered the broadcast
    parts,      \* the providers whose answers were combined
    current,    \* the text so far
    turn,       \* how far the refinement order has been gone through
    chain,      \* refinement_chain
    answer      \* what the caller got, or that it got an exception

infusionVars ==
    <<keyed, cli, infused, stage, waiting, heard, parts, current, turn, chain, answer>>

Order == <<"claude", "chatgpt", "gemini", "perplexity">>
RefinementOrder == <<"gemini", "perplexity", "chatgpt", "claude">>
Providers == ToSet(Order)

\* A text is known by who wrote it last, over whose text, and as what.
Text(by, over, as) == [by |-> by, over |-> over, as |-> as]
Nothing == Text("nobody", "nobody", "nothing")
Failed == Text("nobody", "nobody", "failure")
Apology == Text("engine", "nobody", "no LLM providers available")
Synthesis == Text("engine", "everyone", "synthesis")

\* The keys are read once; the binary is looked for at every call.
Available(p) == IF p = "claude" THEN cli ELSE p \in keyed

\* An API answers with a text, which may be empty, or fails; the empty output of the CLI is
\* a failure.
Outcomes(p, over, as) ==
    {Failed, Text(p, over, as)} \cup IF p = "claude" THEN {} ELSE {Text(p, over, "empty")}

InfusionInit ==
    /\ keyed \in SUBSET (Providers \ {"claude"}) /\ cli \in BOOLEAN /\ infused \in BOOLEAN
    /\ stage = "out" /\ waiting = {} /\ heard = <<>> /\ parts = <<>>
    /\ current = Nothing /\ turn = 0 /\ chain = <<>> /\ answer = Nothing

\* _run_cli: no binary, a failed exit and an empty output are all errors.
Raw == IF cli THEN Outcomes("claude", "nobody", "text") ELSE {Failed}

\* CLITunnel.complete without Infusion.
CompleteByCli ==
    /\ stage = "out" /\ ~infused
    /\ stage' = "done" /\ answer' \in Raw
    /\ UNCHANGED <<keyed, cli, infused, waiting, heard, parts, current, turn, chain>>

\* complete_with_tools never goes to Infusion, and gives a failure back as a text, but for
\* a timeout.  A marked block is a tool call, text when it is no JSON, and an exception when
\* it is JSON but no object.
CompleteWithTools ==
    /\ stage = "out"
    /\ stage' = "tools"
    /\ \E raw \in Raw :
         IF raw = Failed THEN answer' \in {Text("engine", "nobody", "CLI unavailable"), Failed}
         ELSE answer' \in {raw, Text("claude", "nobody", "tool_use"), Failed}
    /\ UNCHANGED <<keyed, cli, infused, waiting, heard, parts, current, turn, chain>>

Broadcast ==
    /\ stage = "out" /\ infused
    /\ waiting' = {p \in Providers : Available(p)}
    /\ stage' = "broadcast"
    /\ UNCHANGED <<keyed, cli, infused, heard, parts, current, turn, chain, answer>>

\* _call_provider turns a failure into a response; they come back in any order.
CallProvider(p) ==
    /\ stage = "broadcast" /\ p \in waiting
    /\ waiting' = waiting \ {p}
    /\ \E t \in Outcomes(p, "nobody", "text") :
         heard' = [q \in DOMAIN heard \cup {p} |-> IF q = p THEN t ELSE heard[q]]
    /\ UNCHANGED <<keyed, cli, infused, stage, parts, current, turn, chain, answer>>

\* The responses in a fixed order: a failed one is left out, an empty one is not.
Success(p) == IF p \in DOMAIN heard /\ heard[p] # Failed THEN <<p>> ELSE <<>>
Successful == Success(Order[1]) \o Success(Order[2]) \o Success(Order[3]) \o Success(Order[4])

Combine ==
    /\ stage = "broadcast" /\ waiting = {}
    /\ parts' = Successful
    /\ \/ /\ Successful = <<>>
          /\ stage' = "done" /\ answer' = Apology
          /\ UNCHANGED current
       \/ /\ Successful # <<>>
          /\ stage' = "refine"
          /\ current' = IF Len(Successful) = 1 THEN heard[Successful[1]] ELSE Synthesis
          /\ UNCHANGED answer
    /\ UNCHANGED <<keyed, cli, infused, waiting, heard, turn, chain>>

\* Mutant: the refinement goes on with whatever the provider returned.
KeptAnyway(t) == t

\* A provider that fails leaves the text as it was; one that answers nothing empties it.
Kept(t) == IF t = Failed THEN current ELSE t

\* One turn of _refine: an unavailable provider is passed over.  Only a fourth step, failed
\* ones counted, asks for the definitive answer.
Refine ==
    /\ stage = "refine" /\ turn < Len(RefinementOrder)
    /\ turn' = turn + 1
    /\ LET p == RefinementOrder[turn + 1]
           as == IF Len(chain) < 3 THEN "refined" ELSE "definitive"
       IN  IF ~Available(p) THEN UNCHANGED <<current, chain>>
           ELSE \E t \in Outcomes(p, current.by, as) :
                    /\ chain' = Append(chain, [by |-> p, text |-> t])
                    /\ current' = Kept(t)
    /\ UNCHANGED <<keyed, cli, infused, stage, waiting, heard, parts, answer>>

Conclude ==
    /\ stage = "refine" /\ turn = Len(RefinementOrder)
    /\ stage' = "done" /\ answer' = current
    /\ UNCHANGED <<keyed, cli, infused, waiting, heard, parts, current, turn, chain>>

\* The binary comes and goes while a call runs.
Reinstall ==
    /\ stage \in {"broadcast", "refine"}
    /\ cli' = ~cli
    /\ UNCHANGED <<keyed, infused, stage, waiting, heard, parts, current, turn, chain, answer>>

InfusionNext ==
    \/ CompleteByCli \/ CompleteWithTools \/ Broadcast \/ Combine \/ Refine \/ Conclude \/ Reinstall
    \/ \E p \in Providers : CallProvider(p)

InfusionSpec == InfusionInit /\ [][InfusionNext]_infusionVars

-----------------------------------------------------------------------------
\* The steps that refined the text.
Refiners == {i \in DOMAIN chain : chain[i].text # Failed}

\* The answer is the last successful refinement, written over the one before it, or what
\* the broadcast gave: a provider that fails loses nothing of it (_refine).
LastRefinerWins ==
    stage = "done" /\ parts # <<>> =>
        /\ answer = IF Refiners # {} THEN chain[Max(Refiners)].text
                    ELSE IF Len(parts) = 1 THEN heard[parts[1]] ELSE Synthesis
        /\ \A i, j \in Refiners : i < j /\ (\A k \in Refiners : k <= i \/ j <= k) =>
              chain[j].text.over = chain[i].by

\* Whatever order the answers came in, they are combined in the fixed one, none left out.
Rank(p) == CHOOSE i \in DOMAIN Order : Order[i] = p
OrderIsFixed ==
    stage = "refine" => /\ ToSet(parts) = {p \in DOMAIN heard : heard[p] # Failed}
                        /\ \A i, j \in DOMAIN parts : i < j => Rank(parts[i]) < Rank(parts[j])

\* Only claude is ever asked for the definitive answer, and only when all the others had
\* their turn: with one provider missing nobody is (_refinement_prompt).
DefinitiveIsClaudes ==
    \A i \in DOMAIN chain :
        chain[i].text.as = "definitive" => chain[i].by = "claude" /\ Len(chain) = 4

\* The caller is handed an empty text only when claude did not have the last word.
EmptyIsNotClaudes ==
    stage = "done" /\ answer.as = "empty" => answer.by # "claude" /\ (chain # <<>> => Last(chain).by # "claude"
                                                                       \/ Last(chain).text = Failed)

\* Under Infusion a call never fails: when nobody answered the broadcast the caller is
\* handed an apology as if it were the answer (run).
FailureIsSpoken ==
    stage = "done" /\ infused =>
        /\ answer # Failed
        /\ answer = Apology <=> \A p \in DOMAIN heard : heard[p] = Failed

\* What comes out of a chain of providers of which each may fail.
InfusionHolds == LastRefinerWins /\ OrderIsFixed /\ DefinitiveIsClaudes /\ EmptyIsNotClaudes /\ FailureIsSpoken
=============================================================================
