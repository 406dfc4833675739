----------------------------- MODULE MCRouting ------------------------------
(* ModelRouting for TLC: chains of one to three models.                    *)
EXTENDS ModelRouting

CONSTANTS a, b, c

Route(provider, keyed, fallback, seeds) ==
  [registry |-> [provider |-> provider, keyed |-> keyed,
                 fallback |-> [m \in Model |-> fallback[m]]],
   seeds |-> seeds]
All(provider) == [m \in Model |-> provider]
Fallbacks(fa, fb, fc) == [m \in Model |-> CASE m = a -> fa [] m = b -> fb [] OTHER -> fc]

\* One model, and a model with one fallback, of every provider.
Short ==
  {Route(p, keyed, Fallbacks(<<b>>, <<>>, <<>>), seeds) :
     p \in {q \in [Model -> Provider] : q[c] = q[b]},
     keyed \in {{}, Model}, seeds \in {<<a>>, <<b>>}}
\* Preference lists with overlapping fallback lists.
Lists ==
  {Route(All("ollama"), {}, fallback, seeds) :
     fallback \in {Fallbacks(<<c>>, <<a>>, <<b>>), Fallbacks(<<c, b>>, <<c>>, <<a>>)},
     seeds \in {<<a, b>>, <<a, b, c>>, <<c, a>>, <<a, a>>}}
\* All three providers in one chain.
Mixed ==
  {Route(p, {m \in Model : p[m] = "openai"}, Fallbacks(<<b, c>>, <<a>>, <<>>), <<a>>) :
     p \in {q \in [Model -> Provider] : IsInjective(<<q[a], q[b], q[c]>>)}}
MCRoutes == Short \cup Lists \cup Mixed
=============================================================================
