---------------------------- MODULE MCEmbeddings ----------------------------
(***************************************************************************)
(* A small instance of EmbeddingsFanout: requests with one mistake, and    *)
(* requests of every profile with one text, two and three.                 *)
(***************************************************************************)
EXTENDS EmbeddingsFanout

Request(model, input) ==
  [model |-> model, input |-> input, encoding_format |-> "float", dimensions |-> <<>>,
   input_type |-> IF model = "dynamic" THEN " Query " ELSE "absent",
   user |-> "absent", unknown_field |-> FALSE]
List(texts) == [form |-> "list", texts |-> texts]
One(model) == Request(model, [form |-> "text", texts |-> <<"a">>])
Models == DOMAIN Profiles

Mistaken ==
  {Request("titan", i) : i \in {List(<<>>), List(<<"a", " ">>), [form |-> "tokens", texts |-> <<>>],
                                [form |-> "text", texts |-> <<"">>]}}
  \union {[One("titan") EXCEPT !.user = "bad"], [One("titan") EXCEPT !.unknown_field = TRUE],
          [One("titan") EXCEPT !.encoding_format = "hex"], One("blank"), One("unknown")}

Varied ==
  {[[One(m) EXCEPT !.dimensions = d] EXCEPT !.input_type = t] :
     m \in Models, d \in {<<>>, <<0>>, <<256>>, <<1536>>, <<2000>>},
     t \in {"absent", "document", " Query ", "other"}}

Several ==
  {Request(m, List(t)) : m \in Models \ {"titan"}, t \in {<<"a", "b">>, <<"a", "b", "a">>}}
  \union {[Request("titan", List(<<"a", "b", "a">>)) EXCEPT !.encoding_format = "base64"]}

MCRequests == Mistaken \union Varied \union Several
=============================================================================
