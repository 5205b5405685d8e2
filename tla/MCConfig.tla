------------------------------ MODULE MCConfig ------------------------------
(***************************************************************************)
(* Documents for ServedConfig: three that load and one for each way a      *)
(* document that parses can be unusable.                                   *)
(***************************************************************************)
EXTENDS ServedConfig

MCGlobs == ("*-free" :> {"a-free", "b-free"}) @@ ("a*" :> {"a-free", "a"})

direct == Egress("direct")
proxied == [Egress("p") EXCEPT !.proxy = <<[type |-> "socks5", scheme |-> "socks5h", host |-> "h"]>>]
idle == [Egress("idle") EXCEPT !.weight = <<0>>]
rest == Route("rest", <<"direct">>)

\* One route; several of equal and of higher priority; conditions that leave
\* some requests without a route.
plain == Document(<<direct>>, <<rest>>)
tiered ==
    Document(<<direct, proxied, idle>>,
             <<[Route("free", <<"p", "direct">>) EXCEPT !.match.models = <<"*-free", "a*">>],
               rest,
               [Route("late", <<"p">>) EXCEPT !.match.streaming = <<TRUE>>],
               [Route("big", <<"idle", "p">>) EXCEPT !.priority = 2, !.match.min = 5,
                                                    !.strategy = WeightedRR]>>)
narrow ==
    [Document(<<direct, proxied>>,
              <<[Route("small", <<"p">>) EXCEPT !.match.max = 4, !.match.streaming = <<FALSE>>],
                [Route("small2", <<"direct">>) EXCEPT !.priority = 1, !.match.max = 2]>>)
     EXCEPT !.maxAttempts = 1, !.style = "v2"]

MCDocuments ==
    [plain |-> plain, tiered |-> tiered, narrow |-> narrow,
     empty |-> Document(<<>>, <<>>),
     twins |-> Document(<<direct, direct>>, <<rest>>),
     repeated |-> Document(<<direct>>, <<Route("r", <<"direct", "direct">>)>>),
     unknown |-> Document(<<direct>>, <<Route("r", <<"p">>)>>),
     weightless |-> Document(<<direct, idle>>,
                             <<[Route("r", <<"idle">>) EXCEPT !.strategy = WeightedRR]>>),
     negative |-> Document(<<[direct EXCEPT !.weight = <<-1>>]>>, <<rest>>),
     schemes |-> Document(<<[direct EXCEPT !.proxy =
                        <<[type |-> "http", scheme |-> "socks5h", host |-> "h"]>>]>>, <<rest>>),
     unset |-> [plain EXCEPT !.references = "unset"]]

MCContents == DOMAIN MCDocuments
MCProfiles == [streaming : BOOLEAN, bytes : {1, 3, 7}, model : {"a-free", "b-free", "a"}]

=============================================================================
