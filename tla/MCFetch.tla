------------------------------ MODULE MCFetch ------------------------------
(* Two hosts with names, one that is an address and one that does not      *)
(* resolve.  One site redirects within itself, one to a page in clear, one *)
(* to itself for ever; one answers something that is not HTTP.             *)
EXTENDS Fetch

At(scheme, host, path) == [scheme |-> scheme, host |-> host, port |-> Dflt, path |-> path]

MCUrls ==
    {[At("http", "shop", "p") EXCEPT !.port = 8080], At("bare", "news", "p"),
     At("http", "news", "q"), At("bare", "10.0.0.5", "q"), At("http", "gone", "p"),
     At("bare", None, "p")}

MCAddrOf ==
    [h \in {"shop", "news", "10.0.0.5", "gone"} |->
        CASE h = "shop" -> "A" [] h = "news" -> "B" [] h = "10.0.0.5" -> "C" [] h = "gone" -> None]

MCListeners == {<<"A", 80>>, <<"A", 443>>, <<"A", 8080>>, <<"B", 80>>, <<"B", 443>>, <<"C", 443>>, <<"C", 80>>}

Plain(declared) == [kind |-> "page", declared |-> declared, loc |-> None]

To(loc) == [kind |-> "page", declared |-> TRUE, loc |-> loc]

MCSite ==
    [d \in (DOMAIN MCAddrOf) \X {"p", "q"} |->
        CASE d = <<"shop", "p">> -> To(At("none", None, "q"))
          [] d = <<"news", "p">> -> To(At("http", "shop", "q"))
          [] d = <<"news", "q">> -> To(At("https", "news", "q"))
          [] d = <<"10.0.0.5", "q">> -> [Plain(FALSE) EXCEPT !.kind = "other"]
          [] OTHER -> Plain(d[1] # "10.0.0.5")]

MCSelftestUrl == At("bare", "10.0.0.5", "q")
=============================================================================
