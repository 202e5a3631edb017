------------------------------- MODULE MCLinks -------------------------------
(***************************************************************************)
(* A shop that calls a depot, at two commits each: a call whose parameter  *)
(* is spelled differently, one that only a later commit answers, a table   *)
(* of its own, and an import of a library.                                 *)
(***************************************************************************)
EXTENDS LinkDesk

MCKey(path) ==
    CASE path \in {"orders/:id", "orders/{id}"} -> "orders/*"
      [] path \in {"stock/:sku", "stock/{sku}"} -> "stock/*"
      [] OTHER -> path

Edge(channel, module, node, target, at) ==
    [channel |-> channel, module |-> module, node |-> node, target |-> target, at |-> at]

Shop1 == {Edge("http_out", "web", "Cart", "orders/:id", "Cart:1"),
          Edge("http_out", "web", "Cart", "prices", "Cart:2"),
          Edge("persist", "web", "Cart", "carts", "Cart:3"),
          Edge("schema_own", "db", "V1", "carts", "V1:1"),
          Edge("event_publish", "web", "Cart", "kafka", "Cart:4")}

\* The call moved, and the table went to another module.
Shop2 == {Edge("http_out", "web", "Cart", "orders/:id", "Cart:9"),
          Edge("http_out", "web", "Cart", "prices", "Cart:2"),
          Edge("persist", "web", "Cart", "carts", "Cart:3"),
          Edge("http_out", "web", "Stock", "stock/:sku", "Stock:1")}

Depot1 == {Edge("http_in", "api", "Orders", "orders/{id}", "Orders:1"),
           Edge("http_in", "api", "Orders", "stock/{sku}", "Orders:2")}

Depot2 == {Edge("http_in", "api", "Orders", "stock/{sku}", "Orders:2"),
           Edge("http_in", "api", "Prices", "prices", "Prices:1"),
           Edge("http_out", "api", "Prices", "orders/:id", "Prices:2")}

MCEdges == [shop |-> [h1 |-> Shop1, h2 |-> Shop2], depot |-> [h1 |-> Depot1, h2 |-> Depot2]]

MCAfter == [h1 |-> "h2", h2 |-> None]
=============================================================================
