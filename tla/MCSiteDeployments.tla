------------------------- MODULE MCSiteDeployments -------------------------
(* SiteDeployments for TLC: two request slots, bundles of one file.        *)
EXTENDS SiteDeployments, TLC

CONSTANTS r1, r2

Ask(target, pinned, promote) ==
  [target |-> target, environment |-> "preview", pinned |-> pinned, promote |-> promote]

MCForms == {Ask("origin_assisted", FALSE, TRUE), Ask("origin_assisted", FALSE, FALSE)}

MCRecords == {Ask("cloudflare_static", FALSE, FALSE), Ask("cloudflare_static", TRUE, TRUE)}

OneFile == <<"index.html">>

\* One client publishes while another withdraws.
PublishAndDelete ==
  r1 :> {"create", "record", "promote"} @@ r2 :> {"promote", "activate", "delete"}

MCMaxRequests == r1 :> 3 @@ r2 :> 2
=============================================================================
