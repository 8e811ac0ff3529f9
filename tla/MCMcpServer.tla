---------------------------- MODULE MCMcpServer ----------------------------
(***************************************************************************)
(* Three calls: two additions of one new image with different bases next   *)
(* to a variant of it or a listing; three variants of one image, two of    *)
(* them the same; an addition of an image that exists; and lookups of a    *)
(* page while an image is added.                                           *)
(***************************************************************************)
EXTENDS McpServer

MCRequest(tool, image, base, variant, page) ==
    [tool |-> tool, image |-> image, base |-> base, variant |-> variant, page |-> page]

Add(i, b) == MCRequest("add_image", i, b, "", "")
Vary(i, v) == MCRequest("add_image_variant", i, "", v, "")
List == MCRequest("list_images", "", "", "", "")
Lookup(p) == MCRequest("get_documentation", "", "", "", p)

MCWorkloads ==
    {<<Add("new", "alpine"), Add("new", "debian"), List>>,
     <<Add("new", "alpine"), Vary("new", "slim"), List>>,
     <<Add("new", "alpine"), Add("app", "debian"), Vary("new", "slim")>>,
     <<Vary("app", "slim"), Vary("app", "dev"), List>>,
     <<Vary("app", "slim"), Vary("app", "slim"), Add("new", "alpine")>>,
     <<Add("new", "alpine"), Lookup("index"), Lookup("index")>>,
     <<Lookup("index"), Lookup("index"), Lookup("usage")>>}
=============================================================================
