-------------------------- MODULE MCUploadRequest --------------------------
(* Routes that overlap in path, method or both, and paths that tell them   *)
(* apart.                                                                  *)
EXTENDS UploadRequest

x == <<120>>
y == <<121>>
id == <<105, 100>>
EscapedY == <<37, 55, 57>>      \* %79
Signed == <<37, 43, 57>>        \* %+9
Cut == <<120, 37, 55>>          \* x%7

Route(method, path) == [method |-> method, path |-> path]

MCRoutes ==
  <<Route("GET", <<Segment(x)>>),
    Route("POST", <<Segment(x)>>),
    Route("GET", <<Segment(x), Param(id)>>),
    Route("PUT", <<Param(id), Segment(y)>>),
    Route("GET", <<Param(x), Param(y)>>),
    Route("GET", <<Param(NoName), Nothing>>)>>

MCNames == {NoName, x, y, id, EscapedY, Signed, Cut}

MCLengths == {Unknown, 1, 5, 6}

MCMethods == {"GET", "POST", "PUT"}

MCPaths ==
  {<<>>, <<Segment(x)>>, <<Segment(x), Nothing>>, <<Segment(x), Segment(y)>>,
   <<Segment(x), Segment(EscapedY)>>, <<Segment(Cut), Segment(y)>>, <<Param(id), Segment(y)>>}
=============================================================================
