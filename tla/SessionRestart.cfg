SPECIFICATION Spec
CONSTANTS
    Clients = {c1}
    Removers = {c1}
    Pieces = {p1}
    Peers = {a}
    MaxAdds = 2
    Restarts = TRUE
    SavesFail = TRUE
INVARIANTS
    HeldPiecesOnDisk
