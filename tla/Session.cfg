SPECIFICATION Spec
CONSTANTS
    Clients = {c1, c2}
    Removers = {c1, c2}
    Pieces = {p1}
    Peers = {a}
    MaxAdds = 2
    Restarts = TRUE
    SavesFail = TRUE
INVARIANTS
    AddedSurvives
SYMMETRY ClientsAlike
