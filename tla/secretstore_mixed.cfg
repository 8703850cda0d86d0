SPECIFICATION Spec
CONSTANTS
    None = None
    Conns = {c1, c2}
    Providers = {q1}
    Secrets = {s1, s2}
    Passwords = {p1, p2}
    Salts = {t1, t2}
    EnvKeys = {e1, e2}
    EnvValues = {None, e1, e2}
    WritesMayFail = TRUE
SYMMETRY Symmetry
INVARIANTS TypeOK NoStrandedSecret OnlyVerifiedKeyInForce
