SPECIFICATION Spec
CONSTANTS
    Seeds = {c1, c2}
    Specs <- DemoSpecs
    Bookings <- DemoBookings
    Seekers = {"demo", "guest"}
    Titles = {"yoga", "sound", "mine"}
    Capacities = {1, Unlimited}
    Unlimited = Unlimited
    MaxEvents = 3
    MaxStarts = 2
CHECK_DEADLOCK FALSE
SYMMETRY SeedSymmetry
INVARIANTS SeedInv
PROPERTIES SeedsMakeNoTwins SeedIsIdempotent
